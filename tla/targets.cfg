\* Every call with at most two fields in its locator, one after the other. A
\* call ends.
SPECIFICATION Spec
CHECK_DEADLOCK FALSE
CONSTANTS
    MaxFields = 2
    Calls <- AllCalls
INVARIANTS
    ActsOnWhatWasNamed
    AcceptedIsCarriedOut
