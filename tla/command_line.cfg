\* Directories of up to two of the case files of the MC module, single cases,
\* and dynamic tasks of three steps: launch, launch again, kill. A command that
\* has ended stops.
SPECIFICATION FairSpec
CHECK_DEADLOCK FALSE
CONSTANTS
    Polls = 1
    MaxStarts = 2
    Cases <- CaseFiles
    MaxCases = 2
    AgentSteps <- Taken
    MaxSteps = 3
INVARIANTS
    TypeOK
    DrivenAsReported
    BatchAccountsForEveryCase
    PreparedBeforeActing
PROPERTIES
    CommandEnds
