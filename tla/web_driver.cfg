SPECIFICATION FairSpec
CONSTANTS
    Preview = {p1}
    Runner = runner
    MaxExecutors = 2
INVARIANTS
    TypeOK
    PageOnItsWorker
    RunKeepsItsExecutor
    NothingLostUnlessFailed
PROPERTIES
    CallsEnd
