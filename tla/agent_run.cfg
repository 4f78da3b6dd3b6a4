SPECIFICATION Spec
CHECK_DEADLOCK FALSE
CONSTANTS
    Run = {r1}
    RunId = {i1}
INVARIANTS
    TypeOK
    FinalEvent
    SessionsClosed
PROPERTIES
    CancelledStepsDown
    SetupEnds
