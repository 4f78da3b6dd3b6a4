\* Two body and two teardown steps: a stop or an exception with body steps left,
\* and with teardown steps left. Two artifact kinds: a capture that fails after
\* one that worked. The run ends, so TLC's deadlock check is off.
CONSTANTS
    Kinds = 2
    Body = 2
    Teardown = 2
SPECIFICATION Spec
CHECK_DEADLOCK FALSE
INVARIANTS
    TypeOK
    VerdictMatchesReports
    FailureIsEvidenced
    ArtifactsAccountedFor
PROPERTIES
    ImplementsCoreRun
