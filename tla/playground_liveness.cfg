\* Liveness, without symmetry: one run and two clients that cancel it, however
\* their handlers interleave with its thread. Other runs only share the slot,
\* which no step of an unwinding run waits for.
CONSTANTS
    Request = {r1}
    Canceller = {c1, c2}
    Device = {d1}
    NoRequest = NoRequest
    NoDevice = NoDevice
SPECIFICATION FairSpec
CHECK_DEADLOCK FALSE
PROPERTIES
    CancelStopsRun
