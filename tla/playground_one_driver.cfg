CONSTANTS
    Request = {r1, r2}
    Canceller = {c1}
    Device = {d1}
    NoRequest = NoRequest
    NoDevice = NoDevice
SPECIFICATION Spec
CHECK_DEADLOCK FALSE
INVARIANTS
    OneDriver
