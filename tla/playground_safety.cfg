\* Two requests and two cancelling clients: overlapping runs, concurrent cancels
\* of one request, and cancels that race with attach(). Devices only matter by
\* being selected or not, hence the symmetry. Requests are used up, so TLC's
\* deadlock check is off.
CONSTANTS
    Request = {r1, r2}
    Canceller = {c1, c2}
    Device = {d1, d2}
    NoRequest = NoRequest
    NoDevice = NoDevice
SPECIFICATION Spec
SYMMETRY FullSymmetry
CHECK_DEADLOCK FALSE
INVARIANTS
    TypeOK
    OverlapOnlyCancelled
    NoLostCancel
PROPERTIES
    ImplementsTaskSlot
