\* Two handlers at a time for three requests. The last handler may end.
SPECIFICATION ReplaySpec
CHECK_DEADLOCK FALSE
CONSTANTS
    t1 = t1
    t2 = t2
    Handlers = {t1, t2}
    Requests = {"s1", "s2", "d"}
    Strict = {"s1", "s2"}
    Runs = {"case", "goal"}
    RunOf <- CaseAndGoal
    MaxServed = 4
    MaxTime = 2
    MaxFrames = 2
    Sizes = {3}
    Evidence <- Listed
SYMMETRY Symmetric
INVARIANTS
    ReplayTypeOK
    ReplayShowsKeptFrames
    RangeIsWhatWasAsked
PROPERTIES
    EarlierFramesStay
