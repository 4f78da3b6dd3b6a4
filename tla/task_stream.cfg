CONSTANTS
    Reader = {c1, c2}
    MaxEvents = 2
    MaxPreviews = 1
    MaxOther = 1
SPECIFICATION FairSpec
CHECK_DEADLOCK FALSE
INVARIANTS
    TypeOK
    SleepersAreCurrent
PROPERTIES
    ImplementsEventFeed
    EventsReachStreams
    StreamsAreTold
