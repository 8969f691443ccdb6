CONSTANTS
    QueueLen = 10
    FutureSlots = 1
    Spread = 6
    Resolutions = {1, 3}
    Times <- ClockTimes
    Windows = {1, 2}
    MaxEvents = 2
SPECIFICATION Spec
INVARIANTS
    SentInChosenSecond
    AllFlushedWhenClosed
    FutureLimitWithoutSleep
CHECK_DEADLOCK FALSE
