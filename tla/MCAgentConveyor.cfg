CONSTANTS
    RecentSenders = {r1}
    HistoricSenders = {h1, h2}
    Eraser = e
    Preprocessor = p
    ShortWindow = 1
    HistoricWindow = 3
    FutureSeconds = 1
    MemoryLimit = 1
    TailAtStart = 1
    MaxBuckets = 2
    MaxTime = 4
    MaxStops = 1
SPECIFICATION Spec
SYMMETRY Symmetry
INVARIANTS
    OneOwner
    NothingForgotten
    TailBehindQueue
    MemoryAccounted
    NoLostWakeup
    ShutdownKeepsBuckets
CHECK_DEADLOCK FALSE
