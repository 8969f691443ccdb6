CONSTANTS
    RecentSenders = {r1}
    HistoricSenders = {h1, h2}
    Eraser = e
    Preprocessor = p
    ShortWindow = 2
    HistoricWindow = 3
    FutureSeconds = 2
    MemoryLimit = 1
    TailAtStart = 1
    MaxBuckets = 1
    MaxTime = 5
    MaxStops = 1
SPECIFICATION LiveSpec
CHECK_DEADLOCK FALSE
PROPERTY EventuallySettled
