CONSTANTS
    Requests = {q1, q2}
    StartLimits <- Tight
    Limits <- SomeLimits
    MaxAge = TRUE
    MaxBlocks = 2
    MaxGets = 3
    MaxReconfigs = 1
SPECIFICATION LiveSpec
INVARIANTS
    SizesExact
    NobodySleepsOverSpace
PROPERTIES
    RequestsEnd
CHECK_DEADLOCK FALSE
