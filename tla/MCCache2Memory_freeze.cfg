CONSTANTS
    Requests = {q1, q2}
    StartLimits <- Tight
    Limits <- TightLimits
    MaxAge = TRUE
    MaxBlocks = 2
    MaxGets = 3
    MaxReconfigs = 0
SPECIFICATION LiveSpec
PROPERTY FreezeResolved
CHECK_DEADLOCK FALSE
