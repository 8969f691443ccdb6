CONSTANTS
    Loaders = {l1, l2, l3}
    Requests <- SomeRequests
    N = 3
    End <- Ends
    invalidateLinger = 1
    MaxInserts = 1
    MaxEvents = 1
SPECIFICATION Spec
SYMMETRY Symmetry
INVARIANTS
    AwaitersHaveLoader
    NothingMissing
    StaleOnlyIfReloaded
CHECK_DEADLOCK FALSE
