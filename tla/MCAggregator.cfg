CONSTANTS
    Requests = {r1, r2}
    RequestTimes = {7, 13}
    SimulateErrors = FALSE
    ReplicaKey = 1
    ShortWindows = {3}
    FutureWindow = 4
    HistoricWindow = 3
    Inserters = {i1, i2}
    HistoricInserters = 1
    InsertHistoricWhen = 2
    InsertBatch = 2
    ContributorsScale = 4
    StartTime = 12
    Times = {13, 24}
    NoRequest = NoRequest
SYMMETRY Symmetry
SPECIFICATION Spec
INVARIANTS DiscardJustified BucketOfTheSecond ExclusiveAccess PollsHaveOwner
    CountersExact
CHECK_DEADLOCK FALSE
