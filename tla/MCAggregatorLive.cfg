CONSTANTS
    Requests = {r1, r2}
    RequestTimes = {10, 18}
    SimulateErrors = TRUE
    ReplicaKey = 1
    ShortWindows = {3}
    FutureWindow = 4
    HistoricWindow = 3
    Inserters = {i1}
    HistoricInserters = 1
    InsertHistoricWhen = 2
    InsertBatch = 2
    ContributorsScale = 4
    StartTime = 12
    Times = {16}
    NoRequest = NoRequest
SPECIFICATION LiveSpec
PROPERTIES RecentAnswered ShutdownFinishes
CHECK_DEADLOCK FALSE
