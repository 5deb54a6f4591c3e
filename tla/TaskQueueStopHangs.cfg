SPECIFICATION FairSpec
CONSTANTS
    Tasks = {t1}
    Workers = {w1}
    NoWorker = NoWorker
    NoTask = NoTask
    QueueMax = 1
    MaxResults = 1
    MaxRestarts = 1
    MayShutDown = TRUE
    MayCrash = FALSE
    Environments <- NoFaults
PROPERTIES
    StopReturns
CHECK_DEADLOCK FALSE
