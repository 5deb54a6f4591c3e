SPECIFICATION FairSpec
CONSTANTS
    Tasks = {t1, t2, t3}
    Workers = {w1, w2}
    NoWorker = NoWorker
    NoTask = NoTask
    QueueMax = 1
    MaxResults = 1
    MaxRestarts = 1
    MayShutDown = TRUE
    MayCrash = TRUE
    Environments <- NoneOrOneFault
INVARIANTS
    EachTaskHasOnePlace
    
    WalMatchesMap
PROPERTIES
    TerminalIsFinal
    EveryTaskFinishes
CHECK_DEADLOCK FALSE
