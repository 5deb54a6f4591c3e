SPECIFICATION FairSpec
CONSTANTS
    Threads = {a, b}
    MaxQueue = 2
    MaxFileLines = 1
    MaxFiles = 3
    MaxLines = 4
    MaxFlushes = 1

    
    
    
PROPERTIES
    QueuedLinesLeave
