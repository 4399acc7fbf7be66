SPECIFICATION FairSpec
CONSTANTS
    QueueLength = 1
    MaxNumThreads = 3
    MaxIdleTime = 1000
    NumTasks = 4
PROPERTY
    DestroyReturns
CHECK_DEADLOCK FALSE
