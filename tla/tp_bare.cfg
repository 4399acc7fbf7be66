SPECIFICATION FairSpec
CONSTANTS
    QueueLength = 0
    MaxNumThreads = 3
    MaxIdleTime = 0
    NumTasks = 6
INVARIANTS
    BlockedOnlyWhenFull
PROPERTIES
    TasksFinish
