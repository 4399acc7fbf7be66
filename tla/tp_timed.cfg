SPECIFICATION FairSpec
CONSTANTS
    QueueLength = 1
    MaxNumThreads = 3
    MaxIdleTime = 1000
    NumTasks = 6
INVARIANTS
    WorkersAccounted
    NoIdlerWhileTasksQueued
    EachTaskOnce
PROPERTIES
    ImplementsExecutor
    TasksFinish
CHECK_DEADLOCK FALSE
