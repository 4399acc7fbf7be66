SPECIFICATION FairSpec
CONSTANTS
    QueueLength = 2
    MaxNumThreads = 3
    MaxIdleTime <- NoTimeout
    NumTasks = 6
INVARIANTS
    TypeOK
    RingInOrder
    DestroyedIsQuiet
PROPERTIES
    DestroyReturns
