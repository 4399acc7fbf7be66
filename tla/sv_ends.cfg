SPECIFICATION FairSpec
CONSTANTS
    Listener = {l1}
    Conn = {c1}
    Thread = {t1}
    QueueLength = 0
    MaxEvents = 1
    WaitTimeout = TRUE
    LongTimeout = TRUE
    NumClients = 2
    MaxSends = 1
PROPERTIES
    EveryConnectionEnds
    ShutdownEnds
    WaitersAreAccepted
