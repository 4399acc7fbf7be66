SPECIFICATION FairSpec
CONSTANTS
    Listener = {l1}
    Conn = {c1}
    Thread = {t1}
    QueueLength = 1
    MaxEvents = 2
    WaitTimeout = FALSE
    LongTimeout = FALSE
    NumClients = 1
    MaxSends = 2
INVARIANTS
    NoEdgeLost
PROPERTIES
    InputIsRead
