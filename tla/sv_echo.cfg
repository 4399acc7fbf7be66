SPECIFICATION Spec
CONSTANTS
    Listener = {l1}
    Conn = {c1}
    Thread = {t1, t2}
    QueueLength = 1
    MaxEvents = 2
    WaitTimeout = TRUE
    LongTimeout = TRUE
    NumClients = 2
    MaxSends = 1
INVARIANTS
    TypeOK
    UsedOrUnused
    CallbacksOnTheirConnection
    NoDescriptorLost
SYMMETRY ThreadSymmetry
