SPECIFICATION FairSpec
CONSTANTS
    NumForks = 2
    MaxStatus = 2
    Status <- Statuses
    MaxSigInt = 2
INVARIANTS
    NoChildLeftBehind
    KillsOnlyItsOwn
    NeverOvercounts
PROPERTIES
    ForkDecides
    RemovalReturns
CHECK_DEADLOCK FALSE
