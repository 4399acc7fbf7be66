SPECIFICATION FairSpec
CONSTANTS
    OldListeners <- TwoServers
    NewListeners <- Overlap
    SigInt = TRUE
    Kills = {"old", "new"}
INVARIANTS
    NoDowntime
    OnlyItsOwnSockets
    ProtocolInStep
PROPERTIES
    NewServerDecides
CHECK_DEADLOCK FALSE
