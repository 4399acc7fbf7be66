SPECIFICATION FairSpec
CONSTANTS
    MaxSigInt <- Impatient
INVARIANTS
    FftwExclusive
    ModulesOutliveThreads
    RadioLeftQuiet
PROPERTIES
    ExitFollows
CHECK_DEADLOCK FALSE
