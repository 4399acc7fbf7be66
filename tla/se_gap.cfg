SPECIFICATION Spec
CONSTANTS
    ChunkLen = 2
    MaxMessage = 4
    FileBuf = 2
    MaxRecord = 2
    MaxRoom = 2
    BufLens <- Buffers
    FileLens <- Files
    MaxSends = 2
    MaxInput = 2
    MaxArrivals = 2
INVARIANTS
    NoGap
CHECK_DEADLOCK FALSE
