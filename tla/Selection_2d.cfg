SPECIFICATION MCSpec
CONSTANTS
    NDim = 2
    ChunkShape <- MCChunk23
    BlockShape <- MCBlock12
    Shapes <- MCShapes34
    Values <- MCValues
    Garbage = 1000
    Buffers <- MCBuffers
    MaxIndexes = 3
    Beyond <- MCBehind
    HalfInt = 3
    MaxPad = 1
    MaxCalls = 1
    Faults = TRUE
INVARIANTS
    TypeOK
    GetSelects
    StaysInBuffer
    LastWins
PROPERTIES
    TouchesOnlySelected
CHECK_DEADLOCK FALSE
