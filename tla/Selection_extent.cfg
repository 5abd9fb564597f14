SPECIFICATION MCSpec
CONSTANTS
    NDim = 2
    ChunkShape <- MCChunk22
    BlockShape <- MCBlock12
    Shapes <- MCShapes42
    Values <- MCValues
    Garbage = 1000
    Buffers <- MCBuffers
    MaxIndexes = 1
    Beyond <- MCExtent
    HalfInt = 100
    MaxPad = 0
    MaxCalls = 1
    Faults = FALSE
PROPERTIES
    TouchesOnlySelected
CHECK_DEADLOCK FALSE
