SPECIFICATION MCSpec
CONSTANTS
    NDim = 2
    ChunkShape <- MCChunk13
    BlockShape <- MCBlock12
    Shapes <- MCShapes24
    Values <- MCValues
    Zero = 0
    Garbage = 1000
    Buffers <- MCBuffers
    BufferShape <- MCBuffer35
    Overhang = 1
    MaxPad = 1
    MaxCalls = 2
    Faults = TRUE
INVARIANTS
    TypeOK
    GetReturnsItems
PROPERTIES
    PaddingIsOwn
    IsArrayOfItems
CHECK_DEADLOCK FALSE
