SPECIFICATION MCSpec
CONSTANTS
    NDim = 2
    ChunkShape <- MCChunk32
    BlockShape <- MCBlock21
    Shapes <- MCShapes43
    Values <- MCValues
    Zero = 0
    Garbage = 1000
    Buffers <- MCBuffers
    BufferShape <- MCBuffer43
    Overhang = 0
    MaxPad = 0
    MaxCalls = 2
    Faults = TRUE
INVARIANTS
    ArrayTypeOK
    InsertSplices
    DeleteCloses
    ResizeKeeps
    GetReturnsItems
CHECK_DEADLOCK FALSE
