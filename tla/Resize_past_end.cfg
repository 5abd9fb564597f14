SPECIFICATION MCSpec
CONSTANTS
    NDim = 1
    ChunkShape <- MCChunk2
    MaxExtent <- MCMax6
    Contents <- MCContents
    Zero = 0
    NULL = NULL
    InRange = FALSE
    Faults = FALSE
INVARIANT NchunksIsTheGrid
