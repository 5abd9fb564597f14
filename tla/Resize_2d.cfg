SPECIFICATION MCSpec
CONSTANTS
    NDim = 2
    ChunkShape <- MCChunk11
    MaxExtent <- MCMax23
    Contents <- MCContents
    Zero = 0
    NULL = NULL
    InRange = TRUE
    Faults = TRUE
CONSTRAINT UpToFault
INVARIANTS
    GridIsFull
PROPERTIES
    InterruptionLosesNothing
    IsResizableGrid
