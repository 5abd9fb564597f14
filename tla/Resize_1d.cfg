SPECIFICATION MCFairSpec
CONSTANTS
    NDim = 1
    ChunkShape <- MCChunk2
    MaxExtent <- MCMax6
    Contents <- MCContents
    Zero = 0
    NULL = NULL
    InRange = TRUE
    Faults = TRUE
INVARIANTS
    TypeOK
    HandleMatchesStorage
    GridIsFull
    DeletionKeepsSurvivors
    InsertionKeepsOldChunks
PROPERTIES
    LateRefusal
    CallReturns
    IsResizableGrid
