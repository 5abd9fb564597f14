SPECIFICATION Spec
CONSTANTS
    NDim = 1
    m1 = m1
    m2 = m2
    f1 = f1
    none = none
    None = none
    Parts <- MCParts
    Sources <- MCSources
    Memory <- MCMemory
    Disk <- MCDisk
    Values <- MCValues
    Zero = 0
    Contents <- MCContents
    MaxVl = 2
    MaxCalls = 3
    Faults = TRUE
INVARIANTS
    TypeOK
    CopyEqualsSource
    SliceHasItems
    PaddingOfCopy
    StoppedIsPrefix
PROPERTIES
    OthersKept
    CopyEnds
CHECK_DEADLOCK FALSE
