SPECIFICATION Spec
CONSTANTS
    NDim = 1
    m1 = m1
    m2 = m2
    f1 = f1
    none = none
    None = none
    Parts <- MCParts
    Sources <- MCSources
    Memory <- MCMemory
    Disk <- MCDisk
    Values <- MCValues
    Zero = 0
    Contents <- MCContents
    MaxVl = 2
    MaxCalls = 1
    Faults = TRUE
INVARIANTS
    SaveMeansSaved
CHECK_DEADLOCK FALSE
