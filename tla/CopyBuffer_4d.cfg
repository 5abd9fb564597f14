SPECIFICATION Spec
CONSTANTS
    NDim = 4
    SrcShapes <- MCSrc
    DstShapes <- MCDst
    Old = 100
INVARIANTS
    CopiesBox
PROPERTIES
    IsFallback
    CopyEnds
CHECK_DEADLOCK FALSE
