SPECIFICATION Spec
CONSTANTS
    NDim = 3
    closed = closed
    Closed = closed
    Arrays <- MCArrays
    MaxCalls = 5
    Faults = TRUE
INVARIANTS
    MetaReadsBack
    SqueezeKeepsItems
    SqueezeKeepsExtents
    FlatStaysReadable
CHECK_DEADLOCK FALSE
