SPECIFICATION Spec
CONSTANTS
    NDim = 3
    closed = closed
    Closed = closed
    Arrays <- MCArrays
    MaxCalls = 2
    Faults = FALSE
INVARIANTS
    SqueezedIsReadable
CHECK_DEADLOCK FALSE
