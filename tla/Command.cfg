SPECIFICATION LiveSpec
CONSTANTS
    Streams <- GateStreams
    WaitDelay = TRUE
    Cap = 2
    MaxWrites = 4
    None = None
CHECK_DEADLOCK FALSE
INVARIANTS PassIsGenuine OutputIsAccounted
PROPERTY RunReturns
