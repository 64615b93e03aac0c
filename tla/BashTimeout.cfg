SPECIFICATION LiveSpec
CONSTANTS
    Streams <- ShellStreams
    WaitDelay = FALSE
    Cap = 1
    MaxWrites = 1
    None = None
CHECK_DEADLOCK FALSE
PROPERTY RunReturns
