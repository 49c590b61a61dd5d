SPECIFICATION LoopSpec
CONSTANTS
    Backends = {"iouring"}
    MaxForks = 2
CHECK_DEADLOCK FALSE
INVARIANT KeptAlive
