SPECIFICATION FairSpec
CONSTANTS
    Callers = {c1}
    MaxCalls = 1
    MaxChunks = 3
    BufCap = 2
PROPERTY ErrorEndsWait
CHECK_DEADLOCK FALSE
