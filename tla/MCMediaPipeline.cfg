SPECIFICATION FairSpec
CONSTANTS
    Callers = {c1}
    MaxCalls = 3
    MaxChunks = 3
    BufCap = 2
CONSTRAINT WhileWaited
INVARIANTS TypeOK MediaAreNotMixed EndsAreCounted KeptWasCut
PROPERTY MediaComeToAnEnd
CHECK_DEADLOCK FALSE
