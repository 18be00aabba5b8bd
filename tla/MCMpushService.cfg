CONSTANTS
    BufCap = 2
    WifiCap = 2
SPECIFICATION FairSpec
INVARIANTS TypeOK BoundBeforeConnected ServerNotConfused OneSocket
PROPERTIES GetsThrough DeadConnectionIsLeft
CHECK_DEADLOCK FALSE
