SPECIFICATION Spec
CONSTANTS
    NULL = NULL
    c1 = c1
    c2 = c2
    c3 = c3
    Conns <- MCConns
    Files <- MCFiles
    Plans <- MCPlans
    BlockLen = 2
    MaxSendBuff = 4
    TokenMax = 2
    MaxPost = 2
    SectorLen = 4
    FwSize = 8
    FlashBlocks = 2
    MaxConn = 2
INVARIANTS PoolIsAccounted AnswersAreWhole ScanListIsOne UploadIsStored
PROPERTIES RunningIsKept BegunIsEnded
CHECK_DEADLOCK FALSE
