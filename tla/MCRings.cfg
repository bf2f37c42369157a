SPECIFICATION MCFairSpec
CONSTANTS
    Cnt = 5
    Word = 10
    MaxFrags = 1
    RxCnt = 4
    XdpCnt = 3
    RxWord = 12
    FlBatch = 2
    Budget = 2
    MaxComplete = 1
    MaxRejects = 2
CHECK_DEADLOCK FALSE
INVARIANTS
    TxSound
    NothingWaitsForNobody
    RxSound
PROPERTIES
    RingsProgress
