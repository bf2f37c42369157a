SPECIFICATION MCFairSpec
CONSTANTS
    Callers = {t1, t2, t3}
    None = none
    Tags = 8
    MaxLag = 6
    MaxLate = 1
    CtCnt = 3
    CtWord = 6
    CtBudget = 1
    CtRx = 3
    CtMsgs = 6
INVARIANTS
    RepliesMatched
    RingOrdered
PROPERTIES
    CtrlProgress
    CtOnlyOverrunForgets
