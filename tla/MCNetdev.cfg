SPECIFICATION MCSpec
CONSTANTS
    MaxVecs = 2
    MaxTx = 3
    Mtus = {1, 2}
    PageMtu = 1
    MaxOps = 3
    MaxModes = 1
    FreelistCap = {TRUE, FALSE}
    LifeConfigs <- MCConfigs
    MaxFails = 1
    MaxProbes = 1
    MaxOrders = 1
    MaxRefreshes = 1
INVARIANTS
    
    VnicWordKept
    ProbeUndone
    NothingLeftBehind
CHECK_DEADLOCK FALSE
