SPECIFICATION MCSpec
CONSTANTS
    Bars = {0, 1, 2}
    BarBits <- MCBarBits
    ReservedBars = {0}
    BulkBits = 2
    FixedBits = 3
    MaxArea = 8
    Threads = {t1, t2}
    CdevThreads = {t1}
    Caches = {c1}
    CacheSize <- MCCacheSize
    OtherAreas = {r1, r2}
    Channels = {0}
    Vmas = {v1, v2}
    Sizes = {1}
    Pages = {0}
    CdevWindows <- MCCdevWindows
    Windows <- MCWindows
    Callers = {a, b}
    DefSize = 1
    DmaOrders = {0, 2}
    BufSizes = {0, 1, 3}
    Minors = {7, 8, 13}
    MaxCommands = 3
SYMMETRY Sym
INVARIANTS
    BusSound
    BusUsersServed
    
    NspSound
CHECK_DEADLOCK FALSE
