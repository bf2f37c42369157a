INIT MCInit
NEXT MCNext
CONSTANTS
    ByteBits = 2
    OperandMax = 8
    StackDepth = 12
    EthHlen = 5
    EthZlen = 6
    OffMin = 4
    OffMax = 8
    Einval = 6
    GuaranteedAdd = 1
    GuaranteedSub = 1
    QueueNone = 2
    JitValues <- MCValues
    JitImms <- MCImms
    JitLengths <- MCLengths
    MemInsns <- MCInsns
    OptPrograms <- MCOptPrograms
    GatherMax = 4
    CacheMax = 5
    LinkPrograms <- MCLinkPrograms
    FrameAlign = 4
    MaxStack = 28
    Sites <- MCSites
    VisitsOf <- MCVisits
    VisitGroups <- MCGroups
    VisitMax = 3
    IndexMod = 64
    U32Max = 7
    U16Max = 3
    HeadMax = 2
    HeadAdd = 2
    HeadSub = 2
    NWords = 2
    RwInsns = 7
    RwJumps <- MCJumps
    u1 = u1
    u2 = u2
    r1 = r1
    MapCallers = {u1, u2}
    MapKeys = {1, 2}
    CacheCnt = 2
    GenMod = 16
    MapPlays <- MCPlays
    Progs <- MCProgs
    Readers = {r1}
    OffMaps <- MCOffMaps
    MaxMaps = 2
    MaxElems = 4
    FwMtu = 2
    Mtus = {2, 3}
    RecordMax = 3
    CallMax = 4
    ProgPlays = {"records", "vnic", "maps"}
INVARIANT CopiesKept
CHECK_DEADLOCK FALSE
