SPECIFICATION MCSpec
CONSTANTS
    Masters = {m1, m2}
    Ports = {p1, p2, p3}
    Foreign = {p3}
    OtherModes = {}
    GroupMax = 3
    RetransLimit = 1
    MaxBondOps = 3
    MaxLagFaults = 1
    MaxSyncs = 1
    VfPorts = {p}
    Meters = {x}
    QosThreads = {t1, t2}
    MaxQosOps = 4
    MaxPkts = 1
    MaxReplies = 1
    PhysPorts = {p1}
    MtuVals = {1, 2}
    DefMtu = 1
    WorkqMax = 1
    MaxMtuReqs = 2
    MaxLinks = 2
    MaxLate = 2
    MaxSpawns = 2
    MacDevs = {"a", "b", "br", "v"}
    DevKind <- MCDevKind
    PortNo <- MCPortNo
    Macs = {m1, m2}
    MaxMacIndex = 1
    MaxMacOps = 5
    MaxMacFaults = 1
    Neighs = {"n1"}
    Predts = {pa, pb}
    RemMac <- MCRemMac
    NeighMacs = {m1, m2}
    Writers = {w1, w2}
    NoFlow = NoFlow
    MaxChanges = 4
    MaxRoutes = 1
    MaxNeighFaults = 1
INVARIANTS
    BondsConverge
    
    
    
CHECK_DEADLOCK FALSE
