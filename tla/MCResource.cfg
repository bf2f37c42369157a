SPECIFICATION FairSpec
CONSTANTS
    a = a
    b = b
    c = c
    i1 = i1
    i2 = i2
    Threads <- MCThreads
    Host <- MCHost
    Leader <- MCLeader
    Interfaces = {i1, i2}
    NoInterface = none
    Dev = dev
    Resources = {r1}
    Faults = TRUE
    MaxCrashes = 1
INVARIANTS
    ExclusiveUnlessMisbust
    
PROPERTIES
    
    ImplementsLockService
