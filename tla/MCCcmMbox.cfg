SPECIFICATION FairSpec
CONSTANTS
    c1 = c1
    c2 = c2
    p1 = p1
    p2 = p2
    Callers <- MCCallers
    Posts <- MCPosts
    Size <- MCSize
    WaitWork = waitw
    RunqWork = runqw
    Other = other
    NoOne = noone
    Space = 4
    BatchLimit = 3
    MaxQlen = 3
INVARIANTS
    BatchesOwned
PROPERTIES
    MboxProgress
CHECK_DEADLOCK FALSE
