SPECIFICATION MCSpec
CONSTANTS
    fa = fa
    fb = fb
    fc = fc
    Cookies = {fa, fb, fc}
    RuleOf <- MCRules
    CtxCount = 3
    NumMems = 1
    MaskRing = 2
    MaxFaults = 1
    MaxRuleOps = 6
    MaxCounts = 1
    pr1 = pr1
    post1 = post1
    post0 = post0
    mid1 = mid1
    far1 = far1
    n1 = n1
    n2 = n2
    CtRules = {pr1, post1, mid1, far1, n1, n2}
    CtRuleOf <- MCCtRules
    NatField = TRUE
    MaxRecirc = 2
    MaxCtOps = 7
    MaxCtFaults = 1
    MaxHits = 1
    KeyRules <- MCKeyRules
    KeyFeats <- MCKeyFeats
    ActJobs <- MCActJobs
    MaxActLw = 17
INVARIANTS
    
    FlowsAgree
    
    
    ActionsSound
CHECK_DEADLOCK FALSE
