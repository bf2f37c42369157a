SPECIFICATION FairSpec
CONSTANTS
    Bits = {b1, b2}
    Syncs = {}
    Waits = {w1}
    Cleaner = clean
    NoOne = noone
CHECK_DEADLOCK FALSE
INVARIANT PostedHasRunner
