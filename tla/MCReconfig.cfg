SPECIFICATION FairSpec
CONSTANTS
    Bits = {b1, b2}
    Syncs = {s1}
    Waits = {w1}
    Cleaner = clean
    NoOne = noone
INVARIANTS
    UpdatesExclusive
    ReturnsSound
PROPERTIES
    WordSteps
    ReconfigProgress
CHECK_DEADLOCK FALSE
