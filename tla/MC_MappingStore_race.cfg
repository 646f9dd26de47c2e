\* Two API callers adding with index -1 at the same time.
CONSTANTS
    Clients = {c1, c2}
    Watchers = {w1}
    AutoIndex = TRUE
    IntBits = 8
    MAXIMUM_MAPPING_ID = 20
    NULL = NULL
    AddIndices = {20}
    Lifetimes = {5}
    Skews = {0}
    TimeBits = 6
    StartTime = 10
    MaxTicks = 0
    MaxOps = 1
SPECIFICATION Spec
INVARIANT AddExclusive
CHECK_DEADLOCK FALSE
