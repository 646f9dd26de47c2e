\* Two API callers: one refreshes a mapping while the other deletes it.
CONSTANTS
    Clients = {c1, c2}
    Watchers = {w1}
    AutoIndex = TRUE
    IntBits = 8
    MAXIMUM_MAPPING_ID = 20
    NULL = NULL
    AddIndices = {20}
    Lifetimes = {5}
    Skews = {0}
    TimeBits = 6
    StartTime = 10
    MaxTicks = 0
    MaxOps = 2
SPECIFICATION Spec
INVARIANT NoOrphanKeys
CHECK_DEADLOCK FALSE
