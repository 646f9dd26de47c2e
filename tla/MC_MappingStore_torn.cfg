\* One API caller deleting while the watch thread is inside
\* pcp_mapping_find.
CONSTANTS
    Clients = {c1}
    Watchers = {w1}
    AutoIndex = TRUE
    IntBits = 8
    MAXIMUM_MAPPING_ID = 20
    NULL = NULL
    AddIndices = {20}
    Lifetimes = {5}
    Skews = {0}
    TimeBits = 6
    StartTime = 10
    MaxTicks = 0
    MaxOps = 2
SPECIFICATION Spec
INVARIANT ObserverRecordsWellFormed
CHECK_DEADLOCK FALSE
