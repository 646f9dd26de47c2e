\* One caller adds a mapping and refreshes it to a lifetime far from the
\* old one; Apteryx may refuse one of the refresh's two sets.
CONSTANTS
    Clients = {c1}
    Watchers = {w1}
    AutoIndex = TRUE
    IntBits = 8
    MAXIMUM_MAPPING_ID = 20
    NULL = NULL
    AddIndices = {20}
    Lifetimes = {5, 20}
    Skews = {0}
    TimeBits = 6
    StartTime = 10
    MaxTicks = 0
    MaxOps = 2
    MaxFailures = 1
    Fallible = {"refresh"}
SPECIFICATION FaultSpec
PROPERTY ImplementsMappingTable
CHECK_DEADLOCK FALSE
