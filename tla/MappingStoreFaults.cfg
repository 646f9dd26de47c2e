\* One API caller alone with the store, one write allowed to fail.
CONSTANTS
    Clients = {c1}
    Watchers = {w1}
    AutoIndex = TRUE
    IntBits = 8
    MAXIMUM_MAPPING_ID = 20
    NULL = NULL
    AddIndices = {20}
    Lifetimes = {5}
    Skews = {0}
    TimeBits = 6
    StartTime = 10
    MaxTicks = 0
    MaxOps = 3
    MaxFailures = 1
    Fallible = {"add", "refresh", "delete", "deleteall", "asprintf"}
SPECIFICATION FaultSpec
INVARIANT SuccessReportsEffect
CHECK_DEADLOCK FALSE
