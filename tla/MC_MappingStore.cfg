\* One API caller and one Apteryx watch thread, the store's normal use:
\* pcpd (or the manager that owns mappings) calls the API while the watch
\* callback reports changes.  Times stay clear of the u_int32_t wrap.
CONSTANTS
    Clients = {c1}
    Watchers = {w1}
    AutoIndex = TRUE
    AddIndices = {20}
    Lifetimes = {5}
    Skews <- MCSkews
    TimeBits = 6
    StartTime = 10
    MaxTicks = 2
    MaxOps = 4
    IntBits = 8
    MAXIMUM_MAPPING_ID = 20
    NULL = NULL
SPECIFICATION Spec
INVARIANT TypeOK
INVARIANT CommittedMappingsComplete
INVARIANT RefreshContract
INVARIANT GetallSorted
INVARIANT NoOrphanKeys
PROPERTY ObserverMembershipConverges
PROPERTY ImplementsMappingTable
CHECK_DEADLOCK FALSE
