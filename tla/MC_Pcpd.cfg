CONSTANTS
    FlagKeys = {"pcp_enabled", "map_support"}
    NumberKeys = {"max_mapping_lifetime"}
    DefaultOrder <- MCDefaultOrder
    Defaults <- MCDefaults
    Values = {5}
    UIntBits = 4
    MaxWrites = 1
    MaxCrashes = 1
    MaxSetFailures = 1
    NULL = NULL
    Nonces = {n1}
    Versions = {2}
    Lengths = {0, 1, 24, 60}
    MaxDatagrams = 2
SPECIFICATION Spec
INVARIANT MapSupportFromStore
CHECK_DEADLOCK FALSE
