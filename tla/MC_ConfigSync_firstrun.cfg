CONSTANTS
    FlagKeys = {"pcp_enabled", "map_support"}
    NumberKeys = {"max_mapping_lifetime"}
    DefaultOrder <- MCDefaultOrder
    Defaults <- MCDefaults
    Values = {2, 5}
    UIntBits = 4
    MaxWrites = 0
    MaxCrashes = 1
    NULL = NULL
SPECIFICATION Spec
INVARIANT ConfigComplete
CHECK_DEADLOCK FALSE
