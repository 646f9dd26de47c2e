CONSTANTS
    FlagKeys = {"pcp_enabled", "map_support"}
    NumberKeys = {"max_mapping_lifetime"}
    DefaultOrder <- MCDefaultOrder
    Defaults <- MCDefaults
    Values = {2, 5}
    UIntBits = 4
    MaxWrites = 2
    MaxCrashes = 2
    NULL = NULL
SPECIFICATION Spec
INVARIANT TypeOK
INVARIANT ConfigTracksStore
PROPERTY ConfigConverges
CHECK_DEADLOCK FALSE
