CONSTANTS
    FlagKeys = {"pcp_enabled", "map_support"}
    NumberKeys = {"max_mapping_lifetime"}
    DefaultOrder <- MCDefaultOrder
    Defaults <- MCDefaults
    Values = {5}
    UIntBits = 4
    MaxWrites = 0
    MaxCrashes = 0
    MaxSetFailures = 0
    NULL = NULL
    Nonces = {n1, n2}
    Versions = {2}
    Lengths = {0, 1, 24, 60}
    MaxDatagrams = 2
SPECIFICATION Spec
INVARIANT ResponseEchoesRequest
CHECK_DEADLOCK FALSE
