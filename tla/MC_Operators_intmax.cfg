\* The default ceiling, MAXIMUM_MAPPING_ID = INT_MAX (127 for 8-bit ints).
CONSTANTS
    IntBits = 8
    MAXIMUM_MAPPING_ID = 127
    U32Bits = 30
SPECIFICATION Spec
INVARIANT AllocatorContract
