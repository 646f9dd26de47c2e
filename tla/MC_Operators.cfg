\* A ceiling defined below INT_MAX, as the #ifndef in pcp.c permits; every
\* packet format and every byte value of r_opcode.
CONSTANTS
    IntBits = 8
    MAXIMUM_MAPPING_ID = 100
    U32Bits = 30
SPECIFICATION Spec
INVARIANT AllocatorContract
INVARIANT LayoutMatchesDiagram
INVARIANT RBitEncoding
INVARIANT ResultCodesMatchRFC
INVARIANT UptimeReadsBack
