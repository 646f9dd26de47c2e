----------------------------- MODULE PcpPackets -----------------------------
(***************************************************************************)
(* The PCP wire formats of src/pcpd/packets_pcp.h.  Every packet is a      *)
(* PACKED struct, so a member's offset is the sum of the sizes of the      *)
(* members before it; a nested header is its members in place.  A struct   *)
(* is the sequence of its members with their sizes in bytes.  Beside each  *)
(* struct, the RFC 6887 diagram of the comment above it, as the sequence  *)
(* of its rows with their widths in bits, and the R-bit macros on the      *)
(* opcode byte.  The serialisation code (packets_pcp.c) is not in the      *)
(* repository; main() reads the structs straight from the receive buffer. *)
(***************************************************************************)
EXTENDS Integers, Sequences, SequencesExt, Bitwise

PCP_VERSION == 2
RESPONSE_RESERVED_SIZE == 3
MAPPING_NONCE_SIZE == 3
MAP_OPCODE == 1
PEER_OPCODE == 2
MAX_STRING_LEN == 256

\* Mutant: `~(1 << 8)`, which leaves a byte's bits all set.
R_REQUESTShiftEight(opcode) == opcode & ((2^16 - 1 - 2^8) % 2^8)

\* R_REQUEST: `~(1 << 7)` is an int; its low byte is all the u_int8_t
\* r_opcode keeps of the `&`.
R_REQUEST(opcode) == opcode & ((2^16 - 1 - 2^7) % 2^8)

R_RESPONSE(opcode) == opcode | 2^7

\* Mutant: UNSUPP_OPTION missing from the enum.
result_codeNoUnsuppOption ==
    << "SUCCESS", "UNSUPP_VERSION", "NOT_AUTHORIZED", "MALFORMED_REQUEST",
       "UNSUPP_OPCODE", "MALFORMED_OPTION", "NETWORK_FAILURE",
       "NO_RESOURCES", "UNSUPP_PROTOCOL", "USER_EX_QUOTA", "CANNOT_PROVIDE_EXTERNAL",
       "ADDRESS_MISMATCH", "EXCESSIVE_REMOTE_PEERS" >>

\* enum result_code in declaration order; C numbers it from 0.
result_code ==
    << "SUCCESS", "UNSUPP_VERSION", "NOT_AUTHORIZED", "MALFORMED_REQUEST",
       "UNSUPP_OPCODE", "UNSUPP_OPTION", "MALFORMED_OPTION", "NETWORK_FAILURE",
       "NO_RESOURCES", "UNSUPP_PROTOCOL", "USER_EX_QUOTA", "CANNOT_PROVIDE_EXTERNAL",
       "ADDRESS_MISMATCH", "EXCESSIVE_REMOTE_PEERS" >>

\* The value of an enumerator: its position, from 0.
EnumValue(enum, name) == CHOOSE n \in 0..(Len(enum) - 1) : enum[n + 1] = name

Member(name, size) == [name |-> name, size |-> size]

\* sizeof the member types
U8 == 1
U16 == 2
U32 == 4
IN6_ADDR == 16      \* struct in6_addr

pcp_request_header ==
    << Member("version", U8), Member("r_opcode", U8), Member("reserved", U16),
       Member("requested_lifetime", U32), Member("client_ip", IN6_ADDR) >>

pcp_response_header ==
    << Member("version", U8), Member("r_opcode", U8), Member("reserved", U8),
       Member("result_code", U8), Member("lifetime", U32), Member("epoch_time", U32),
       Member("reserved_array", U32 * RESPONSE_RESERVED_SIZE) >>

\* Mutant: reserved_2 declared u_int8_t.
map_requestNarrowReserved ==
    pcp_request_header \o
    << Member("mapping_nonce", U32 * MAPPING_NONCE_SIZE), Member("protocol", U8),
       Member("reserved_1", U8), Member("reserved_2", U8),
       Member("internal_port", U16), Member("suggested_external_port", U16),
       Member("suggested_external_ip", IN6_ADDR) >>

map_request ==
    pcp_request_header \o
    << Member("mapping_nonce", U32 * MAPPING_NONCE_SIZE), Member("protocol", U8),
       Member("reserved_1", U8), Member("reserved_2", U16),
       Member("internal_port", U16), Member("suggested_external_port", U16),
       Member("suggested_external_ip", IN6_ADDR) >>

map_response ==
    pcp_response_header \o
    << Member("mapping_nonce", U32 * MAPPING_NONCE_SIZE), Member("protocol", U8),
       Member("reserved_1", U8), Member("reserved_2", U16),
       Member("internal_port", U16), Member("assigned_external_port", U16),
       Member("assigned_external_ip", IN6_ADDR) >>

peer_request ==
    pcp_request_header \o
    << Member("mapping_nonce", U32 * MAPPING_NONCE_SIZE), Member("protocol", U8),
       Member("reserved_1", U8), Member("reserved_2", U16),
       Member("internal_port", U16), Member("suggested_external_port", U16),
       Member("suggested_external_ip", IN6_ADDR), Member("remote_peer_port", U16),
       Member("reserved_3", U16), Member("remote_peer_ip", IN6_ADDR) >>

\* sizeof, and the offset of the n-th member, of a packed struct.
SizeOf(s) == FoldLeft(LAMBDA acc, m : acc + m.size, 0, s)
OffsetAt(s, n) == SizeOf(SubSeq(s, 1, n - 1))

\* The byte just past the named member.
EndOf(s, name) ==
    LET n == CHOOSE k \in 1..Len(s) : s[k].name = name
    IN  OffsetAt(s, n) + s[n].size

(***************************************************************************)
(* The diagrams of the comments, rows in wire order, widths in bits.  A   *)
(* body row is named after the member it describes; "reserved" rows may    *)
(* be declared as several members.                                        *)
(***************************************************************************)
Row(name, bits) == [name |-> name, bits |-> bits]

RequestHeaderDiagram ==
    << Row("version", 8), Row("r_opcode", 8), Row("reserved", 16),
       Row("requested_lifetime", 32), Row("client_ip", 128) >>

ResponseHeaderDiagram ==
    << Row("version", 8), Row("r_opcode", 8), Row("reserved", 8), Row("result_code", 8),
       Row("lifetime", 32), Row("epoch_time", 32), Row("reserved", 96) >>

MapRequestBodyDiagram ==
    << Row("mapping_nonce", 96), Row("protocol", 8), Row("reserved", 24),
       Row("internal_port", 16), Row("suggested_external_port", 16),
       Row("suggested_external_ip", 128) >>

MapResponseBodyDiagram ==
    << Row("mapping_nonce", 96), Row("protocol", 8), Row("reserved", 24),
       Row("internal_port", 16), Row("assigned_external_port", 16),
       Row("assigned_external_ip", 128) >>

PeerRequestBodyDiagram ==
    MapRequestBodyDiagram \o
    << Row("remote_peer_port", 16), Row("reserved", 16), Row("remote_peer_ip", 128) >>

\* The R bit: column 8 of the header's first word, numbered from the most
\* significant bit as the diagrams number them.
RBitColumn == 8

=============================================================================
