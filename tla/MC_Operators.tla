----------------------------- MODULE MC_Operators -----------------------------
(***************************************************************************)
(* The pure operators of the code, each checked against a reference over  *)
(* every input it can get: next_highest_id (IdAllocator) for every highest *)
(* index a store can report (current_highest_index starts at 0 and only    *)
(* returns stored, non-negative indices); the packed structs of            *)
(* packets_pcp.h (PcpPackets) against the RFC 6887 diagrams of their       *)
(* comments; the R-bit macros for every value of the opcode byte; and the *)
(* u_int32_t time arithmetic (PcpTime) at the unit boundaries.           *)
(***************************************************************************)
EXTENDS IdAllocator, PcpPackets, PcpTime

\* Each struct beside the diagram it is declared from: the header's rows,
\* then the body's.
Layouts ==
    { <<pcp_request_header, RequestHeaderDiagram>>,
      <<pcp_response_header, ResponseHeaderDiagram>>,
      <<map_request, RequestHeaderDiagram \o MapRequestBodyDiagram>>,
      <<map_response, ResponseHeaderDiagram \o MapResponseBodyDiagram>>,
      <<peer_request, RequestHeaderDiagram \o PeerRequestBodyDiagram>> }

BitsOf(d) == FoldLeft(LAMBDA acc, r : acc + r.bits, 0, d)
RowStart(d, n) == BitsOf(SubSeq(d, 1, n - 1))

\* The diagram row a member describes.
RowOf(name) ==
    IF name \in {"reserved_1", "reserved_2", "reserved_3", "reserved_array"}
    THEN "reserved" ELSE name

\* Clock readings at and around the unit boundaries of d:hh:mm:ss, and at
\* the top of the u_int32_t range.
Instants == {0, 1, 59, 60, 3599, 3600, 86399, 86400, 90061, TimeMax - 1, TimeMax}

\* What apteryx_get_int can return for startup_epoch_time: -1 while the
\* key is missing, else a stored reading.
EpochReadings == {-1, 0, 60, 86400}

\* RFC 6887 section 7.4: the result codes and their values on the wire.
RFCResultCodes ==
    [SUCCESS |-> 0, UNSUPP_VERSION |-> 1, NOT_AUTHORIZED |-> 2, MALFORMED_REQUEST |-> 3,
     UNSUPP_OPCODE |-> 4, UNSUPP_OPTION |-> 5, MALFORMED_OPTION |-> 6,
     NETWORK_FAILURE |-> 7, NO_RESOURCES |-> 8, UNSUPP_PROTOCOL |-> 9,
     USER_EX_QUOTA |-> 10, CANNOT_PROVIDE_EXTERNAL |-> 11, ADDRESS_MISMATCH |-> 12,
     EXCESSIVE_REMOTE_PEERS |-> 13]

VARIABLE input      \* the operator under check and its argument

Inputs ==
    [op : {"next_highest_id"}, highest : 0..IntMax] \cup
    [op : {"layout"}, packet : Layouts] \cup
    [op : {"r_opcode"}, octet : 0..255] \cup
    [op : {"uptime"}, now : Instants, raw : EpochReadings] \cup
    [op : {"result_code"}, name : DOMAIN RFCResultCodes]

Init == input \in Inputs

\* Each step is one more call: next_highest_id on some store contents, a
\* packet read as its struct, or an opcode byte built or tested.
Call == input' \in Inputs

Spec == Init /\ [][Call]_input

\* Reference (spec.md 4.2): identifiers are multiples of ten, strictly past
\* the current maximum with the value just above it left unused, i.e. the
\* least multiple of ten that is at least highest + 2; allocation fails
\* only when that identifier exceeds the ceiling.
AllocRef(h) == Min({x \in 0..(IntMax + 20) : x % 10 = 0 /\ x >= h + 2})

\* next_highest_id returns exactly the reference identifier when that
\* identifier is within MAXIMUM_MAPPING_ID, and fails (a negative result)
\* only when it is not: the ceiling test and the int arithmetic of lines
\* 177-179 must agree with the intended rule at every input, the ones
\* next to INT_MAX included.
AllocatorContract ==
    input.op = "next_highest_id" =>
        LET h == input.highest
            r == NextHighestId(h)
        IN  IF AllocRef(h) <= MAXIMUM_MAPPING_ID
            THEN r = AllocRef(h)
            ELSE r < 0

\* The packed struct has the diagram's size, and each member's bits lie
\* within the diagram row of its name: a member of the wrong width or in
\* the wrong place would put pcpd's fields at other bytes than a client's.
LayoutMatchesDiagram ==
    input.op = "layout" =>
        LET s == input.packet[1]
            d == input.packet[2]
        IN  /\ 8 * SizeOf(s) = BitsOf(d)
            /\ \A m \in 1..Len(s) :
                \E r \in 1..Len(d) :
                    /\ d[r].name = RowOf(s[m].name)
                    /\ RowStart(d, r) <= 8 * OffsetAt(s, m)
                    /\ 8 * (OffsetAt(s, m) + s[m].size) <= RowStart(d, r) + d[r].bits

\* Bit `col` of a byte, numbered from the most significant as the diagrams do.
ColumnBit(byte, col) == (byte \div 2^(7 - col)) % 2

\* For every opcode byte, R_RESPONSE sets and R_REQUEST clears exactly the
\* diagram's R column of the r_opcode byte, keeping the opcode's 7 bits:
\* the macros' `1 << 7` must be the bit the RFC calls R.
RBitEncoding ==
    input.op = "r_opcode" =>
        LET octet == input.octet
            rcol  == RBitColumn - 8 * OffsetAt(pcp_request_header, 2)
        IN  /\ ColumnBit(R_RESPONSE(octet), rcol) = 1
            /\ ColumnBit(R_REQUEST(octet), rcol) = 0
            /\ \A col \in (0..7) \ {rcol} :
                  /\ ColumnBit(R_RESPONSE(octet), col) = ColumnBit(octet, col)
                  /\ ColumnBit(R_REQUEST(octet), col) = ColumnBit(octet, col)

\* Every result code of RFC 6887 is an enumerator of result_code whose
\* implicit C value is the RFC's number, which fits the one-byte
\* result_code field of pcp_response_header: an enumerator missing or out
\* of order would shift every code after it on the wire.
ResultCodesMatchRFC ==
    input.op = "result_code" =>
        LET name == input.name
        IN  /\ name \in Range(result_code)
            /\ EnumValue(result_code, name) = RFCResultCodes[name]
            /\ EnumValue(result_code, name) < 2^(8 * U8)

\* get_uptime_string's four numbers read back as the uptime it computed,
\* the seconds from the startup epoch as read from Apteryx to now modulo
\* 2^32, and each %02u field is below its unit, so it prints as two digits
\* and "d:hh:mm:ss" is unambiguous: the repeated divide-and-subtract must
\* carry every unit over exactly, at the boundaries and at the top of the
\* u_int32_t range.
UptimeReadsBack ==
    input.op = "uptime" =>
        LET epoch == StartupEpochTimeGet(input.raw)
            f     == UptimeFields(input.now, epoch)
        IN  /\ 86400 * f.days + 3600 * f.hours + 60 * f.minutes + f.seconds
                 = (input.now - epoch) % TimeRange
            /\ f.hours < 24 /\ f.minutes < 60 /\ f.seconds < 60
=============================================================================
