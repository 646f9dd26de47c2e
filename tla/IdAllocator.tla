---------------------------- MODULE IdAllocator ----------------------------
(***************************************************************************)
(* The mapping identifier allocator of the pcpd API (src/api/pcp.c,        *)
(* next_highest_id): given the highest index currently stored, the next    *)
(* index is (max + 11) rounded down to a multiple of ten, and it is        *)
(* refused (a negative result) when it exceeds MAXIMUM_MAPPING_ID.         *)
(*                                                                         *)
(* The code computes in a C int.  `max_index += 11` overflows when the     *)
(* highest index is within 11 of INT_MAX; signed overflow is undefined,    *)
(* and the outcome the build produces on the targets pcpd runs on is the   *)
(* two's complement wrap, which is what WrapInt models.  IntBits is the    *)
(* width of that int, scaled down so TLC can enumerate every input.        *)
(***************************************************************************)
EXTENDS Integers, FiniteSetsExt

CONSTANTS
    IntBits,             \* width of a C int in the model
    MAXIMUM_MAPPING_ID   \* the compile-time ceiling (INT_MAX unless defined)

IntMin == -(2^(IntBits - 1))
IntMax == 2^(IntBits - 1) - 1

ASSUME IntBits \in Nat /\ IntBits >= 4
ASSUME MAXIMUM_MAPPING_ID \in 0..IntMax

\* Two's complement wrap of an int result.
WrapInt(x) == ((x - IntMin) % (2^IntBits)) + IntMin

\* C's `%` truncates toward zero, so a negative dividend gives a
\* non-positive remainder.
CRem(a, b) == IF a >= 0 THEN a % b ELSE -((-a) % b)

\* Mutant: the ceiling test `index > MAXIMUM_MAPPING_ID` left out.
NextHighestIdNoCeiling(highest) ==
    LET maxIndex == WrapInt(highest + 11)
    IN  WrapInt(maxIndex - CRem(maxIndex, 10))

\* next_highest_id, given current_highest_index(path) as `highest`.
\* A result below zero is the failure the callers test with `index < 0`.
NextHighestId(highest) ==
    LET maxIndex == WrapInt(highest + 11)
        index    == WrapInt(maxIndex - CRem(maxIndex, 10))
    IN  IF index > MAXIMUM_MAPPING_ID THEN -1 ELSE index

=============================================================================
