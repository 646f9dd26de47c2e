------------------------- MODULE MC_MappingStore --------------------------
(***************************************************************************)
(* Instantiates MappingStore for TLC.  The clients and watch threads are   *)
(* model values given in the .cfg files.                                   *)
(***************************************************************************)
EXTENDS MappingStore, TLC

\* Clients are interchangeable callers.
ClientSymmetry == Permutations(Clients)

\* Refresh callers on time, 3 seconds out (still accepted) and 4 out
\* (rejected), on both sides.
MCSkews == {-4, 0, 3, 4}
=============================================================================
