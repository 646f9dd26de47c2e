---------------------------- MODULE MappingTable ----------------------------
(***************************************************************************)
(* What the mapping store promises its callers (spec.md 4.3), with every  *)
(* operation one atomic step on a table of live mappings: create fails    *)
(* on a live index, refresh changes lifetime and end of life together and *)
(* only within the 3-second tolerance, delete and delete_all remove.      *)
(* MappingStore implements it through a refinement mapping.               *)
(***************************************************************************)
EXTENDS Integers

CONSTANTS
    Ids,            \* mapping indices
    Owners,         \* who created a mapping (its nonce and endpoints)
    Lifetimes,      \* lifetimes callers ask for
    TimeModulus,    \* times are u_int32_t: arithmetic modulo this
    Epoch,          \* the clock when the behaviour starts
    NULL

VARIABLES
    table,          \* [Ids -> [owner, lifetime, start, end] or NULL]
    now             \* the wall clock

vars == <<table, now>>

Readings == Epoch..now      \* the clock readings made so far

\* create: the index is free.  start_of_life and end_of_life are read from
\* the clock during the call, the start no later than the end's reading.
Create(i, o, l) ==
    /\ table[i] = NULL
    /\ \E s \in Readings, t \in Readings :
        /\ s <= t
        /\ table' = [table EXCEPT ![i] = [owner |-> o, lifetime |-> l, start |-> s,
                                          end |-> (t + l) % TimeModulus]]
    /\ UNCHANGED now

\* refresh: the mapping is live; the new end of life is within 3 seconds
\* of t + l for the clock reading t of the call; start_of_life stays.
Refresh(i, l, t, d) ==
    LET e == (t + l + d) % TimeModulus
    IN  /\ table[i] # NULL
        /\ table' = [table EXCEPT ![i].lifetime = l, ![i].end = e]
        /\ UNCHANGED now

Delete(i) ==
    /\ table[i] # NULL
    /\ table' = [table EXCEPT ![i] = NULL]
    /\ UNCHANGED now

DeleteAll ==
    /\ table' = [i \in Ids |-> NULL]
    /\ UNCHANGED now

Tick ==
    /\ now' = now + 1
    /\ UNCHANGED table

Init ==
    /\ table = [i \in Ids |-> NULL]
    /\ now = Epoch

Next ==
    \/ \E i \in Ids, o \in Owners, l \in Lifetimes : Create(i, o, l)
    \/ \E i \in Ids, l \in Lifetimes, t \in Readings, d \in -3..3 : Refresh(i, l, t, d)
    \/ \E i \in Ids : Delete(i)
    \/ DeleteAll
    \/ Tick

Spec == Init /\ [][Next]_vars

=============================================================================
