------------------------- MODULE MappingStoreFaults -------------------------
(***************************************************************************)
(* MappingStore with a backing store that can refuse writes: any           *)
(* apteryx_set or apteryx_prune may fail (Apteryx unreachable, out of      *)
(* memory), leaving the database as it was, and so may the asprintf that   *)
(* builds the mapping path.  Each failure is an action that takes the      *)
(* place of the step it breaks, and follows what the code                  *)
(* does with the result: pcp_mapping_add ignores every set, refresh's `&&` *)
(* stops at the first failed set, delete ignores its prune, deleteall      *)
(* returns the prune's status.                                             *)
(***************************************************************************)
EXTENDS MappingStore

CONSTANTS
    MaxFailures,    \* bound: failed writes in a behaviour
    Fallible        \* the API calls whose Apteryx writes may fail

VARIABLE failures       \* writes that have failed so far

faultVars == <<vars, failures>>

CanFail == failures < MaxFailures /\ failures' = failures + 1

\* One apteryx_set of lines 230-243 fails; add carries on and returns true.
AddWriteFails(c) ==
    LET last == call[c].k = Len(AddKeys)
    IN  /\ pc[c] = "add_write"
        /\ "add" \in Fallible
        /\ CanFail
        /\ IF last
           THEN /\ Return(c, TRUE)
                /\ creators' = [creators EXCEPT ![call[c].idx] = @ \cup {c}]
                /\ UNCHANGED call
           ELSE /\ call' = [call EXCEPT ![c].k = @ + 1]
                /\ UNCHANGED <<pc, ret, creators>>
        /\ UNCHANGED <<db, clock, opsDone, pending, wstate, seen>>

\* asprintf of the mapping path runs out of memory: it returns -1, which
\* the `== 0` test lets through, and every set of lines 230-243 is made on
\* a NULL path and reaches nothing under MAPPING_PATH; add returns true.
AddPathFails(c) ==
    /\ pc[c] = "add_write"
    /\ call[c].k = 1
    /\ "asprintf" \in Fallible
    /\ CanFail
    /\ Return(c, TRUE)
    /\ UNCHANGED <<db, clock, call, opsDone, pending, wstate, seen, creators>>

\* The lifetime set fails, or the asprintf before it and with it the set
\* on a NULL path: `&&` skips the end of life, false.
RefreshSetLifetimeFails(c) ==
    /\ pc[c] = "ref_set_lifetime"
    /\ Fallible \cap {"refresh", "asprintf"} # {}
    /\ CanFail
    /\ Return(c, FALSE)
    /\ UNCHANGED <<db, clock, call, opsDone, pending, wstate, seen, creators>>

\* The end-of-life set fails after the lifetime was set: false.
RefreshSetEndFails(c) ==
    /\ pc[c] = "ref_set_end"
    /\ "refresh" \in Fallible
    /\ CanFail
    /\ Return(c, FALSE)
    /\ UNCHANGED <<db, clock, call, opsDone, pending, wstate, seen, creators>>

\* The prune fails; pcp_mapping_delete returns true regardless.
DeletePruneFails(c) ==
    /\ pc[c] = "del_prune"
    /\ "delete" \in Fallible
    /\ CanFail
    /\ Return(c, TRUE)
    /\ UNCHANGED <<db, clock, call, opsDone, pending, wstate, seen, creators>>

\* asprintf fails: delete's `> 0` test catches it, false, nothing pruned.
DeletePathFails(c) ==
    /\ pc[c] = "del_prune"
    /\ "asprintf" \in Fallible
    /\ CanFail
    /\ Return(c, FALSE)
    /\ UNCHANGED <<db, clock, call, opsDone, pending, wstate, seen, creators>>

\* The prune of MAPPING_PATH fails; deleteall returns its status, false.
DeleteAllFails(c) ==
    /\ CanCall(c)
    /\ "deleteall" \in Fallible
    /\ CanFail
    /\ Begin(c, "idle", [NoCall EXCEPT !.op = "deleteall"], FALSE)
    /\ UNCHANGED <<db, clock, pending, wstate, seen, creators>>

FaultStep(c) ==
    \/ AddWriteFails(c) \/ AddPathFails(c)
    \/ RefreshSetLifetimeFails(c) \/ RefreshSetEndFails(c)
    \/ DeletePruneFails(c) \/ DeletePathFails(c)
    \/ DeleteAllFails(c)

FaultInit == Init /\ failures = 0

FaultNext ==
    \/ Next /\ UNCHANGED failures
    \/ \E c \in Clients : FaultStep(c)

FaultSpec == FaultInit /\ [][FaultNext]_faultVars

(***************************************************************************)
(* Properties                                                              *)
(***************************************************************************)

\* Spec.md 4.3 and 7: a backing-store failure propagates to the caller, so
\* a call that returned true has taken effect.  For a caller alone with
\* the store: after add, find sees the whole mapping; after delete, find
\* sees nothing; after deleteall the subtree is empty; after refresh the
\* mapping holds the new lifetime and end of life.
SuccessReportsEffect ==
    \A c \in Clients :
        (pc[c] = "idle" /\ ret[c] = TRUE) =>
            LET i == call[c].idx
            IN  CASE call[c].op = "add" ->
                        Committed(i) /\ \A k \in Keys : db[i][k] # NULL
                  [] call[c].op = "delete" -> ~Committed(i)
                  [] call[c].op = "deleteall" -> \A j \in Ids : db[j] = Absent
                  [] call[c].op = "refresh" ->
                        db[i].lifetime = call[c].lifetime /\ db[i].end = call[c].eol
                  [] OTHER -> TRUE

=============================================================================
