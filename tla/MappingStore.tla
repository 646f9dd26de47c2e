---------------------------- MODULE MappingStore ----------------------------
(***************************************************************************)
(* The mapping store of the pcpd API (src/api/pcp.c): mappings kept in the *)
(* Apteryx database under /pcp/mappings/<index>/<key>, written by API      *)
(* callers (pcp_mapping_add, _refresh_lifetime, _delete, _deleteall) and   *)
(* observed by the watch callback pcp_mapping_changed, which Apteryx runs  *)
(* on its own thread and which reports each mapping to the registered      *)
(* new_pcp_mapping / delete_pcp_mapping callbacks.                         *)
(*                                                                         *)
(* Every Apteryx get/set/prune is one atomic step; an API call that makes  *)
(* several of them is several steps, so callers and watch threads          *)
(* interleave between them exactly as the code allows.                     *)
(***************************************************************************)
EXTENDS Integers, Sequences, FiniteSets, SequencesExt, IdAllocator

CONSTANTS
    Clients,       \* processes calling the pcp_mapping_* API
    Watchers,      \* Apteryx threads that run the watch callback
    AutoIndex,     \* TRUE: callers pass index -1 (next_mapping_id)
    AddIndices,    \* explicit indices callers pass to pcp_mapping_add
    Lifetimes,     \* lifetimes callers pass to add and refresh
    Skews,         \* how far a refresh caller's new_end_of_life is from
                   \* time(NULL) + new_lifetime as the callee computes it
    TimeBits,      \* width of the u_int32_t times, scaled down
    StartTime,     \* time(NULL) when the behaviour starts
    MaxTicks,      \* bound: seconds that pass in a behaviour
    MaxOps,        \* bound: API calls per client
    NULL           \* absent key / no value

TimeModulus == 2^TimeBits
Time == 0..(TimeModulus - 1)

\* The indices a store can hold: the multiples of ten the allocator hands
\* out up to the ceiling, and the explicit ones callers pass.
Ids == {10 * k : k \in 1..(MAXIMUM_MAPPING_ID \div 10)} \cup AddIndices

ASSUME AddIndices \subseteq Nat \ {0}
ASSUME StartTime + MaxTicks < TimeModulus

(***************************************************************************)
(* Apteryx keys of one mapping.  The three nonce words are one key here,   *)
(* the internal and external address and port are "endpoints", opcode and  *)
(* protocol are "meta"; "node" is the value "-" set on the mapping's own   *)
(* path, which pcp_mapping_find takes as the sign the mapping exists.      *)
(***************************************************************************)
Keys == {"index", "nonce", "endpoints", "lifetime", "start", "end", "meta", "node"}

Absent == [k \in Keys |-> NULL]

\* Mutant: "-" set on the mapping path before the fields.
AddKeysNodeFirst ==
    <<"node", "index", "nonce", "endpoints", "lifetime", "start", "end", "meta">>

\* Mutant: END_OF_LIFE set before START_OF_LIFE.
AddKeysEndFirst == <<"index", "nonce", "endpoints", "lifetime", "end", "start", "meta", "node">>

\* The order in which pcp_mapping_add sets the keys.
AddKeys == <<"index", "nonce", "endpoints", "lifetime", "start", "end", "meta", "node">>

VARIABLES
    db,        \* [Ids -> [Keys -> value or NULL]]: the /pcp/mappings subtree
    clock,     \* time(NULL)
    pc,        \* where each client is in its current API call
    call,      \* the arguments and locals of each client's current call
    ret,       \* what each client's last call returned
    opsDone,   \* API calls each client has made
    pending,   \* indices with a watch notification not yet delivered
    wstate,    \* each watch thread's pcp_mapping_changed in progress
    seen,      \* [Ids -> record or NULL]: what the callbacks were last told
    creators   \* history: clients whose add of a live index returned true

vars == <<db, clock, pc, call, ret, opsDone, pending, wstate, seen, creators>>

NoCall == [op |-> "none", idx |-> NULL, lifetime |-> NULL, eol |-> NULL,
           skew |-> NULL, existed |-> NULL, k |-> 0, paths |-> {}, list |-> << >>]

Idle == [phase |-> "idle", id |-> NULL, rec |-> NULL]

(***************************************************************************)
(* Reads.                                                                  *)
(***************************************************************************)

\* pcp_mapping_find succeeds iff the mapping path itself has a value.
Committed(i) == db[i].node # NULL

\* apteryx_search(MAPPING_PATH "/"): the paths that hold any key.
Search == {i \in Ids : db[i] # Absent}

\* current_highest_index: the largest "index" key among the search
\* results, 0 when none (a missing key reads -1 and never wins).
HighestIndex ==
    LET found == {db[i].index : i \in {j \in Search : db[j].index # NULL}}
    IN  IF found = {} THEN 0 ELSE Max(found)

\* next_mapping_id
NextMappingId == NextHighestId(HighestIndex)

\* The value pcp_mapping_add sets for a key: nonce, endpoints, opcode and
\* protocol are the caller's arguments, abstracted to the caller's
\* identity; start and end each read time(NULL) again.
AddValue(c, key) ==
    CASE key = "index"    -> call[c].idx
      [] key = "lifetime" -> call[c].lifetime
      [] key = "start"    -> clock
      [] key = "end"      -> (clock + call[c].lifetime) % TimeModulus
      [] key = "node"     -> "-"
      [] OTHER            -> c

\* Mutant: the refresh sanity check widened by one second.
OutOfToleranceWide(e, expected) ==
    e < (expected - 4) % TimeModulus \/ e > (expected + 4) % TimeModulus

\* The refresh sanity check of line 269, in u_int32_t arithmetic.
OutOfTolerance(e, expected) ==
    e < (expected - 3) % TimeModulus \/ e > (expected + 3) % TimeModulus

CanCall(c) == pc[c] = "idle" /\ opsDone[c] < MaxOps

\* A call starts; `r` is its result when it returns at once, else NULL.
Begin(c, nextPc, args, r) ==
    /\ pc' = [pc EXCEPT ![c] = nextPc]
    /\ call' = [call EXCEPT ![c] = args]
    /\ ret' = [ret EXCEPT ![c] = r]
    /\ opsDone' = [opsDone EXCEPT ![c] = @ + 1]

Return(c, value) ==
    /\ pc' = [pc EXCEPT ![c] = "idle"]
    /\ ret' = [ret EXCEPT ![c] = value]

(***************************************************************************)
(* pcp_mapping_add                                                         *)
(***************************************************************************)

\* Mutant: the `index < 0` test after next_mapping_id left out.
ValidIndexUnchecked(index) == TRUE

ValidIndex(index) == index >= 0

\* Entry with index -1: next_mapping_id searches the store.
AddAuto(c, l) ==
    /\ AutoIndex
    /\ CanCall(c)
    /\ ValidIndex(NextMappingId)
    /\ Begin(c, "add_find", [NoCall EXCEPT !.op = "add", !.idx = NextMappingId,
                                           !.lifetime = l], NULL)
    /\ UNCHANGED <<db, clock, pending, wstate, seen, creators>>

\* Entry with index -1 when the allocator refuses: return false.
AddAutoExhausted(c, l) ==
    /\ AutoIndex
    /\ CanCall(c)
    /\ ~ValidIndex(NextMappingId)
    /\ Begin(c, "idle", [NoCall EXCEPT !.op = "add", !.lifetime = l], FALSE)
    /\ UNCHANGED <<db, clock, pending, wstate, seen, creators>>

\* Entry with an explicit index.
AddExplicit(c, i, l) ==
    /\ CanCall(c)
    /\ Begin(c, "add_find", [NoCall EXCEPT !.op = "add", !.idx = i, !.lifetime = l], NULL)
    /\ UNCHANGED <<db, clock, pending, wstate, seen, creators>>

\* pcp_mapping_find(index) finds the mapping: "already exists", false.
AddFindExists(c) ==
    /\ pc[c] = "add_find"
    /\ Committed(call[c].idx)
    /\ Return(c, FALSE)
    /\ UNCHANGED <<db, clock, call, opsDone, pending, wstate, seen, creators>>

\* pcp_mapping_find(index) finds nothing: go on to write the keys.
AddFindFree(c) ==
    /\ pc[c] = "add_find"
    /\ ~Committed(call[c].idx)
    /\ pc' = [pc EXCEPT ![c] = "add_write"]
    /\ call' = [call EXCEPT ![c].k = 1]
    /\ UNCHANGED <<db, clock, ret, opsDone, pending, wstate, seen, creators>>

\* One apteryx_set of lines 230-243.  Only the last one, on the mapping
\* path itself, is one level below the watched MAPPING_PATH "/" and
\* notifies; the add then returns true without checking any set.
AddWrite(c) ==
    LET i   == call[c].idx
        key == AddKeys[call[c].k]
        last == call[c].k = Len(AddKeys)
    IN  /\ pc[c] = "add_write"
        /\ db' = [db EXCEPT ![i][key] = AddValue(c, key)]
        /\ pending' = IF key = "node" THEN pending \cup {i} ELSE pending
        /\ IF last
           THEN /\ Return(c, TRUE)
                /\ creators' = [creators EXCEPT ![i] = @ \cup {c}]
                /\ UNCHANGED call
           ELSE /\ call' = [call EXCEPT ![c].k = @ + 1]
                /\ UNCHANGED <<pc, ret, creators>>
        /\ UNCHANGED <<clock, opsDone, wstate, seen>>

(***************************************************************************)
(* pcp_mapping_refresh_lifetime(index, new_lifetime, new_end_of_life)     *)
(***************************************************************************)

\* The caller computed new_end_of_life as its own time(NULL) + lifetime,
\* `skew` seconds away from the callee's; the entry reads time(NULL) and
\* returns false when the two disagree by more than 3 seconds.
RefreshOff(c, i, l, d) ==
    LET e        == (clock + l + d) % TimeModulus
        expected == (clock + l) % TimeModulus
    IN  /\ CanCall(c)
        /\ OutOfTolerance(e, expected)
        /\ Begin(c, "idle", [NoCall EXCEPT !.op = "refresh", !.idx = i, !.lifetime = l,
                                           !.eol = e, !.skew = d, !.existed = Committed(i)],
                 FALSE)
        /\ UNCHANGED <<db, clock, pending, wstate, seen, creators>>

RefreshCall(c, i, l, d) ==
    LET e        == (clock + l + d) % TimeModulus
        expected == (clock + l) % TimeModulus
    IN  /\ CanCall(c)
        /\ ~OutOfTolerance(e, expected)
        /\ Begin(c, "ref_find", [NoCall EXCEPT !.op = "refresh", !.idx = i, !.lifetime = l,
                                               !.eol = e, !.skew = d, !.existed = Committed(i)],
                 NULL)
        /\ UNCHANGED <<db, clock, pending, wstate, seen, creators>>

\* "Make sure the mapping exists": it does not, false.
RefreshFindMissing(c) ==
    /\ pc[c] = "ref_find"
    /\ ~Committed(call[c].idx)
    /\ Return(c, FALSE)
    /\ UNCHANGED <<db, clock, call, opsDone, pending, wstate, seen, creators>>

\* Mutant: the existence check left out, the sets go ahead regardless.
RefreshFindUnchecked(c) ==
    /\ pc[c] = "ref_find"
    /\ pc' = [pc EXCEPT ![c] = "ref_set_lifetime"]
    /\ UNCHANGED <<db, clock, call, ret, opsDone, pending, wstate, seen, creators>>

RefreshFindFound(c) ==
    /\ pc[c] = "ref_find"
    /\ Committed(call[c].idx)
    /\ pc' = [pc EXCEPT ![c] = "ref_set_lifetime"]
    /\ UNCHANGED <<db, clock, call, ret, opsDone, pending, wstate, seen, creators>>

\* apteryx_set_int(path, LIFETIME_KEY, ...): two levels below the watched
\* path, so no notification.
RefreshSetLifetime(c) ==
    /\ pc[c] = "ref_set_lifetime"
    /\ db' = [db EXCEPT ![call[c].idx].lifetime = call[c].lifetime]
    /\ pc' = [pc EXCEPT ![c] = "ref_set_end"]
    /\ UNCHANGED <<clock, call, ret, opsDone, pending, wstate, seen, creators>>

RefreshSetEnd(c) ==
    /\ pc[c] = "ref_set_end"
    /\ db' = [db EXCEPT ![call[c].idx].end = call[c].eol]
    /\ Return(c, TRUE)
    /\ UNCHANGED <<clock, call, opsDone, pending, wstate, seen, creators>>

(***************************************************************************)
(* pcp_mapping_delete and pcp_mapping_deleteall                            *)
(***************************************************************************)

\* "Make sure the specified mapping index exists": it does not, false.
DeleteMissing(c, i) ==
    /\ CanCall(c)
    /\ ~Committed(i)
    /\ Begin(c, "idle", [NoCall EXCEPT !.op = "delete", !.idx = i], FALSE)
    /\ UNCHANGED <<db, clock, pending, wstate, seen, creators>>

DeleteCall(c, i) ==
    /\ CanCall(c)
    /\ Committed(i)
    /\ Begin(c, "del_prune", [NoCall EXCEPT !.op = "delete", !.idx = i], NULL)
    /\ UNCHANGED <<db, clock, pending, wstate, seen, creators>>

\* apteryx_prune of the mapping path: all its keys go at once.
DeletePrune(c) ==
    LET i == call[c].idx
    IN  /\ pc[c] = "del_prune"
        /\ db' = [db EXCEPT ![i] = Absent]
        /\ pending' = pending \cup {i}
        /\ creators' = [creators EXCEPT ![i] = {}]
        /\ Return(c, TRUE)
        /\ UNCHANGED <<clock, call, opsDone, wstate, seen>>

\* apteryx_prune(MAPPING_PATH), also what pcp_deinit does on shutdown.
DeleteAll(c) ==
    /\ CanCall(c)
    /\ db' = [i \in Ids |-> Absent]
    /\ pending' = pending \cup Search
    /\ creators' = [i \in Ids |-> {}]
    /\ Begin(c, "idle", [NoCall EXCEPT !.op = "deleteall"], TRUE)
    /\ UNCHANGED <<clock, wstate, seen>>

(***************************************************************************)
(* pcp_mapping_getall: apteryx_search, then pcp_mapping_find of each path *)
(* in the order the search returns them, each found mapping inserted into *)
(* the list with g_list_insert_sorted and mapping_index_cmp.  The list    *)
(* holds the indices; find's field reads are abstracted away here.        *)
(***************************************************************************)

\* Mutant: the comparator's operands swapped.
MappingIndexCmpSwapped(a, b) == WrapInt(b - a)

\* mapping_index_cmp: the difference of two ints, in int arithmetic.
MappingIndexCmp(a, b) == WrapInt(a - b)

\* g_list_insert_sorted: before the first element that x does not compare
\* greater than, or at the end.
InsertSorted(list, x) ==
    LET after == {n \in 1..Len(list) : MappingIndexCmp(x, list[n]) <= 0}
    IN  IF after = {} THEN Append(list, x) ELSE InsertAt(list, Min(after), x)

GetallSearch(c) ==
    /\ CanCall(c)
    /\ Begin(c, "getall", [NoCall EXCEPT !.op = "getall", !.paths = Search], NULL)
    /\ UNCHANGED <<db, clock, pending, wstate, seen, creators>>

\* find of one returned path (atoi of its last component).
GetallFind(c) ==
    /\ pc[c] = "getall"
    /\ \E i \in call[c].paths :
        call' = [call EXCEPT ![c].paths = @ \ {i},
                             ![c].list = IF Committed(i) THEN InsertSorted(@, i) ELSE @]
    /\ UNCHANGED <<db, clock, pc, ret, opsDone, pending, wstate, seen, creators>>

\* Return the list, which stays in call[c].list (ret holds booleans only).
GetallDone(c) ==
    /\ pc[c] = "getall"
    /\ call[c].paths = {}
    /\ Return(c, NULL)
    /\ UNCHANGED <<db, clock, call, opsDone, pending, wstate, seen, creators>>

(***************************************************************************)
(* pcp_mapping_changed, run by a watch thread for a pending notification. *)
(* It calls pcp_mapping_find before taking callback_lock: find reads the   *)
(* mapping path, then the fields, then the callback is made under the      *)
(* lock.                                                                   *)
(***************************************************************************)

\* Mutant: a callback with no delete_pcp_mapping branch for a NULL find.
WatchFindGoneSilent(w) ==
    /\ wstate[w] = Idle
    /\ \E i \in pending :
        /\ ~Committed(i)
        /\ pending' = pending \ {i}
    /\ UNCHANGED <<db, clock, pc, call, ret, opsDone, wstate, seen, creators>>

\* find: the mapping path has no value, the result is NULL.
WatchFindGone(w) ==
    /\ wstate[w] = Idle
    /\ \E i \in pending :
        /\ ~Committed(i)
        /\ pending' = pending \ {i}
        /\ wstate' = [wstate EXCEPT ![w] = [phase |-> "apply", id |-> i, rec |-> NULL]]
    /\ UNCHANGED <<db, clock, pc, call, ret, opsDone, seen, creators>>

\* find: the mapping path has a value, go on to read the fields.
WatchFindFound(w) ==
    /\ wstate[w] = Idle
    /\ \E i \in pending :
        /\ Committed(i)
        /\ pending' = pending \ {i}
        /\ wstate' = [wstate EXCEPT ![w] = [phase |-> "read", id |-> i, rec |-> NULL]]
    /\ UNCHANGED <<db, clock, pc, call, ret, opsDone, seen, creators>>

\* find reads the keys (lines 338-349); a key pruned meanwhile reads as
\* nothing a caller wrote.
WatchRead(w) ==
    /\ wstate[w].phase = "read"
    /\ wstate' = [wstate EXCEPT ![w].phase = "apply", ![w].rec = db[wstate[w].id]]
    /\ UNCHANGED <<db, clock, pc, call, ret, opsDone, pending, seen, creators>>

\* Under callback_lock: delete_pcp_mapping(id) for NULL, new_pcp_mapping
\* with the fields read otherwise.
WatchApply(w) ==
    /\ wstate[w].phase = "apply"
    /\ seen' = [seen EXCEPT ![wstate[w].id] = wstate[w].rec]
    /\ wstate' = [wstate EXCEPT ![w] = Idle]
    /\ UNCHANGED <<db, clock, pc, call, ret, opsDone, pending, creators>>

\* time(NULL) advances.
Tick ==
    /\ clock < StartTime + MaxTicks
    /\ clock' = clock + 1
    /\ UNCHANGED <<db, pc, call, ret, opsDone, pending, wstate, seen, creators>>

(***************************************************************************)
(* Specification                                                           *)
(***************************************************************************)

Init ==
    /\ db = [i \in Ids |-> Absent]
    /\ clock = StartTime
    /\ pc = [c \in Clients |-> "idle"]
    /\ call = [c \in Clients |-> NoCall]
    /\ ret = [c \in Clients |-> NULL]
    /\ opsDone = [c \in Clients |-> 0]
    /\ pending = {}
    /\ wstate = [w \in Watchers |-> Idle]
    /\ seen = [i \in Ids |-> NULL]
    /\ creators = [i \in Ids |-> {}]

ClientStep(c) ==
    \/ \E l \in Lifetimes : AddAuto(c, l) \/ AddAutoExhausted(c, l)
    \/ \E i \in AddIndices, l \in Lifetimes : AddExplicit(c, i, l)
    \/ AddFindExists(c) \/ AddFindFree(c) \/ AddWrite(c)
    \/ \E i \in Ids, l \in Lifetimes, d \in Skews :
          RefreshOff(c, i, l, d) \/ RefreshCall(c, i, l, d)
    \/ RefreshFindMissing(c) \/ RefreshFindFound(c)
    \/ RefreshSetLifetime(c) \/ RefreshSetEnd(c)
    \/ \E i \in Ids : DeleteMissing(c, i) \/ DeleteCall(c, i)
    \/ DeletePrune(c)
    \/ DeleteAll(c)
    \/ GetallSearch(c) \/ GetallFind(c) \/ GetallDone(c)

WatchStep(w) ==
    WatchFindGone(w) \/ WatchFindFound(w) \/ WatchRead(w) \/ WatchApply(w)

Next ==
    \/ \E c \in Clients : ClientStep(c)
    \/ \E w \in Watchers : WatchStep(w)
    \/ Tick

\* Apteryx runs every watch callback it has queued: its threads are weakly
\* fair.  Callers and the clock get no fairness: a caller may stop calling.
Spec == Init /\ [][Next]_vars /\ \A w \in Watchers : WF_vars(WatchStep(w))

(***************************************************************************)
(* Properties                                                              *)
(***************************************************************************)

StoredMapping ==
    [index: Ids \cup {NULL}, nonce: Clients \cup {NULL}, endpoints: Clients \cup {NULL},
     lifetime: Lifetimes \cup {NULL}, start: Time \cup {NULL}, end: Time \cup {NULL},
     meta: Clients \cup {NULL}, node: {"-", NULL}]

TypeOK ==
    /\ db \in [Ids -> StoredMapping]
    /\ clock \in Time
    /\ pc \in [Clients -> {"idle", "add_find", "add_write", "ref_find",
                           "ref_set_lifetime", "ref_set_end", "del_prune", "getall"}]
    /\ \A c \in Clients : call[c].idx \in Ids \cup {NULL}
    /\ ret \in [Clients -> BOOLEAN \cup {NULL}]
    /\ opsDone \in [Clients -> 0..MaxOps]
    /\ pending \subseteq Ids
    /\ \A w \in Watchers : wstate[w].phase \in {"idle", "read", "apply"}
    /\ seen \in [Ids -> StoredMapping \cup {NULL}]
    /\ creators \in [Ids -> SUBSET Clients]

\* Whenever pcp_mapping_find can see a mapping (its path holds "-"), every
\* key of it has been written: pcp_mapping_add sets "-" last, a prune
\* removes all keys at once, and a refresh only touches a found mapping.
CommittedMappingsComplete ==
    \A i \in Ids : Committed(i) => \A k \in Keys : db[i][k] # NULL

\* Keys are written only under a mapping path that find sees or that an add
\* in progress is filling: refresh sets its two keys only after finding
\* the mapping, so it never leaves keys under a path with no "-", which
\* apteryx_search, and so next_mapping_id and getall, would still list.
NoOrphanKeys ==
    \A i \in Ids :
        (db[i] # Absent /\ ~Committed(i))
            => \E c \in Clients : pc[c] = "add_write" /\ call[c].idx = i

\* The watch callback keeps the registered callbacks' set of mappings in
\* step with the store: once the callers stop, the mappings reported by
\* new_pcp_mapping and not since by delete_pcp_mapping are exactly those
\* pcp_mapping_find sees.
ObserverMembershipConverges ==
    <>[](\A i \in Ids : (seen[i] # NULL) <=> Committed(i))

\* The contract of pcp_mapping_refresh_lifetime (spec.md 4.3, 8.3): a
\* refresh returns true iff the mapping existed when it was called and the
\* caller's new_end_of_life is within 3 seconds of time(NULL) + lifetime.
RefreshContract ==
    \A c \in Clients :
        (call[c].op = "refresh" /\ ret[c] # NULL)
            => (ret[c] <=> (call[c].existed /\ call[c].skew \in -3..3))

\* The spec's store contract (spec.md 4.3): an add of an index that names a
\* live mapping fails, so at most one add per live index returns true.
AddExclusive == \A i \in Ids : Cardinality(creators[i]) <= 1

\* Every mapping new_pcp_mapping reports carries the fields some add wrote
\* (spec.md 5: each store operation is atomic), never keys pruned between
\* pcp_mapping_find's existence check and its reads.
ObserverRecordsWellFormed ==
    \A i \in Ids : seen[i] # NULL => \A k \in Keys : seen[i][k] # NULL

\* pcp_mapping_getall (spec.md 4.3 list_all): for a caller alone with the
\* store, the list returned holds every mapping find sees, each once, in
\* ascending index order, whatever order apteryx_search returned paths in.
GetallSorted ==
    \A c \in Clients :
        (call[c].op = "getall" /\ pc[c] = "idle")
            => LET list == call[c].list
               IN  /\ \A m, n \in 1..Len(list) : m < n => list[m] < list[n]
                   /\ {list[n] : n \in 1..Len(list)} = {i \in Ids : Committed(i)}

(***************************************************************************)
(* Refinement: the store as its callers see it is the atomic MappingTable *)
(* of spec.md 4.3.  A mapping is in the table once pcp_mapping_find finds *)
(* it, and a refresh counts as done once it has set the lifetime, its end *)
(* of life being the one it is about to set.                              *)
(***************************************************************************)

\* The end of life the table shows: that of a refresh between its two sets.
ShownEnd(i) ==
    IF \E c \in Clients : pc[c] = "ref_set_end" /\ call[c].idx = i
    THEN call[CHOOSE c \in Clients : pc[c] = "ref_set_end" /\ call[c].idx = i].eol
    ELSE db[i].end

Table ==
    [i \in Ids |-> IF Committed(i)
                  THEN [owner |-> db[i].nonce, lifetime |-> db[i].lifetime,
                        start |-> db[i].start, end |-> ShownEnd(i)]
                  ELSE NULL]

Atomic == INSTANCE MappingTable WITH Owners <- Clients, table <- Table, now <- clock,
                               Epoch <- StartTime

\* Every step of the callers and the watch threads, seen through Table, is
\* an atomic create, refresh, delete or delete_all of spec.md 4.3, or no
\* change: an add becomes visible whole, with start_of_life read no later
\* than end_of_life's clock, and a refresh is within tolerance of a clock
\* reading of its call.
ImplementsMappingTable == Atomic!Spec

=============================================================================
