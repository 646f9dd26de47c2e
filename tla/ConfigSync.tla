----------------------------- MODULE ConfigSync -----------------------------
(***************************************************************************)
(* How pcpd's in-memory configuration (the global `config` struct of       *)
(* src/unnamed/part_000, pcpd's main.c) follows the configuration kept in  *)
(* Apteryx under /pcp/config (src/api/pcp.c).                              *)
(*                                                                         *)
(* At startup main() registers its callback table (pcp_register_cb, which  *)
(* also watches CONFIG_PATH "/*") and calls pcp_load_config: on a first    *)
(* run it writes pcp_initialized, pcp_enabled and the defaults, relying on *)
(* the watch to deliver them; otherwise it reads every key under           *)
(* callback_lock and calls the callback for it.  Afterwards every set of a *)
(* config key, by pcpd or by another process, reaches pcp_config_changed   *)
(* on Apteryx's watch thread, which reads the key again and calls the      *)
(* callback under callback_lock.  Apteryx keeps the keys when pcpd dies;   *)
(* pcpd may be killed at any step and started again.                       *)
(***************************************************************************)
EXTENDS Integers, Sequences, FiniteSets

CONSTANTS
    FlagKeys,       \* boolean keys read with `== 1` (map_support, ...)
    NumberKeys,     \* u_int32_t keys (min/max_mapping_lifetime, ...)
    DefaultOrder,   \* the keys config_set_default sets, in its order
    Defaults,       \* DEFAULT_* value of each of them
    Values,         \* u_int32_t values another process may set a number key to
    UIntBits,       \* width of u_int32_t, scaled down
    MaxWrites,      \* bound: sets of config keys by other processes
    MaxCrashes,     \* bound: times pcpd dies
    NULL

CallbackKeys == FlagKeys \cup NumberKeys     \* keys with a callback in main's table
Keys == CallbackKeys \cup {"pcp_initialized"}
U32Max == 2^UIntBits - 1

ASSUME "pcp_enabled" \in FlagKeys
ASSUME FlagKeys \cap NumberKeys = {}
ASSUME DefaultOrder \in Seq(CallbackKeys \ {"pcp_enabled"})
ASSUME Defaults \in [CallbackKeys -> Values \cup {0, 1}]

\* What the *_set API can store for a key: a bool is 0 or 1.
Settable(k) == IF k \in FlagKeys THEN {0, 1} ELSE Values

\* Mutant: a key's callback left out of pcp_load_config.
LoadOrderMissingLast == <<"pcp_enabled">> \o SubSeq(DefaultOrder, 1, Len(DefaultOrder) - 1)

\* The order pcp_load_config calls the callbacks in (pcp_enabled first).
LoadOrder == <<"pcp_enabled">> \o DefaultOrder

\* The sets of a first run: pcp_initialized_set(true), pcp_enabled_set(true),
\* then config_set_default.
FirstRunWrites ==
    <<<<"pcp_initialized", 1>>, <<"pcp_enabled", 1>>>> \o
    [n \in 1..Len(DefaultOrder) |-> <<DefaultOrder[n], Defaults[DefaultOrder[n]]>>]

VARIABLES
    cfgdb,      \* [Keys -> integer or NULL]: /pcp/config in Apteryx
    ppc,        \* pcpd main thread: "down", "load", "load_keys", "first_run", "serving"
    cursor,     \* position in LoadOrder / FirstRunWrites
    config,     \* pcpd's global config struct
    watching,   \* pcpd's watch on CONFIG_PATH "/*" is registered
    pending,    \* config keys with a watch notification not yet delivered
    lock,       \* holder of callback_lock across steps: "main" or NULL
    writes,     \* sets made by other processes
    crashes     \* times pcpd has died

vars == <<cfgdb, ppc, cursor, config, watching, pending, lock, writes, crashes>>

\* The zero-initialised global struct of a freshly started pcpd.
ZeroConfig == [k \in CallbackKeys |-> IF k \in FlagKeys THEN FALSE ELSE 0]

(***************************************************************************)
(* The getters: apteryx_get_int returns -1 for a missing key, so a flag    *)
(* reads FALSE and a u_int32_t reads U32Max.                               *)
(***************************************************************************)

\* Mutant: the cast to u_int32_t left out, a missing number reads -1.
ReadingSigned(k) ==
    IF k \in FlagKeys THEN cfgdb[k] = 1
    ELSE IF cfgdb[k] = NULL THEN -1 ELSE cfgdb[k]

\* Mutant: a flag tested with `!= 0`, so a missing key (-1) reads as set.
ReadingNonzero(k) ==
    IF k \in FlagKeys THEN cfgdb[k] # 0
    ELSE IF cfgdb[k] = NULL THEN U32Max ELSE cfgdb[k]

Reading(k) ==
    IF k \in FlagKeys THEN cfgdb[k] = 1
    ELSE IF cfgdb[k] = NULL THEN U32Max ELSE cfgdb[k]

\* main.c's callbacks (pcp_enabled, map_support, ...): store the value in
\* the global struct; their `== enabled` early return changes nothing.
Callback(k, v) == [config EXCEPT ![k] = v]

\* One apteryx_set_int of a config key; the watch, when registered,
\* queues a notification for it.
SetKey(k, v) ==
    /\ cfgdb' = [cfgdb EXCEPT ![k] = v]
    /\ pending' = IF watching THEN pending \cup {k} ELSE pending

(***************************************************************************)
(* pcpd main thread                                                        *)
(***************************************************************************)

\* main(): pcp_init, then pcp_register_cb(&callbacks): saved_cbs is set
\* and the watches are registered.
Start ==
    /\ ppc = "down"
    /\ ppc' = "load"
    /\ watching' = TRUE
    /\ UNCHANGED <<cfgdb, cursor, config, pending, lock, writes, crashes>>

\* pcp_load_config on an initialised store: take callback_lock.
LoadInitialized ==
    /\ ppc = "load"
    /\ cfgdb["pcp_initialized"] = 1
    /\ lock = NULL
    /\ lock' = "main"
    /\ ppc' = "load_keys"
    /\ cursor' = 1
    /\ UNCHANGED <<cfgdb, config, watching, pending, writes, crashes>>

\* pcp_load_config on a store never initialised: the first-run writes.
LoadFirstRun ==
    /\ ppc = "load"
    /\ cfgdb["pcp_initialized"] # 1
    /\ ppc' = "first_run"
    /\ cursor' = 1
    /\ UNCHANGED <<cfgdb, config, watching, pending, lock, writes, crashes>>

\* Under the lock: saved_cbs->x(x_get()) for the next key; the last one
\* releases the lock.
LoadKey ==
    LET k == LoadOrder[cursor]
        last == cursor = Len(LoadOrder)
    IN  /\ ppc = "load_keys"
        /\ config' = Callback(k, Reading(k))
        /\ IF last
           THEN /\ ppc' = "serving" /\ lock' = NULL /\ UNCHANGED cursor
           ELSE /\ cursor' = cursor + 1 /\ UNCHANGED <<ppc, lock>>
        /\ UNCHANGED <<cfgdb, watching, pending, writes, crashes>>

\* Mutant: the first-run sets made before pcp_register_cb registered the
\* watch, so none of them is notified.
FirstRunWriteUnwatched ==
    LET w == FirstRunWrites[cursor]
        last == cursor = Len(FirstRunWrites)
    IN  /\ ppc = "first_run"
        /\ cfgdb' = [cfgdb EXCEPT ![w[1]] = w[2]]
        /\ IF last
           THEN /\ ppc' = "serving" /\ UNCHANGED cursor
           ELSE /\ cursor' = cursor + 1 /\ UNCHANGED ppc
        /\ UNCHANGED <<config, watching, pending, lock, writes, crashes>>

\* One set of the first-run chain; pcpd's own callbacks are not called.
FirstRunWrite ==
    LET w == FirstRunWrites[cursor]
        last == cursor = Len(FirstRunWrites)
    IN  /\ ppc = "first_run"
        /\ SetKey(w[1], w[2])
        /\ IF last
           THEN /\ ppc' = "serving" /\ UNCHANGED cursor
           ELSE /\ cursor' = cursor + 1 /\ UNCHANGED ppc
        /\ UNCHANGED <<config, watching, lock, writes, crashes>>

\* pcpd dies (a kill, a failed check_error, a fault): its memory, its
\* watches and the lock it may hold go; Apteryx keeps /pcp/config.
Crash ==
    /\ ppc # "down"
    /\ crashes < MaxCrashes
    /\ ppc' = "down"
    /\ cursor' = 0
    /\ config' = ZeroConfig
    /\ watching' = FALSE
    /\ pending' = {}
    /\ lock' = NULL
    /\ crashes' = crashes + 1
    /\ UNCHANGED <<cfgdb, writes>>

(***************************************************************************)
(* Watch thread: pcp_config_changed for a pending key.  It takes the lock, *)
(* reads the key's current value with its getter, calls main's callback,   *)
(* which stores it in `config`, and releases the lock.  A notification for *)
(* pcp_initialized matches a known key and calls nothing.                  *)
(***************************************************************************)
ConfigChanged ==
    /\ watching
    /\ lock = NULL
    /\ \E k \in pending :
        /\ pending' = pending \ {k}
        /\ config' = IF k \in CallbackKeys
                     THEN Callback(k, Reading(k))
                     ELSE config
    /\ UNCHANGED <<cfgdb, ppc, cursor, watching, lock, writes, crashes>>

(***************************************************************************)
(* Another process sets a config key through the *_set API.                *)
(***************************************************************************)
ExternalSet ==
    /\ writes < MaxWrites
    /\ \E k \in CallbackKeys : \E v \in Settable(k) :
        /\ SetKey(k, v)
        /\ writes' = writes + 1
    /\ UNCHANGED <<ppc, cursor, config, watching, lock, crashes>>

Init ==
    /\ cfgdb = [k \in Keys |-> NULL]
    /\ ppc = "down"
    /\ cursor = 0
    /\ config = ZeroConfig
    /\ watching = FALSE
    /\ pending = {}
    /\ lock = NULL
    /\ writes = 0
    /\ crashes = 0

Startup == LoadInitialized \/ LoadFirstRun \/ LoadKey \/ FirstRunWrite

Next == Start \/ Startup \/ Crash \/ ConfigChanged \/ ExternalSet

\* pcpd's main thread runs its startup to the end and Apteryx delivers
\* every queued notification; nothing restarts pcpd after it dies, and
\* other processes need not write.
Spec == Init /\ [][Next]_vars /\ WF_vars(Startup) /\ WF_vars(ConfigChanged)

(***************************************************************************)
(* Properties                                                              *)
(***************************************************************************)

TypeOK ==
    /\ cfgdb \in [Keys -> Values \cup {0, 1, NULL}]
    /\ cursor \in 0..Len(FirstRunWrites)
    /\ ppc \in {"down", "load", "load_keys", "first_run", "serving"}
    /\ \A k \in CallbackKeys :
          config[k] \in IF k \in FlagKeys THEN BOOLEAN ELSE 0..U32Max
    /\ watching \in BOOLEAN
    /\ pending \subseteq Keys
    /\ lock \in {"main", NULL}
    /\ writes \in 0..MaxWrites
    /\ crashes \in 0..MaxCrashes

\* Once pcpd is up and the writers have stopped, its config struct ends up
\* holding what its getters read from Apteryx, whichever way it started
\* (loaded under the lock, or first-run writes delivered by the watch) and
\* however the watch thread's callbacks interleaved with the load.
ConfigConverges ==
    <>[](ppc = "serving" => config = [k \in CallbackKeys |-> Reading(k)])

\* The safety side of ConfigConverges: while pcpd serves, its config struct
\* differs from what the getters read from Apteryx only in keys whose watch
\* notification is still queued, so every stale value, whether left by the
\* load under callback_lock, by the first-run writes or by another
\* process's set, is one pcp_config_changed is yet to repair.
ConfigTracksStore ==
    ppc = "serving" =>
        \A k \in CallbackKeys : config[k] # Reading(k) => k \in pending


\* "apply default config if first time running, otherwise load" (main.c
\* line 488): a pcpd that is serving finds every default key in Apteryx,
\* so none of them reads as the missing-key -1.
ConfigComplete ==
    ppc = "serving" => \A n \in 1..Len(DefaultOrder) : cfgdb[DefaultOrder[n]] # NULL

=============================================================================
