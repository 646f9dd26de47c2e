# TLA+ models of pcpd and libpcp

This directory holds TLA+ models of the PCP server in `src/`. TLC checks them. They cover:

- the mapping store and config API of `src/api/pcp.c` (libpcp over Apteryx);
- pcpd's `main.c` (`src/unnamed/part_000`);
- the packet layout of `src/pcpd/packets_pcp.h`.

`PROJECT.json` lists the components, runs, mutants, the definition-to-source map, findings and hazards.

## The system and how its parts interact

| Part | Code | State | Operations |
|---|---|---|---|
| Identifier allocator | `current_highest_index`, `next_highest_id`, `next_mapping_id` (pcp.c 148-190) | none (reads the store) | next id = highest index + 11, rounded down to a multiple of 10, refused above `MAXIMUM_MAPPING_ID` (default `INT_MAX`) |
| Mapping store | `pcp_mapping_add/_refresh_lifetime/_delete/_deleteall/_find/_getall` (pcp.c 192-381) | Apteryx keys `/pcp/mappings/<id>/<key>`, plus the value `-` on `/pcp/mappings/<id>` that find takes as "exists" | every call is a sequence of separate Apteryx get/set/prune operations; nothing locks across them |
| Mapping watch | `pcp_mapping_changed` (pcp.c 755-813), registered by `pcp_register_cb` on `MAPPING_PATH "/"` | the callbacks' view of the mappings | runs on an Apteryx thread; calls find *before* taking `callback_lock`, then `new_pcp_mapping` or `delete_pcp_mapping` |
| Config policy | `pcp_load_config`, `*_set/*_get`, `config_set_default`, `pcp_config_changed` (pcp.c 407-753) | `/pcp/config/<key>` in Apteryx (survives pcpd) | first run: set `pcp_initialized`, `pcp_enabled`, then the defaults. Otherwise read every key under `callback_lock`. Each later set notifies the `CONFIG_PATH "/*"` watch, which re-reads the key under the lock |
| pcpd | `main`, the config callbacks, `process_map_request` (part_000) | global `config` struct (zeroed at start), `pkt_buf` | startup (register, load), then a loop: `recvfrom` into the reused `pkt_buf`; answer it only if it is a MAP request and `config.map_support`; the reply is a placeholder SUCCESS |
| Wire codec | the packed structs, R-bit macros and constants of `packets_pcp.h`; the serialisers (`packets_pcp.c`, `packets_pcp_serialization.c`) are not in the repository | none | `main` reads a request straight from `pkt_buf` as a `map_request` and writes the response into the same buffer |

The behaviours that make the code hard to test:

- API callers run concurrently with each other and with Apteryx's watch threads, and every multi-key operation can be interleaved.
- pcpd can die at any step (`check_error` exits, signals, faults) while Apteryx keeps its keys.
- Datagrams are lost and reordered.
- Times are `u_int32_t` and ids are `int`, so they overflow.

## Modules

| Module | Models | Composes |
|---|---|---|
| `IdAllocator` | `next_highest_id` as an operator over a scaled-down two's-complement `int` (`WrapInt`, C's truncating `%` as `CRem`) | - |
| `MappingTable` | The store's promise (spec 4.3): a table of live mappings, each create, refresh, delete and delete_all one atomic step | - |
| `MappingStore` | The mapping store and the mapping watch. `db` is the Apteryx subtree, `pc`/`call` give each caller's position inside its API call, one action per Apteryx access. `pending` holds undelivered notifications, `wstate` is each watch thread's `pcp_mapping_changed` in progress, and `seen` is what the callbacks were told. `creators` is history. `Table` maps the state onto `MappingTable`. | `IdAllocator` (EXTENDS), `MappingTable` (INSTANCE ... WITH) |
| `MappingStoreFaults` | `MappingStore` with failing `apteryx_set`/`apteryx_prune` calls, each handled as the code handles (or ignores) the result | `MappingStore` (EXTENDS) |
| `PcpPackets` | The packed structs of `packets_pcp.h` as sequences of members with their sizes (`SizeOf`, `OffsetAt`, `EndOf` sum them, as `PACKED` leaves no padding). The RFC 6887 diagrams of the header's comments as rows of bit widths. `R_REQUEST`/`R_RESPONSE` on the opcode byte, with `Bitwise`. The `result_code` enum in declaration order, and C's implicit numbering (`EnumValue`) | - |
| `ConfigSync` | The config keys, pcpd's startup load or first-run writes, `pcp_config_changed` with `callback_lock`, the callbacks into `config`, other processes' `*_set`, and pcpd crashes and restarts | - |
| `Pcpd` | `main`'s receive loop with `pkt_buf`, over a lossy, reordering network, and first-run sets that fail. Datagram lengths are in bytes, and a field is overwritten when the datagram holds its whole `map_request` member | `ConfigSync` (INSTANCE, same variables), `PcpPackets` (EXTENDS) |
| `PcpTime` | The `u_int32_t` time arithmetic: `pcp_mapping_remaining_lifetime_get` (`RemainingLifetimeGet`), `get_uptime_string`'s division into days, hours, minutes and seconds (`UptimeFields`, the printed string as its four numbers), and `startup_epoch_time_get`'s cast of -1 | - |
| `MC_Operators` | The pure operators, each against a reference over every input: `NextHighestId` against spec 4.2, each struct against its diagram, the R macros against the diagram's R column for every byte, each `result_code` against the RFC's table, and the time operators at the unit boundaries and the top of the `u_int32_t` range | `IdAllocator`, `PcpPackets`, `PcpTime` (EXTENDS) |
| `MC_*` | constants for TLC (negative numbers, default values) | their module |

How actions correspond to code (the exact lines are in `PROJECT.json` "map"):

- **Adds.** `AddAuto`/`AddAutoExhausted`/`AddExplicit` are the entry of `pcp_mapping_add` (index -1 or explicit). `AddFindExists`/`AddFindFree` are its `pcp_mapping_find`. `AddWrite` is one of its `apteryx_set` calls, in code order (`AddKeys`); only the last one, the `-` on the mapping path, notifies the watch.
- **Refreshes.** `RefreshOff`/`RefreshCall` are the tolerance test. `RefreshFind*` is the existence check. `RefreshSetLifetime`/`RefreshSetEnd` are the two sets, and neither notifies.
- **Deletes.** `DeleteMissing`/`DeleteCall` plus `DeletePrune` are `pcp_mapping_delete`, and `DeleteAll` is `pcp_mapping_deleteall`.
- **Getall.** `GetallSearch` is `apteryx_search`, `GetallFind` is the find of one returned path (in any order) with `g_list_insert_sorted` and `mapping_index_cmp` (`InsertSorted`, `MappingIndexCmp`), and `GetallDone` returns the list (kept in `call[c].list`).
- **Failing writes** (`MappingStoreFaults`). `AddWriteFails` is a failed set of the add, which goes on and returns true. `RefreshSetLifetimeFails`/`RefreshSetEndFails` are the `&&` of lines 287-288. `DeletePruneFails` returns true regardless, and `DeleteAllFails` returns the prune's status. `AddPathFails` and `DeletePathFails` are an `asprintf` of the mapping path that runs out of memory. It returns -1, which add's `== 0` test lets through, so add sets keys on a NULL path and returns true. Refresh's `== 0` test also lets it through, and its first set then fails (`RefreshSetLifetimeFails`). Delete's `> 0` test catches it. The constant `Fallible` names the calls whose writes may fail, so that each run shows one failure.
- **The mapping watch.** `WatchFindGone`/`WatchFindFound` are find's path check, `WatchRead` is find's field reads, and `WatchApply` is the callback under the lock.
- **pcpd startup.** `Start` is `main` up to `pcp_register_cb`. `LoadInitialized`/`LoadKey` are the initialised branch of `pcp_load_config`, holding the lock across keys. `LoadFirstRun`/`FirstRunWrite` are the `&&` chain of sets. `FirstRunWriteFails` (in `Pcpd`) is a set of that chain failing, after which `main` serves anyway.
- **Config changes.** `ConfigChanged` is `pcp_config_changed`. `ExternalSet` is another process's `*_set`. `Crash` is the process dying.
- **The receive loop.** `Recv` is `recvfrom` (only the datagram's bytes are overwritten) and `Handle` is the rest of the iteration. When it answers, `serialize_map_response` writes the response over `pkt_buf` (`ResponseBuffer`), so a later short datagram is read against the response's bytes.

Abstractions:

- Nonce, endpoints, opcode and protocol of a mapping are the adding caller's identity, which is enough to tell two adds apart.
- Only three config keys are modelled: `pcp_enabled`, one flag and one `u_int32_t` key. The other keys take identical code paths.
- A datagram is the three fields the properties tell apart (version, opcode byte, nonce) and its length in bytes. It overwrites a field when it holds that field's whole member of `map_request`.
- Widths are scaled down: `int` to `IntBits`, `u_int32_t` times to `TimeBits`, config numbers to `UIntBits`.

## Runs

| Run | Expect | What it shows |
|---|---|---|
| `allocator` | pass | `NextHighestId` equals the spec 4.2 reference (`AllocRef`) for every highest index 0..IntMax, while the ceiling leaves room for the +11 (`AllocatorContract`). Every packed struct has its diagram's size, and each member lies in the diagram row of its name (`LayoutMatchesDiagram`). For all 256 opcode bytes, `R_RESPONSE` sets and `R_REQUEST` clears exactly the diagram's R column, keeping the other 7 bits (`RBitEncoding`). Every `result_code` enumerator's implicit C value is its RFC 6887 number (`ResultCodesMatchRFC`); spec.md section 3 calls the enumeration 13 values but lists the same 14 names. `get_uptime_string`'s four numbers recombine to the `u_int32_t` uptime, each below its unit (`UptimeReadsBack`). |
| `allocator_intmax` | violation | with the default ceiling `INT_MAX`, `max_index += 11` overflows and a free id is refused |
| `store` | pass | For one caller and one watch thread: found mappings always have every key (`CommittedMappingsComplete`); refresh returns true iff the mapping existed and the end of life is within 3 s (`RefreshContract`, with skews -4, 0, 3, 4); no keys are left under a path find cannot see, outside an add in progress (`NoOrphanKeys`); getall returns the found mappings once each, in ascending order (`GetallSorted`); the callbacks' set of mappings converges to the store (`ObserverMembershipConverges`); and the store seen through `Table` implements `MappingTable` (`ImplementsMappingTable`) |
| `store_race` | violation | two `pcp_mapping_add(-1)` both get id 10 and both return true |
| `store_torn` | violation | the watch's find sees a mapping, a prune removes it, and `new_pcp_mapping` gets missing fields |
| `store_orphan` | violation | two callers: a refresh finds its mapping, the other caller's `deleteall` prunes it, and the refresh's sets re-create `lifetime` and `end_of_life` under a path with no `-`, which `apteryx_search` keeps listing; the refresh returns true (`NoOrphanKeys`) |
| `store_setfail` | violation | one refused `apteryx_set` or failed `asprintf`, and `pcp_mapping_add` returns true for a mapping find does not see whole (`SuccessReportsEffect`) |
| `store_refreshfail` | violation | a refused end-of-life set makes refresh return false with the new lifetime already stored beside the old end of life, a state no atomic refresh of `MappingTable` produces (`ImplementsMappingTable` under `FaultSpec`) |
| `config` | pass | through first runs, crashes (2), restarts and external sets (2), a serving pcpd's `config` differs from the getters' readings of Apteryx only in keys whose watch notification is still queued (`ConfigTracksStore`), and it converges to those readings (`ConfigConverges`) |
| `config_firstrun` | violation | a crash after `pcp_initialized` is set leaves every later pcpd serving with the defaults missing |
| `pcpd` | pass | even with a failing first-run set, the unlocked `config.map_support` the loop reads is on only if Apteryx held `map_support = 1` since this pcpd started |
| `pcpd_echo` | violation | a short or empty datagram is answered with a nonce from the previous packet or uninitialised bytes |

Every property of a passing run has a mutant in `PROJECT.json` that breaks it: a plausible bug in the definition it depends on, for example `-` set first, end of life set before start of life, the comparator's operands swapped, a tolerance of 4, a missing delete callback, a key left out of `pcp_load_config`, first-run sets made before the watch is registered, or a flag tested with `!= 0`.

### The refinement

`MappingTable` is what spec 4.3 promises: every operation is atomic. It has two details that follow the code:

- create takes `start_of_life` and `end_of_life` from clock readings made during the call, the start's no later than the end's;
- refresh accepts an end of life within 3 s of a reading made during the call.

`MappingStore` implements it through the refinement mapping `Table`:

- a mapping is in the table once `pcp_mapping_find` can see it (its `-` is set);
- a refresh that has set its lifetime shows the end of life it is about to set.

Under this mapping, every other step is a stutter: the add's field sets, the refresh's second set, the watch threads and the ticks. The `store` run checks `ImplementsMappingTable` for one caller. With two callers it fails at once, on the add race of `store_race`.

### Bounds and why they suffice

- `store`: one caller, four calls, two ticks, ids {10, 20} (auto and explicit). Every path of every call and every watch step occurs, including a getall of two mappings found in either search order (211k states, about 75 s with the refinement).
- `store_setfail`: one caller, three calls, one failed write; TLC finds an add one of whose field sets failed. The races need two callers; they are the violation runs, which use one call each, enough to show them.
- `store_orphan`: two callers with two calls each. That is the fewest for one caller to add and then refresh while the other deletes (TLC finds it in 15 steps).
- `store_refreshfail`: one caller, an add and a refresh, lifetimes 5 and 20. Lifetimes more than 3 s apart make the half-refreshed mapping differ from every refresh within tolerance.
- `config`: two crashes let pcpd die in the first run, restart, and die again in the load. Two external sets can change a key while the load holds the lock and while a notification is queued. Values 2 and 5 differ from the defaults and from the zeroed struct.
- `pcpd`: one crash, one failed first-run set, one external set, and two datagrams of every length and opcode. That is enough for a stale buffer, a restart with an uninitialised one, a first run cut short, and a map_support change between `Recv` and `Handle` (1.3M states).
- `allocator`: all 128 values of an 8-bit `int`'s non-negative range, the five packet structs, and all 256 opcode bytes. The time operators use `U32Bits = 30`, the widest that keeps TLC's integers from overflowing. Their inputs are clock readings at every unit boundary of d:hh:mm:ss (59, 60, 3599, 3600, 86399, 86400, 90061 = 1:01:01:01) and at the top of the range. Startup epochs include the missing key's -1. Lifetimes and elapsed times are 0, 1, 59, 60 and 3600 against each other.
- `pcpd` datagram lengths: 0, 1, 24 (a bare request header, e.g. an ANNOUNCE) and 60 (a whole MAP request). These are the member boundaries at which a field the model tells apart changes from stale to new.

### Fairness

- **MappingStore:** weak fairness on each watch thread. Apteryx runs every queued callback. Callers get none: they may stop.
- **ConfigSync:** weak fairness on pcpd's startup (nothing blocks it except `callback_lock`, which is released within a step) and on `pcp_config_changed`. `Start` (a restart after a death) and other processes' sets get none, because nothing in this code restarts pcpd.
- **Deadlock:** deadlock checking is off everywhere, because callers, writers and clients are finite by design and the system may stop.

## Findings

See `PROJECT.json` "findings". In short:

- two concurrent adds of index -1 both succeed;
- a refresh whose second set fails leaves half its update and returns false;
- the watch's find is torn by a concurrent prune;
- a refresh racing a delete leaves keys of the deleted mapping in the store;
- `pcp_mapping_add` ignores failed Apteryx sets and reports success;
- `next_highest_id` overflows at the default ceiling;
- a crash during the first run leaves pcpd permanently unconfigured;
- short datagrams are answered from stale buffer bytes.

## Not modelled

- Read-only helpers with no state: the print functions and the IPv6 string conversions. The arithmetic of `pcp_mapping_remaining_lifetime_get` and `get_uptime_string` is in `PcpTime`. No run checks `RemainingLifetimeGet`. Below the wrap of `time(NULL)` it is spec 8.4's `max(0, end - now)` as written. Across the wrap (in 2106) a lease started at `TimeMax` with lifetime 60 reads 0 at once. That case is a hazard in `PROJECT.json`.
- Refresh notifications. The mapping watch on `MAPPING_PATH "/"` hears only the `-` marker and prunes, so a refresh reaches no callback. Spec 4.3 promises the observer creates and deletes only, and pcpd registers no mapping callbacks, so this is not checked.
- Who sets `startup_epoch_time`. No code in the repository calls `startup_epoch_time_set`, and `config_set_default` does not set it, so `startup_epoch_time_get` reads the missing key's -1 as `2^32 - 1`. `get_uptime_string` then reports `time(NULL) + 1`, the seconds since 1970, where spec 3 and 7 describe the seconds since server startup. A test of the printed uptime shows it at once, so it is not a run. `UptimeReadsBack` includes this reading among its inputs.
- Failing Apteryx reads (a failed get reads as a missing key). Failing config sets by other processes, which change nothing.
- `ConfigConverges` is checked without failing sets. With a failing first-run set it is violated: the struct keeps zeros while the getters read -1 as `u_int32_t`. That is a hazard in `PROJECT.json`; the `pcpd` run includes the failure for `MapSupportFromStore`.
- `GetallSorted` is checked with non-negative ids. `pcp_mapping_add` accepts negative explicit ids, and with `AddIndices = {-110}` at `IntBits = 8` TLC shows getall returning `<<20, -110, 10>>`, because `mapping_index_cmp`'s subtraction overflows.
- The status dump, PID file, CLI and signal handlers (I/O; a SIGTERM exit is a `Crash` for the config). The SIGTERM handler calls `pcp_deinit`, and with it Apteryx, from signal context, which may deadlock in Apteryx's locks. That is listed as a hazard; it depends on Apteryx and libc, which are not in the repository.
- The u_int32_t wrap of refresh's tolerance bounds (`expected - 3`, `expected + 3`, pcp.c:269). The `store` run keeps its times clear of it. With `StartTime = 56` at `TimeBits = 6`, TLC shows a refresh with skew 0 refused.
- The serialisers and `get_packet_type`, which are not in the repository. The struct layouts they read are modelled (`PcpPackets`).
- The placeholder parts of `process_map_request`: SUCCESS for every version, lifetime 9001, no store mutation, and no answer to non-MAP requests. The code's TODO and spec section 9 acknowledge them.

## Plan for later work

1. A refinement for `ConfigSync` against a "config equals store eventually" abstract machine.
2. Several watch threads, once Apteryx's callback threading is pinned down. With `Watchers = {w1, w2}` in the `store` model, TLC already breaks `ObserverMembershipConverges`: one thread reports an add after the other has reported the delete.
3. The lifetime clamping and result codes of spec 4.4, if the processor stops being a stub.
