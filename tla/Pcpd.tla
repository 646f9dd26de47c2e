-------------------------------- MODULE Pcpd --------------------------------
(***************************************************************************)
(* pcpd as a whole (src/unnamed/part_000, main.c): the configuration sync *)
(* of ConfigSync composed with main()'s receive loop.  The loop reuses one *)
(* stack buffer pkt_buf for every datagram, never looks at the length      *)
(* recvfrom returns, classifies the buffer with get_packet_type, and       *)
(* answers it with process_map_request only when it is a MAP request and   *)
(* config.map_support, which the watch thread writes, is true.  Clients    *)
(* send over UDP: datagrams may be lost, and arrive in any order.  A set  *)
(* of pcpd's first run may fail, which main() does not notice.            *)
(***************************************************************************)
EXTENDS Integers, FiniteSets, Sequences, TLC, PcpPackets

CONSTANTS
    FlagKeys, NumberKeys, DefaultOrder, Defaults, Values, UIntBits,
    MaxWrites, MaxCrashes, NULL,
    MaxSetFailures, \* bound: apteryx_set calls of first runs that fail
    Nonces,         \* mapping nonces clients choose
    Versions,       \* version bytes clients send
    Lengths,        \* datagram lengths in bytes clients send
    MaxDatagrams    \* bound: datagrams clients send

VARIABLES
    cfgdb, ppc, cursor, config, watching, pending, lock, writes, crashes,
    net,            \* ids of datagrams sent and not yet received or lost
    pkt_buf,        \* main()'s receive buffer: the fields the model tells apart
    from,           \* id of the datagram of the current iteration, 0 between
    sent,           \* datagrams sent so far (their ids are 1..sent)
    log,            \* every datagram ever sent, by id (history)
    responses,      \* responses sent
    failures,       \* sets of pcpd's first runs that have failed
    enabledSinceStart \* Apteryx has held map_support = 1 since pcpd started (history)

CS == INSTANCE ConfigSync

csVars == <<cfgdb, ppc, cursor, config, watching, pending, lock, writes, crashes>>
loopVars == <<net, pkt_buf, from, sent, log, responses>>
vars == <<csVars, loopVars, failures, enabledSinceStart>>

(***************************************************************************)
(* The wire: the fields of a MAP/PEER request that the model tells apart,  *)
(* each the member of map_request (PcpPackets) it is read from.  A         *)
(* datagram of `len` bytes overwrites only the first `len` bytes of        *)
(* pkt_buf; lengths end on member boundaries, so a field is wholly new or  *)
(* wholly the previous packet's.                                           *)
(***************************************************************************)
Fields == {"version", "r_opcode", "nonce"}
FieldMember == [version |-> "version", r_opcode |-> "r_opcode", nonce |-> "mapping_nonce"]

ASSUME Lengths \subseteq {OffsetAt(map_request, n) : n \in 1..(Len(map_request) + 1)}
ASSUME \A len \in Lengths : len <= MAX_STRING_LEN - 1

FieldValues == [version : Versions, r_opcode : {MAP_OPCODE, PEER_OPCODE}, nonce : Nonces]
\* recvfrom's n bytes hold the whole member of field f.
Covers(len, f) == EndOf(map_request, FieldMember[f]) <= len

Datagrams == [len : Lengths, version : Versions,
              r_opcode : {MAP_OPCODE, PEER_OPCODE}, nonce : Nonces]

\* get_packet_type (packets_pcp_serialization.c): a MAP request is a request
\* opcode byte of MAP with the R bit clear.
IsMapRequest(buf) == buf.r_opcode = MAP_OPCODE

\* process_map_request: the response to the request in the buffer, with the
\* placeholder SUCCESS and lifetime 9001; new_pcp_map_response echoes the
\* request's nonce.
MapResponse(buf, to) ==
    [to |-> to, r_opcode |-> R_RESPONSE(MAP_OPCODE), result |-> "SUCCESS",
     lifetime |-> 9001, nonce |-> buf.nonce]

(***************************************************************************)
(* Actions                                                                 *)
(***************************************************************************)

\* A client sends a datagram of any length and content.
Send ==
    /\ sent < MaxDatagrams
    /\ \E d \in Datagrams :
        /\ net' = net \cup {sent + 1}
        /\ log' = log @@ (sent + 1 :> d)
    /\ sent' = sent + 1
    /\ UNCHANGED <<csVars, pkt_buf, from, responses, failures, enabledSinceStart>>

\* The network drops a datagram.
Lose ==
    /\ \E i \in net : net' = net \ {i}
    /\ UNCHANGED <<csVars, pkt_buf, from, sent, log, responses, failures, enabledSinceStart>>

\* recvfrom: any queued datagram (UDP does not keep order) overwrites the
\* first n bytes of pkt_buf; the rest keeps the previous packet's bytes.
Recv ==
    /\ ppc = "serving"
    /\ from = 0
    /\ \E i \in net :
        /\ net' = net \ {i}
        /\ pkt_buf' = [f \in Fields |-> IF Covers(log[i].len, f) THEN log[i][f] ELSE pkt_buf[f]]
        /\ from' = i
    /\ UNCHANGED <<csVars, sent, log, responses, failures, enabledSinceStart>>

\* serialize_map_response(pkt_buf, map_resp): the response is written over
\* pkt_buf.  Its version, r_opcode and mapping_nonce members lie at the
\* request's offsets (checked below), so the next datagram's missing bytes
\* are the response's.
ResponseBuffer(resp) ==
    [version |-> PCP_VERSION, r_opcode |-> resp.r_opcode, nonce |-> resp.nonce]

ASSUME \A f \in Fields :
    EndOf(map_response, FieldMember[f]) = EndOf(map_request, FieldMember[f])

\* The rest of the iteration: get_packet_type, the unlocked read of
\* config.map_support, and process_map_request, whose response overwrites
\* pkt_buf and is sent back; anything else is not answered.
Handle ==
    /\ from # 0
    /\ IF IsMapRequest(pkt_buf) /\ config["map_support"]
       THEN LET resp == MapResponse(pkt_buf, from)
            IN  /\ responses' = responses \cup {resp}
                /\ pkt_buf' = ResponseBuffer(resp)
       ELSE UNCHANGED <<responses, pkt_buf>>
    /\ from' = 0
    /\ UNCHANGED <<csVars, net, sent, log, failures, enabledSinceStart>>

\* pcpd dies: the next process starts with an uninitialised buffer.
Crash ==
    /\ CS!Crash
    /\ pkt_buf' \in FieldValues
    /\ from' = 0
    /\ enabledSinceStart' = FALSE
    /\ UNCHANGED <<net, sent, log, responses, failures>>

\* A step of ConfigSync.  enabledSinceStart follows Apteryx's map_support
\* while pcpd is up.
ConfigStep ==
    /\ \/ CS!Start \/ CS!Startup \/ CS!ConfigChanged \/ CS!ExternalSet
    /\ UNCHANGED <<loopVars, failures>>
    /\ enabledSinceStart' = IF ppc' = "down" THEN FALSE
                             ELSE enabledSinceStart \/ cfgdb'["map_support"] = 1

\* The next apteryx_set of a first run fails (pcp.c lines 459-461 and
\* config_set_default): `&&` skips the rest of the chain, pcp_load_config
\* returns false, and main() ignores the result and serves.
FirstRunWriteFails ==
    /\ ppc = "first_run"
    /\ failures < MaxSetFailures
    /\ failures' = failures + 1
    /\ ppc' = "serving"
    /\ UNCHANGED <<cfgdb, cursor, config, watching, pending, lock, writes, crashes>>
    /\ UNCHANGED <<loopVars, enabledSinceStart>>

Init ==
    /\ CS!Init
    /\ net = {}
    /\ pkt_buf \in FieldValues       \* uninitialised stack array
    /\ from = 0
    /\ sent = 0
    /\ log = << >>
    /\ responses = {}
    /\ failures = 0
    /\ enabledSinceStart = FALSE

Next == ConfigStep \/ FirstRunWriteFails \/ Crash \/ Send \/ Lose \/ Recv \/ Handle

Spec == Init /\ [][Next]_vars

(***************************************************************************)
(* Properties                                                              *)
(***************************************************************************)

\* pcpd answers MAP requests only while its struct says map support is on
\* (main.c line 510).  That struct is zeroed at every start and written by
\* pcp_load_config and the watch callbacks: it may say "on" only if Apteryx
\* has held map_support = 1 at some moment since this pcpd started, whatever
\* the crashes, first runs, external sets and notification order were.
MapSupportFromStore == config["map_support"] => enabledSinceStart

\* RFC6887 and spec 4.4 step 8: a response echoes the nonce of the request it
\* answers; spec 8.7: a datagram shorter than a MAP request is refused, never
\* read past its end.
ResponseEchoesRequest == \A r \in responses : r.nonce = log[r.to].nonce

=============================================================================
