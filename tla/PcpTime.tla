------------------------------ MODULE PcpTime ------------------------------
(***************************************************************************)
(* The time arithmetic of the pcpd API (src/api/pcp.c), all of it in      *)
(* u_int32_t: the remaining lifetime of a mapping                          *)
(* (pcp_mapping_remaining_lifetime_get) and the server uptime that         *)
(* get_uptime_string prints as "%u:%02u:%02u:%02u", days to seconds.      *)
(* The printed string is represented by its four numbers.  U32Bits is the *)
(* width of a u_int32_t, scaled down only as far as TLC's integers need.   *)
(***************************************************************************)
EXTENDS Integers

CONSTANT U32Bits

TimeRange == 2^U32Bits
TimeMax == TimeRange - 1

ASSUME U32Bits \in 17..30      \* 86400 fits; sums stay within TLC's ints

\* startup_epoch_time_get: apteryx_get_int's int result, -1 for a missing
\* key, cast to u_int32_t.
StartupEpochTimeGet(raw) == raw % TimeRange

\* pcp_mapping_remaining_lifetime_get for a non-NULL mapping.
RemainingLifetimeGet(endOfLife, now) ==
    IF endOfLife <= now THEN 0 ELSE endOfLife - now

\* Mutant: `uptime -= days * 86400` left out before the hours.
UptimeFieldsNoDays(now, epoch) ==
    LET uptime  == (now - epoch) % TimeRange
        days    == uptime \div 86400
        hours   == uptime \div 3600
        rest    == uptime - hours * 3600
        minutes == rest \div 60
    IN  [days |-> days, hours |-> hours, minutes |-> minutes,
         seconds |-> rest - minutes * 60]

\* get_uptime_string: time(NULL) - startup_epoch_time_get() in u_int32_t,
\* then each unit divided out and subtracted in turn.
UptimeFields(now, epoch) ==
    LET uptime  == (now - epoch) % TimeRange
        days    == uptime \div 86400
        afterD  == uptime - days * 86400
        hours   == afterD \div 3600
        afterH  == afterD - hours * 3600
        minutes == afterH \div 60
    IN  [days |-> days, hours |-> hours, minutes |-> minutes,
         seconds |-> afterH - minutes * 60]

=============================================================================
