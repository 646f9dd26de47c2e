------------------------------ MODULE MC_Pcpd ------------------------------
(* pcpd with the key set of MC_ConfigSync. *)
EXTENDS Pcpd

MCDefaultOrder == <<"map_support", "max_mapping_lifetime">>

\* DEFAULT_MAP_SUPPORT and DEFAULT_MAX_MAPPING_LIFETIME (libpcp.h, not in
\* the repository): MAP support on, a lifetime unlike the zeroed struct's.
MCDefaults == [k \in {"pcp_enabled", "map_support", "max_mapping_lifetime"} |->
                  IF k = "max_mapping_lifetime" THEN 5 ELSE 1]
=============================================================================
