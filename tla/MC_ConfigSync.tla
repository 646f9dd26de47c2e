--------------------------- MODULE MC_ConfigSync ---------------------------
(* ConfigSync with one flag key besides pcp_enabled and one u_int32_t key. *)
EXTENDS ConfigSync

MCDefaultOrder == <<"map_support", "max_mapping_lifetime">>

\* DEFAULT_MAP_SUPPORT and DEFAULT_MAX_MAPPING_LIFETIME come from libpcp.h,
\* which is not in the repository: a value that differs from the
\* zero-initialised struct, so a missed load shows.
MCDefaults == [k \in {"pcp_enabled", "map_support", "max_mapping_lifetime"} |->
                  IF k = "max_mapping_lifetime" THEN 5 ELSE 1]
=============================================================================
