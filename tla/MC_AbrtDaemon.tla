---------------------------- MODULE MC_AbrtDaemon ----------------------------
(* Model values and small configurations for AbrtDaemon.                   *)
EXTENDS AbrtDaemon, TLC

CONSTANTS d1, d2, d3, h1, h2

MCDirs == {d1, d2, d3}
MCHashes == {h1, h2}

(* d1 is small and old, d2 large and fresh, d3 large and old. Two MiB of   *)
(* quota: any two directories exceed it and d2 or d3 alone reach it.       *)
MCSize == (d1 :> 1) @@ (d2 :> 2) @@ (d3 :> 2)
MCAge == (d1 :> 3) @@ (d2 :> 0) @@ (d3 :> 1)
MCQuota == 2
=============================================================================
