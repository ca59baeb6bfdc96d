---------------------------- MODULE StatsTableMC ----------------------------
(***************************************************************************)
(* Instances of StatsTable for TLC: ids that share a bucket and ids that   *)
(* do not, ids after uniqueId has come round, one of them outside of the   *)
(* table, and sizes that overflow a small int.                             *)
(***************************************************************************)
EXTENDS StatsTable

SomeIds == {-2, -1, 1, 3}
=============================================================================
