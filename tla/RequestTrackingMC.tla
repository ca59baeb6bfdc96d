------------------------- MODULE RequestTrackingMC -------------------------
(***************************************************************************)
(* Instances of RequestTracking for TLC.                                   *)
(***************************************************************************)
EXTENDS RequestTracking, TLC

CONSTANTS t1, t2, o1, o2

Interchangeable == Permutations(Thread) \cup Permutations(Obj)
=============================================================================
