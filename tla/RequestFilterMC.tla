-------------------------- MODULE RequestFilterMC --------------------------
(***************************************************************************)
(* Instances of RequestFilter for TLC.                                     *)
(***************************************************************************)
EXTENDS RequestFilter, TLC

CONSTANTS t1, t2, o1, o2, o3

Interchangeable == Permutations(Thread) \cup Permutations(Obj)
=============================================================================
