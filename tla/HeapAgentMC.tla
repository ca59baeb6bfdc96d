---------------------------- MODULE HeapAgentMC ----------------------------
(***************************************************************************)
(* Instances of HeapAgent for TLC: the booting thread and a worker.        *)
(***************************************************************************)
EXTENDS HeapAgent

CONSTANTS main, w1
=============================================================================
