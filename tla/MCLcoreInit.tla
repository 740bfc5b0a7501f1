---------------------------- MODULE MCLcoreInit ----------------------------
(***************************************************************************)
(* LcoreInit for TLC: every machine with up to MaxLcores slave lcores and  *)
(* MaxPorts ports on two NUMA nodes is an initial state.                   *)
(***************************************************************************)
EXTENDS LcoreInit
=============================================================================
