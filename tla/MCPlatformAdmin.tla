---------------------------- MODULE MCPlatformAdmin ----------------------------
(***************************************************************************)
(* Instances of PlatformAdmin for TLC.                                     *)
(***************************************************************************)
EXTENDS PlatformAdmin, TLC

OneKey == [p \in Procs |-> "carrier"]
ProcSymmetry == Permutations(Procs)
===============================================================================
