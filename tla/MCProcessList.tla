---------------------------- MODULE MCProcessList ----------------------------
(***************************************************************************)
(* A small instance of ProcessList for TLC: up to three processes beside   *)
(* the command, of one other program and of bettercpu itself (its daemon). *)
(***************************************************************************)
EXTENDS ProcessList

Symmetry == Permutations(Pids)
=============================================================================
