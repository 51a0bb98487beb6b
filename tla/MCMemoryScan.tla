----------------------------- MODULE MCMemoryScan -----------------------------
(***************************************************************************)
(* A small instance of MemoryScan for TLC: the daemon and two other pids.  *)
(***************************************************************************)
EXTENDS MemoryScan, TLC

CONSTANTS d, p, q
=============================================================================
