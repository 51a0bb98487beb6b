---------------------------- MODULE MCMemoryPolicy ----------------------------
(***************************************************************************)
(* A small instance of MemoryPolicy for TLC: the ratios are the kernel's   *)
(* default of 20, one that steps of five lead past five, and one below.    *)
(***************************************************************************)
EXTENDS MemoryPolicy

MCRatios == {3, 12, 20}
MCAdminRatios == {0, 1, 5, 6, 40}
=============================================================================
