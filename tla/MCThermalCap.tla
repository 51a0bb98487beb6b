----------------------------- MODULE MCThermalCap -----------------------------
(***************************************************************************)
(* A small instance of ThermalCap for TLC: ceilings from which steps of a  *)
(* twentieth reach the floor of half in 14 steps, the least there are, of  *)
(* which the last is the floor itself; 401 has a half that is rounded.     *)
(***************************************************************************)
EXTENDS ThermalCap, TLC

CONSTANTS c1, c2

TwoCeilings == (c1 :> 400) @@ (c2 :> 401)
=============================================================================
