------------------------------- MODULE StepWise -------------------------------
(***************************************************************************)
(* What the thermal policy asks of the frequency ceilings, seen from       *)
(* outside: it comes to one verdict at a time on the temperature of the    *)
(* whole machine, and under each verdict a core's ceiling moves at most    *)
(* once: down by at most a twentieth and not below half of what it was     *)
(* when it is too hot, up to what it was when it has become cool, and not  *)
(* at all in between.                                                      *)
(*                                                                         *)
(* ThermalCap.tla, the policy as it is written, implements this.           *)
(***************************************************************************)
EXTENDS Integers

CONSTANTS
  Cores,     \* the cores whose frequency is capped
  Ceilings   \* the ceiling each had before

VARIABLES
  ceiling,   \* the ceiling of each core
  verdict,   \* "over", "between", "cool", or "none" while there is no verdict
  pending    \* the cores that may still follow it

vars == <<ceiling, verdict, pending>>

Init ==
  /\ ceiling = Ceilings
  /\ verdict = "none"
  /\ pending = {}

Decide ==
  /\ verdict = "none"
  /\ verdict' \in {"over", "between", "cool"}
  /\ pending' = Cores
  /\ UNCHANGED ceiling

Lower(c) ==
  /\ verdict = "over"
  /\ \E lower \in (ceiling[c] - (ceiling[c] \div 20)) .. (ceiling[c] - 1) :
       /\ lower >= Ceilings[c] \div 2
       /\ ceiling' = [ceiling EXCEPT ![c] = lower]

Lift(c) ==
  /\ verdict = "cool"
  /\ ceiling' = [ceiling EXCEPT ![c] = Ceilings[c]]

Follow(c) ==
  /\ c \in pending
  /\ pending' = pending \ {c}
  /\ \/ Lower(c)
     \/ Lift(c)
     \/ UNCHANGED ceiling
  /\ UNCHANGED verdict

Forget ==
  /\ pending = {}
  /\ verdict' = "none"
  /\ UNCHANGED <<ceiling, pending>>

Next == Decide \/ Forget \/ \E c \in Cores : Follow(c)

Spec == Init /\ [][Next]_vars
=============================================================================
