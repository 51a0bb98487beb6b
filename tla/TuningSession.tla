---------------------------- MODULE TuningSession ----------------------------
(***************************************************************************)
(* What bettercpu promises about the kernel settings it touches, seen from *)
(* outside: at most one tuning session is open at a time, the settings are *)
(* changed only inside a session, and a session closes only after every    *)
(* setting is back at its original value.  A machine restart resets the    *)
(* settings and forgets the session.                                       *)
(*                                                                         *)
(* Lifecycle.tla, the commands and the daemon as they are written,         *)
(* implements this specification when they are used carefully.             *)
(***************************************************************************)
CONSTANTS
  Holders,    \* the processes that can hold a session
  Nobody      \* no session is open

VARIABLES
  holder,     \* the process whose session is open, or Nobody
  modified    \* does some setting differ from its original value

vars == <<holder, modified>>

TypeOK ==
  /\ holder \in Holders \cup {Nobody}
  /\ modified \in BOOLEAN

Init ==
  /\ holder = Nobody
  /\ modified = FALSE

(* A session opens on settings that nobody has modified. *)
Open(h) ==
  /\ holder = Nobody
  /\ ~ modified
  /\ holder' = h
  /\ UNCHANGED modified

(* The holder changes settings, or puts the last changed one back. *)
Adjust ==
  /\ holder # Nobody
  /\ modified' \in BOOLEAN
  /\ UNCHANGED holder

(* A session closes only when nothing is left modified. *)
Close ==
  /\ holder # Nobody
  /\ ~ modified
  /\ holder' = Nobody
  /\ UNCHANGED modified

MachineRestart ==
  /\ holder' = Nobody
  /\ modified' = FALSE

Next ==
  \/ \E h \in Holders : Open(h)
  \/ Adjust
  \/ Close
  \/ MachineRestart

Spec == Init /\ [][Next]_vars
=============================================================================
