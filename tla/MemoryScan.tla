------------------------------ MODULE MemoryScan ------------------------------
(***************************************************************************)
(* How the daemon picks a process to terminate while memory pressure is    *)
(* critical: it walks /proc reading the size of one process after the      *)
(* other, sorts what it has read, and sends SIGTERM to the pid at the      *)
(* front.  All the while processes start, grow, shrink and exit, and their *)
(* pids are given away.                                                    *)
(*                                                                         *)
(* MemoryPolicy.tla has the rest of the memory policy's tick.              *)
(***************************************************************************)
EXTENDS Integers, FiniteSets

CONSTANTS
  Pids,     \* the process ids
  Daemon,   \* the one of the daemon, which does not exit while it scans
  MaxRss    \* sizes are not followed above this bound

ASSUME ScanAssumption ==
  /\ IsFiniteSet(Pids)
  /\ Daemon \in Pids
  /\ MaxRss \in Nat

\* What a process may occupy, and what a pid without a process has, or one that
\* has no entry in the results.
Sizes == 0..MaxRss
None == -1

VARIABLES
  critical,   \* does MemGuard::classify find the pressure critical
  rss,        \* the size of the process that has each pid
  signalled,  \* the processes there are that have been sent SIGTERM
  phase,      \* what the daemon does: "idle", "scan" or "terminate"
  todo,       \* the entries of /proc still to be read
  results,    \* the size read of each pid
  victim,     \* the front of the sorted results
  least,      \* history: the least each pid has had since the scan began
  most        \* history: the most

scan == <<phase, todo, results, victim>>
vars == <<critical, rss, signalled, phase, todo, results, victim, least, most>>

Nobody == [p \in Pids |-> None]

Init ==
  /\ critical = FALSE
  /\ rss \in [Pids -> Sizes \cup {None}] /\ rss[Daemon] # None
  /\ signalled = {}
  /\ phase = "idle"
  /\ todo = {}
  /\ results = Nobody
  /\ victim = Daemon
  /\ least = Nobody
  /\ most = Nobody

-----------------------------------------------------------------------------
(* The daemon.                                                             *)

\* The loop has not been asked to stop, and the pressure is found critical.  A
\* /proc that does not open leaves everything as it is.
OpenProc ==
  /\ phase = "idle"
  /\ critical /\ Daemon \notin signalled
  /\ phase' = "scan"
  /\ todo' = Pids
  /\ results' = Nobody
  /\ least' = rss
  /\ most' = rss
  /\ UNCHANGED <<critical, rss, signalled, victim>>

\* Mutant of ReadStatus: the walk ends where a status file does not open.
ReadStatusBreak(p) ==
  /\ phase = "scan"
  /\ p \in todo
  /\ todo' = IF rss[p] = None THEN {} ELSE todo \ {p}
  /\ results' = [results EXCEPT ![p] = rss[p]]
  /\ UNCHANGED <<critical, rss, signalled, phase, victim, least, most>>

\* A pid without a process is not listed, or its status file does not open.
ReadStatus(p) ==
  /\ phase = "scan"
  /\ p \in todo
  /\ todo' = todo \ {p}
  /\ results' = [results EXCEPT ![p] = rss[p]]
  /\ UNCHANGED <<critical, rss, signalled, phase, victim, least, most>>

\* Mutant of TopMemoryConsumer: the smallest comes first.
TopMemoryConsumerAscending ==
  /\ phase = "scan"
  /\ todo = {}
  /\ \E p \in Pids :
       /\ results[p] # None
       /\ \A q \in Pids : results[q] # None => results[p] <= results[q]
       /\ victim' = p
  /\ phase' = "terminate"
  /\ UNCHANGED <<critical, rss, signalled, todo, results, least, most>>

\* Equal sizes are sorted in any order.
TopMemoryConsumer ==
  /\ phase = "scan"
  /\ todo = {}
  /\ \E p \in Pids :
       /\ results[p] # None
       /\ \A q \in Pids : results[q] <= results[p]
       /\ victim' = p
  /\ phase' = "terminate"
  /\ UNCHANGED <<critical, rss, signalled, todo, results, least, most>>

\* SIGTERM goes to whoever has the pid by now; that nobody may is not looked at.
RequestTermination ==
  /\ phase = "terminate"
  /\ signalled' = IF rss[victim] = None THEN signalled ELSE signalled \cup {victim}
  /\ phase' = "idle"
  /\ results' = Nobody
  /\ least' = Nobody
  /\ most' = Nobody
  /\ UNCHANGED <<critical, rss, todo, victim>>

-----------------------------------------------------------------------------
(* The machine.                                                            *)

PressureChanges ==
  /\ critical' = ~ critical
  /\ UNCHANGED <<rss, signalled, scan, least, most>>

Lower(m, n) == IF m < n THEN m ELSE n
Higher(m, n) == IF m < n THEN n ELSE m

\* The size that belongs to a pid becomes n, which a scan under way remembers.
Becomes(p, n) ==
  /\ rss' = [rss EXCEPT ![p] = n]
  /\ IF phase = "idle"
       THEN UNCHANGED <<least, most>>
       ELSE /\ least' = [least EXCEPT ![p] = Lower(@, n)]
            /\ most' = [most EXCEPT ![p] = Higher(@, n)]

\* A process starts, under a pid that another may have had a moment ago.
Start(p) ==
  /\ rss[p] = None
  /\ \E n \in Sizes : Becomes(p, n)
  /\ UNCHANGED <<critical, signalled, scan>>

Resize(p) ==
  /\ rss[p] # None
  /\ \E n \in Sizes \ {rss[p]} : Becomes(p, n)
  /\ UNCHANGED <<critical, signalled, scan>>

Exit(p) ==
  /\ p # Daemon
  /\ rss[p] # None
  /\ Becomes(p, None)
  /\ signalled' = signalled \ {p}
  /\ UNCHANGED <<critical, scan>>

\* A process that exits after its status file has been opened and before it is
\* read leaves an entry without a size.
ExitUnread(p) ==
  /\ phase = "scan"
  /\ p \in todo \ {Daemon}
  /\ rss[p] # None
  /\ Becomes(p, None)
  /\ signalled' = signalled \ {p}
  /\ todo' = todo \ {p}
  /\ results' = [results EXCEPT ![p] = 0]
  /\ UNCHANGED <<critical, phase, victim>>

\* SIGTERM from `stop`; the loop looks for it between two ticks.
StopRequested ==
  /\ signalled' = signalled \cup {Daemon}
  /\ UNCHANGED <<critical, rss, scan, least, most>>

-----------------------------------------------------------------------------
DaemonStep ==
  \/ OpenProc
  \/ \E p \in Pids : ReadStatus(p)
  \/ TopMemoryConsumer
  \/ RequestTermination

MachineStep ==
  \/ PressureChanges
  \/ \E p \in Pids : Start(p) \/ Resize(p) \/ Exit(p) \/ ExitUnread(p)
  \/ StopRequested

Next == DaemonStep \/ MachineStep

Spec == Init /\ [][Next]_vars

\* The daemon's thread is scheduled; nothing is assumed of other processes.
FairSpec == Spec /\ WF_vars(DaemonStep)

-----------------------------------------------------------------------------
TypeOK ==
  /\ critical \in BOOLEAN
  /\ rss \in [Pids -> Sizes \cup {None}] /\ rss[Daemon] # None
  /\ signalled \subseteq {p \in Pids : rss[p] # None}
  /\ phase \in {"idle", "scan", "terminate"}
  /\ todo \subseteq Pids
  /\ results \in [Pids -> Sizes \cup {None}]
  /\ victim \in Pids
  /\ least \in [Pids -> Sizes \cup {None}]
  /\ most \in [Pids -> Sizes \cup {None}]

\* Whatever processes do between the first reading and the signal, none that was
\* larger all that time than the victim's pid ever was is spared for the victim.
LargerNotSpared ==
  phase = "terminate" => \A q \in Pids : least[q] <= most[victim]

\* Under critical pressure a process that stays above a size which no other gets
\* to is signalled in the end; unless the daemon has hit itself before, or been
\* stopped.  To be the largest at every moment is not enough: it may be read while
\* it is small, and another while that is larger.
LargestSignalled ==
  \A p \in Pids, n \in Sizes :
    <>[](critical /\ rss[p] > n /\ \A q \in Pids \ {p} : rss[q] <= n)
      => <>(p \in signalled \/ Daemon \in signalled)

-----------------------------------------------------------------------------
(* What makes LargerNotSpared inductive.                                   *)

\* Since the scan began, every pid has stayed between its bounds, and so has what
\* was read of it; the victim's reading is the highest.
ReadingsBetween ==
  phase # "idle" =>
    \A p \in Pids :
      /\ least[p] <= rss[p] /\ rss[p] <= most[p]
      /\ p \notin todo => least[p] <= results[p] /\ results[p] <= most[p]

VictimRead ==
  phase = "terminate" => todo = {} /\ \A q \in Pids : results[q] <= results[victim]
=============================================================================
