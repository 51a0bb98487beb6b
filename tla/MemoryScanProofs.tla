--------------------------- MODULE MemoryScanProofs ---------------------------
(***************************************************************************)
(* Proofs about the scan of /proc and its signal, for any number of pids   *)
(* and any sizes, however processes start, change and exit meanwhile.      *)
(***************************************************************************)
EXTENDS MemoryScan, TLAPS

-----------------------------------------------------------------------------
(* The bounds of a pid under a change of its size.                         *)

Range == Sizes \cup {None}

LEMMA Bounds ==
  ASSUME NEW m \in Range, NEW n \in Range
  PROVE  /\ Lower(m, n) \in Range /\ Lower(m, n) <= m /\ Lower(m, n) <= n
         /\ Higher(m, n) \in Range /\ m <= Higher(m, n) /\ n <= Higher(m, n)
  BY ScanAssumption DEF Lower, Higher, Range, Sizes, None

LEMMA Numbers ==
  /\ \A n \in Range : n \in Int
  /\ Sizes \subseteq Range /\ None \in Range /\ None \notin Sizes
  BY ScanAssumption DEF Range, Sizes, None

\* What a change of p's size leaves of everything else, and of p's own bounds.
LEMMA Changed ==
  ASSUME TypeOK, NEW p \in Pids, NEW n \in Range, Becomes(p, n)
  PROVE  /\ rss' \in [Pids -> Range] /\ rss'[p] = n
         /\ least' \in [Pids -> Range] /\ most' \in [Pids -> Range]
         /\ \A q \in Pids \ {p} : rss'[q] = rss[q] /\ least'[q] = least[q] /\ most'[q] = most[q]
         /\ phase # "idle" => /\ least'[p] <= least[p] /\ least'[p] <= n
                              /\ most[p] <= most'[p] /\ n <= most'[p]
  <1>1. /\ rss \in [Pids -> Range] /\ least \in [Pids -> Range] /\ most \in [Pids -> Range]
        /\ rss' = [rss EXCEPT ![p] = n]
    BY DEF TypeOK, Range, Becomes
  <1>2. CASE phase = "idle"
    BY <1>1, <1>2 DEF Becomes
  <1>3. CASE phase # "idle"
    <2>1. /\ least' = [least EXCEPT ![p] = Lower(least[p], n)]
          /\ most' = [most EXCEPT ![p] = Higher(most[p], n)]
      BY <1>1, <1>3 DEF Becomes
    <2>2. /\ Lower(least[p], n) \in Range /\ Lower(least[p], n) <= least[p]
          /\ Lower(least[p], n) <= n
          /\ Higher(most[p], n) \in Range /\ most[p] <= Higher(most[p], n)
          /\ n <= Higher(most[p], n)
      BY <1>1, Bounds
    <2>. QED BY <1>1, <2>1, <2>2
  <1>. QED BY <1>2, <1>3

-----------------------------------------------------------------------------
(* Types.                                                                  *)

LEMMA TypeInit == Init => TypeOK
  <1>. SUFFICES ASSUME Init PROVE TypeOK
    OBVIOUS
  <1>1. Nobody \in [Pids -> Sizes \cup {None}]
    BY DEF Nobody
  <1>. QED BY <1>1, ScanAssumption DEF Init, TypeOK

\* A process that starts, changes or exits.
LEMMA TypeChanged ==
  ASSUME TypeOK, NEW p \in Pids, NEW n \in Range, Becomes(p, n),
         n = None => p # Daemon /\ signalled' = signalled \ {p},
         n # None => signalled' = signalled
  PROVE  /\ rss' \in [Pids -> Sizes \cup {None}] /\ rss'[Daemon] # None
         /\ signalled' \subseteq {q \in Pids : rss'[q] # None}
         /\ least' \in [Pids -> Sizes \cup {None}]
         /\ most' \in [Pids -> Sizes \cup {None}]
  <1>1. /\ rss' \in [Pids -> Range] /\ rss'[p] = n
        /\ least' \in [Pids -> Range] /\ most' \in [Pids -> Range]
        /\ \A q \in Pids \ {p} : rss'[q] = rss[q]
    BY Changed
  <1>2. Daemon \in Pids
    BY ScanAssumption
  <1>3. rss'[Daemon] # None
    BY <1>1, <1>2 DEF TypeOK
  <1>4. \A q \in signalled' : q \in Pids /\ rss'[q] # None
    BY <1>1 DEF TypeOK
  <1>. QED BY <1>1, <1>3, <1>4 DEF Range

LEMMA TypeStep == TypeOK /\ [Next]_vars => TypeOK'
  <1>. SUFFICES ASSUME TypeOK, [Next]_vars PROVE TypeOK'
    OBVIOUS
  <1>0. Nobody \in [Pids -> Sizes \cup {None}]
    BY DEF Nobody
  <1>1. CASE OpenProc
    BY <1>0, <1>1 DEF TypeOK, OpenProc
  <1>2. CASE \E p \in Pids : ReadStatus(p)
    BY <1>2 DEF TypeOK, ReadStatus
  <1>3. CASE TopMemoryConsumer
    BY <1>3 DEF TypeOK, TopMemoryConsumer
  <1>4. CASE RequestTermination
    BY <1>0, <1>4 DEF TypeOK, RequestTermination
  <1>5. CASE PressureChanges
    BY <1>5 DEF TypeOK, PressureChanges, scan
  <1>6. ASSUME NEW p \in Pids, Start(p) \/ Resize(p) \/ Exit(p) \/ ExitUnread(p)
        PROVE  TypeOK'
    <2>1. PICK n \in Range : /\ Becomes(p, n)
                             /\ n = None => p # Daemon /\ signalled' = signalled \ {p}
                             /\ n # None => signalled' = signalled
      BY <1>6, Numbers DEF Start, Resize, Exit, ExitUnread
    <2>2. /\ rss' \in [Pids -> Sizes \cup {None}] /\ rss'[Daemon] # None
          /\ signalled' \subseteq {q \in Pids : rss'[q] # None}
          /\ least' \in [Pids -> Sizes \cup {None}]
          /\ most' \in [Pids -> Sizes \cup {None}]
      BY <2>1, TypeChanged
    <2>3. /\ critical' = critical /\ phase' = phase /\ victim' = victim
          /\ todo' \subseteq todo
          /\ results' = results \/ results' = [results EXCEPT ![p] = 0]
      BY <1>6 DEF Start, Resize, Exit, ExitUnread, scan
    <2>4. 0 \in Sizes
      BY ScanAssumption DEF Sizes
    <2>. QED BY <2>2, <2>3, <2>4 DEF TypeOK
  <1>7. CASE StopRequested
    BY <1>7, ScanAssumption DEF TypeOK, StopRequested, scan
  <1>8. CASE UNCHANGED vars
    BY <1>8 DEF TypeOK, vars
  <1>. QED BY <1>1, <1>2, <1>3, <1>4, <1>5, <1>6, <1>7, <1>8
           DEF Next, DaemonStep, MachineStep

\* The variables keep their types, and only processes there are stay signalled: a
\* pid that is given away starts anew.
THEOREM TypeCorrect == Spec => []TypeOK
  BY TypeInit, TypeStep, PTL DEF Spec

-----------------------------------------------------------------------------
(* Who is terminated.                                                      *)

ScanInv == ReadingsBetween /\ VictimRead

LEMMA ScanInit == Init => ScanInv
  BY DEF Init, ScanInv, ReadingsBetween, VictimRead

LEMMA BetweenRead ==
  ASSUME TypeOK, ScanInv, NEW p \in Pids, ReadStatus(p)
  PROVE  ScanInv'
  <1>1. /\ phase = "scan" /\ todo' = todo \ {p} /\ results' = [results EXCEPT ![p] = rss[p]]
        /\ UNCHANGED <<rss, phase, victim, least, most>>
    BY DEF ReadStatus
  <1>2. results'[p] = rss[p] /\ \A q \in Pids \ {p} : results'[q] = results[q]
    BY <1>1 DEF TypeOK
  <1>. QED BY <1>1, <1>2 DEF ScanInv, ReadingsBetween, VictimRead

\* A change of size moves the bounds apart, never past a reading.
LEMMA BetweenChanged ==
  ASSUME TypeOK, ScanInv, NEW p \in Pids, NEW n \in Range, Becomes(p, n),
         UNCHANGED scan
  PROVE  ScanInv'
  <1>. USE DEF ScanInv, scan
  <1>1. VictimRead'
    BY DEF VictimRead
  <1>2. SUFFICES ASSUME phase # "idle", NEW q \in Pids
                 PROVE  /\ least'[q] <= rss'[q] /\ rss'[q] <= most'[q]
                        /\ q \notin todo => least'[q] <= results[q] /\ results[q] <= most'[q]
    BY <1>1 DEF ReadingsBetween
  <1>3. /\ least[q] <= rss[q] /\ rss[q] <= most[q]
        /\ q \notin todo => least[q] <= results[q] /\ results[q] <= most[q]
    BY <1>2 DEF ReadingsBetween
  <1>4. CASE q # p
    BY <1>3, <1>4, Changed
  <1>5. CASE q = p
    <2>1. /\ rss'[q] = n /\ least'[q] <= least[q] /\ least'[q] <= n
          /\ most[q] <= most'[q] /\ n <= most'[q]
          /\ least'[q] \in Range /\ most'[q] \in Range
      BY <1>2, <1>5, Changed
    <2>2. least[q] \in Range /\ most[q] \in Range /\ results[q] \in Range
      BY DEF TypeOK, Range
    <2>. QED BY <1>3, <2>1, <2>2, Numbers
  <1>. QED BY <1>4, <1>5

\* An entry without a size counts as zero, which is between nothing and what the
\* process had.
LEMMA BetweenExitUnread ==
  ASSUME TypeOK, ScanInv, NEW p \in Pids, ExitUnread(p)
  PROVE  ScanInv'
  <1>1. /\ phase = "scan" /\ phase' = "scan" /\ rss[p] # None /\ Becomes(p, None)
        /\ todo' = todo \ {p} /\ results' = [results EXCEPT ![p] = 0] /\ victim' = victim
    BY DEF ExitUnread
  <1>2. results'[p] = 0 /\ \A q \in Pids \ {p} : results'[q] = results[q]
    BY <1>1 DEF TypeOK
  <1>3. None \in Range
    BY Numbers
  <1>4. SUFFICES ASSUME NEW q \in Pids
                 PROVE  /\ least'[q] <= rss'[q] /\ rss'[q] <= most'[q]
                        /\ q \notin todo' => least'[q] <= results'[q] /\ results'[q] <= most'[q]
    BY <1>1 DEF ScanInv, ReadingsBetween, VictimRead
  <1>5. /\ least[q] <= rss[q] /\ rss[q] <= most[q]
        /\ q \notin todo => least[q] <= results[q] /\ results[q] <= most[q]
    BY <1>1 DEF ScanInv, ReadingsBetween
  <1>6. CASE q # p
    BY <1>1, <1>2, <1>3, <1>5, <1>6, Changed
  <1>7. CASE q = p
    <2>1. /\ rss'[q] = None /\ least'[q] <= None
          /\ most[q] <= most'[q] /\ None <= most'[q]
          /\ least'[q] \in Range /\ most'[q] \in Range
      BY <1>1, <1>3, <1>7, Changed
    <2>2. rss[q] \in Sizes /\ most[q] \in Range
      BY <1>1, <1>7 DEF TypeOK, Range
    <2>3. least'[q] <= 0 /\ 0 <= most'[q]
      BY <1>5, <2>1, <2>2, ScanAssumption DEF Range, Sizes, None
    <2>. QED BY <1>2, <1>7, <2>1, <2>3
  <1>. QED BY <1>6, <1>7

LEMMA ScanStep == TypeOK /\ ScanInv /\ [Next]_vars => ScanInv'
  <1>. SUFFICES ASSUME TypeOK, ScanInv, [Next]_vars PROVE ScanInv'
    OBVIOUS
  <1>1. CASE OpenProc
    <2>1. \A p \in Pids : rss[p] \in Int
      BY Numbers DEF TypeOK, Range
    <2>. QED BY <1>1, <2>1 DEF OpenProc, ScanInv, ReadingsBetween, VictimRead
  <1>2. CASE \E p \in Pids : ReadStatus(p)
    BY <1>2, BetweenRead
  <1>3. CASE TopMemoryConsumer
    BY <1>3 DEF TopMemoryConsumer, ScanInv, ReadingsBetween, VictimRead
  <1>4. CASE RequestTermination
    BY <1>4 DEF RequestTermination, ScanInv, ReadingsBetween, VictimRead
  <1>5. CASE PressureChanges \/ StopRequested
    BY <1>5 DEF PressureChanges, StopRequested, scan, ScanInv, ReadingsBetween, VictimRead
  <1>6. ASSUME NEW p \in Pids, Start(p) \/ Resize(p) \/ Exit(p)
        PROVE  ScanInv'
    <2>1. PICK n \in Range : Becomes(p, n)
      BY <1>6, Numbers DEF Start, Resize, Exit
    <2>2. UNCHANGED scan
      BY <1>6 DEF Start, Resize, Exit
    <2>. QED BY <2>1, <2>2, BetweenChanged
  <1>7. CASE \E p \in Pids : ExitUnread(p)
    BY <1>7, BetweenExitUnread
  <1>8. CASE UNCHANGED vars
    BY <1>8 DEF vars, ScanInv, ReadingsBetween, VictimRead
  <1>. QED BY <1>1, <1>2, <1>3, <1>4, <1>5, <1>6, <1>7, <1>8
           DEF Next, DaemonStep, MachineStep

\* From the first reading to the signal, no process that was always larger than
\* the victim's pid ever was is passed over: each reading lies between the bounds
\* of its pid, and the victim's is the highest.
THEOREM LargerNotSparedHolds == Spec => []LargerNotSpared
  <1>1. TypeOK /\ ScanInv => LargerNotSpared
    <2>. SUFFICES ASSUME TypeOK, ScanInv, phase = "terminate", NEW q \in Pids
                  PROVE  least[q] <= most[victim]
      BY DEF LargerNotSpared
    <2>1. least[q] <= results[q] /\ results[q] <= results[victim] /\ results[victim] <= most[victim]
      BY DEF ScanInv, ReadingsBetween, VictimRead, TypeOK
    <2>2. /\ least[q] \in Int /\ results[q] \in Int
          /\ results[victim] \in Int /\ most[victim] \in Int
      BY Numbers DEF TypeOK, Range
    <2>. QED BY <2>1, <2>2
  <1>. QED BY <1>1, ScanInit, ScanStep, TypeCorrect, PTL DEF Spec
=============================================================================
