----------------------------- MODULE ProcessList -----------------------------
(***************************************************************************)
(* `bettercpu p` and the `bettercpu p -k <id>` that follows it.  Ids are   *)
(* positions in a listing sorted by CPU usage, and `p -k` makes a listing  *)
(* of its own: it samples all processes twice, groups them by name, sorts, *)
(* looks the id up and signals one process after the other, while other    *)
(* processes come, go, work and take the pids of those that have gone.     *)
(*                                                                         *)
(* The commands are run by root.  `p -h` and a refused command line change *)
(* nothing, and -k makes run_process_command forget -r.                    *)
(***************************************************************************)
EXTENDS Integers, SequencesExt

CONSTANTS
  Pids,      \* the process ids the machine hands out
  NoPid,     \* no command is running
  Names,     \* the names of programs
  Own,       \* the name of bettercpu's own processes, the daemon's as well
  MaxUse,    \* the most CPU a process uses between two samples
  Numbers,   \* the numbers a user may type
  MaxSize,   \* the largest number that std::stoul returns
  MaxEvents  \* how often processes come, go and change what they use

ASSUME ListAssumption ==
  /\ NoPid \notin Pids
  /\ Own \in Names
  /\ MaxUse \in Nat /\ MaxSize \in Nat /\ MaxEvents \in Nat
  /\ Numbers \subseteq Nat
  /\ IsFiniteSet(Pids)
  /\ Cardinality(Pids) <= MaxSize + 1  \* a pid has 22 bits, an unsigned long 64

\* A process: its number among all that were ever born (0: the pid is free), its
\* name, and the CPU it uses between two samples.
Free == [born |-> 0, name |-> Own, use |-> 0]

VARIABLES
  proc,      \* the process that has each pid
  births,    \* how many processes have been born
  own,       \* the pid of the command under way
  phase,     \* what it does next
  killing,   \* is it `p -k`
  first,     \* first_samples: which process had each pid, 0 for none
  todo,      \* the pids still to be read again
  samples,   \* the processes sampled twice
  programs,  \* the programs, each the set of its samples, by descending CPU; those
             \* of `p` last until the user has typed an id
  window,    \* the ProcessListingRange
  listed,    \* history: the program that the listing showed under each id
  typed,     \* the id given to -k: <<N>>, <<N, M>>, or <<>> if it is malformed
  aim,       \* history: the samples the listing showed under that id
  sure,      \* history: no tie in the listing, and nothing that a command uses
             \* itself, can put them elsewhere
  calm,      \* history: nothing but the commands has happened since it began
  queue,     \* the samples still to be signalled
  hit,       \* the processes that were signalled
  success,   \* have all signals been sent
  events     \* how often something has happened

world == <<proc, births, calm, events>>
listing == <<window, listed, typed, aim, sure, killing>>
signals == <<queue, hit, success>>
vars == <<proc, births, own, phase, killing, first, todo, samples, programs, window,
          listed, typed, aim, sure, calm, queue, hit, success, events>>

Alive(p) == proc[p].born # 0
Identity(x) == <<x.pid, x.born>>
Cpu(x) == x.cpu

\* The sum of what its processes used, tick by tick.
Total(program) ==
  Cardinality({t \in program \X (1..MaxUse) : t[2] <= t[1].cpu})

\* What is displayed without -r.
WholeListing == [start |-> 0, end |-> MaxSize + 1]

\* Every order std::sort may leave: elements that compare equal are in any order.
Sorted(S, Key(_)) ==
  {s \in SetToSeqs(S) : \A i, j \in DOMAIN s : i < j => Key(s[i]) >= Key(s[j])}

Init ==
  /\ proc \in {f \in [Pids -> [born : Nat \cap {0, 1}, name : Names, use : 0..MaxUse]] :
                 \A p \in Pids : f[p].born = 0 => f[p] = Free}
  /\ births = 1
  /\ own = NoPid
  /\ phase = "idle"
  /\ killing = FALSE
  /\ first = [p \in Pids |-> 0]
  /\ todo = {}
  /\ samples = {}
  /\ programs = <<>>
  /\ window = WholeListing
  /\ listed = <<>>
  /\ typed = <<>>
  /\ aim = {}
  /\ sure = FALSE
  /\ calm = TRUE
  /\ queue = <<>>
  /\ hit = {}
  /\ success = TRUE
  /\ events = 0

-----------------------------------------------------------------------------
(* The two commands begin.                                                 *)

\* A command's loops over all processes run between the two readings of itself as
\* well: it may have used CPU in its own listing, each command another amount.
Fork(p) ==
  /\ phase = "idle"
  /\ ~ Alive(p)
  /\ \E u \in 0..MaxUse : proc' = [proc EXCEPT ![p] = [born |-> births + 1, name |-> Own, use |-> u]]
  /\ births' = births + 1
  /\ own' = p
  /\ phase' = "list_pids"

\* parse_listing_range refuses a start above the end; std::stoul throws above
\* MaxSize, and nothing catches.
RunList(p, range) ==
  /\ Fork(p)
  /\ programs = <<>>
  /\ range.start <= range.end
  /\ range.end <= MaxSize \/ range = WholeListing
  /\ window' = range
  /\ calm' = TRUE
  /\ UNCHANGED <<first, todo, samples, programs, killing, listed, typed, aim, sure, signals, events>>

\* What bettercpu's processes used, those of the listing that still run: all but
\* the command that made it.
OwnUse ==
  Total({x \in UNION {programs[n] : n \in 1..Len(programs)} :
           x.name = Own /\ proc[x.pid].born = x.born})

\* The order of a listing leaves no program but this one at its place, whatever a
\* command uses itself.
Untied(program) ==
  /\ \A n \in 1..Len(programs) : Total(programs[n]) = Total(program) => programs[n] = program
  /\ Total(program) \notin OwnUse..(OwnUse + MaxUse)

\* The user types what the listing showed, or anything else.
RunKill(p, id) ==
  /\ Fork(p)
  /\ ~ killing
  /\ killing' = TRUE
  /\ typed' = id
  /\ IF id # <<>> /\ id[1] \in DOMAIN listed
       THEN \E shown \in Sorted(listed[id[1]], Cpu) :
              /\ aim' = IF Len(id) = 1 THEN listed[id[1]]
                        ELSE {shown[m] : m \in {id[2] + 1} \cap DOMAIN shown}
              /\ sure' = /\ Untied(listed[id[1]])
                         /\ Len(id) = 2 => \A x, y \in listed[id[1]] : x.cpu = y.cpu => x = y
       ELSE aim' = {} /\ sure' = FALSE
  /\ programs' = <<>>
  /\ listed' = <<>>
  /\ UNCHANGED <<first, todo, samples, window, calm, signals, events>>

-----------------------------------------------------------------------------
(* collect_programs.                                                       *)

\* Whose times the stat file of a pid gives; none (valid is false) if it is free.
ReadProcessTimes(p) == proc[p].born

\* The first readings, as of one moment; then the command sleeps.
ListPids ==
  /\ phase = "list_pids"
  /\ first' = [p \in Pids |-> ReadProcessTimes(p)]
  /\ todo' = {p \in Pids : Alive(p)}
  /\ samples' = {}
  /\ phase' = "read"
  /\ UNCHANGED <<world, own, programs, listing, signals>>

\* Mutant of Deltas: less time than before is subtracted all the same, and wraps.
DeltasWrapped(p) ==
  IF ReadProcessTimes(p) = first[p] THEN {proc[p].use} ELSE 0..(MaxUse + 1)

\* Another process under the same pid may have used less time in its life than
\* the first had, and is then left out.
Deltas(p) ==
  IF ReadProcessTimes(p) = first[p] THEN {proc[p].use} ELSE 0..MaxUse

\* Mutant of ReadAgain: a process that used no time is left out as well.
ReadAgainIfBusy(p) ==
  /\ phase = "read"
  /\ p \in todo
  /\ \/ /\ Alive(p)
        /\ \E delta \in Deltas(p) \ {0} :
             samples' = samples \cup {[pid |-> p, born |-> proc[p].born,
                                       name |-> proc[p].name, cpu |-> delta]}
     \/ (ReadProcessTimes(p) # first[p] \/ proc[p].use = 0) /\ UNCHANGED samples
  /\ todo' = todo \ {p}
  /\ UNCHANGED <<world, own, phase, first, programs, listing, signals>>

ReadAgain(p) ==
  /\ phase = "read"
  /\ p \in todo
  /\ \/ /\ Alive(p)
        /\ \E delta \in Deltas(p) :
             samples' = samples \cup {[pid |-> p, born |-> proc[p].born,
                                       name |-> proc[p].name, cpu |-> delta]}
     \/ ReadProcessTimes(p) # first[p] /\ UNCHANGED samples
  /\ todo' = todo \ {p}
  /\ UNCHANGED <<world, own, phase, first, programs, listing, signals>>

\* The order within a program is chosen where it is looked at.
Sort ==
  /\ phase = "read"
  /\ todo = {}
  /\ programs' \in Sorted({{x \in samples : x.name = n} : n \in {x.name : x \in samples}}, Total)
  /\ samples' = {}
  /\ phase' = IF killing THEN "look_up" ELSE "print"
  /\ UNCHANGED <<world, own, first, todo, listing, signals>>

-----------------------------------------------------------------------------
(* `p` ends.                                                               *)

Exit == proc' = [proc EXCEPT ![own] = Free] /\ own' = NoPid

\* Mutant of Shown: the ids of a range are counted from its start.
ShownFromZero ==
  [id \in {n - window.start : n \in {m \in 0..Len(programs) - 1 :
                                       window.start <= m /\ m <= window.end}}
     |-> programs[id + window.start + 1]]

\* The ids of a range are those of the whole listing.
Shown ==
  [id \in {n \in 0..Len(programs) - 1 : window.start <= n /\ n <= window.end}
     |-> programs[id + 1]]

PrintProcessListing ==
  /\ phase = "print"
  /\ listed' = Shown
  /\ window' = WholeListing
  /\ first' = [p \in Pids |-> 0]
  /\ Exit
  /\ phase' = "idle"
  /\ UNCHANGED <<births, calm, events, killing, todo, samples, programs, typed, aim,
                 sure, signals>>

-----------------------------------------------------------------------------
(* `p -k` goes on.                                                         *)

\* An id without meaning and a number too large are refused, the latter by an
\* exception that nothing catches; any other may name nothing.
Found ==
  /\ typed # <<>>
  /\ \A i \in DOMAIN typed : typed[i] <= MaxSize
  /\ typed[1] < Len(programs)
  /\ Len(typed) = 2 => typed[2] < Cardinality(programs[typed[1] + 1])

Reject ==
  /\ phase = "look_up"
  /\ ~ Found
  /\ success' = FALSE
  /\ Exit
  /\ phase' = "done"
  /\ UNCHANGED <<births, calm, events, first, todo, samples, programs, listing, queue, hit>>

LookUp ==
  /\ phase = "look_up"
  /\ Found
  /\ \E order \in Sorted(programs[typed[1] + 1], Cpu) :
       queue' = IF Len(typed) = 1 THEN order ELSE <<order[typed[2] + 1]>>
  /\ first' = [p \in Pids |-> 0]
  /\ phase' = "kill"
  /\ UNCHANGED <<world, own, todo, samples, programs, listing, hit, success>>

\* Mutants of KillProcess: it ends at the first process that has gone; only the
\* last result counts.
KillProcessShort ==
  LET p == Head(queue).pid IN
  /\ phase = "kill"
  /\ queue # <<>>
  /\ p # own
  /\ hit' = IF Alive(p) THEN hit \cup {<<p, proc[p].born>>} ELSE hit
  /\ success' = (success /\ Alive(p))
  /\ queue' = IF Alive(p) THEN Tail(queue) ELSE <<>>
  /\ UNCHANGED <<world, own, phase, first, todo, samples, programs, listing>>

KillProcessLast ==
  LET p == Head(queue).pid IN
  /\ phase = "kill"
  /\ queue # <<>>
  /\ p # own
  /\ hit' = IF Alive(p) THEN hit \cup {<<p, proc[p].born>>} ELSE hit
  /\ success' = Alive(p)
  /\ queue' = Tail(queue)
  /\ UNCHANGED <<world, own, phase, first, todo, samples, programs, listing>>

\* kill() fails only where nothing has the pid any more.
KillProcess ==
  LET p == Head(queue).pid IN
  /\ phase = "kill"
  /\ queue # <<>>
  /\ p # own
  /\ hit' = IF Alive(p) THEN hit \cup {<<p, proc[p].born>>} ELSE hit
  /\ success' = (success /\ Alive(p))
  /\ queue' = Tail(queue)
  /\ UNCHANGED <<world, own, phase, first, todo, samples, programs, listing>>

\* The command samples itself too, and has no handler for SIGTERM.
KillItself ==
  /\ phase = "kill"
  /\ queue # <<>>
  /\ Head(queue).pid = own
  /\ hit' = hit \cup {<<own, proc[own].born>>}
  /\ success' = FALSE
  /\ queue' = <<>>
  /\ Exit
  /\ phase' = "done"
  /\ UNCHANGED <<births, calm, events, first, todo, samples, programs, listing>>

Report ==
  /\ phase = "kill"
  /\ queue = <<>>
  /\ Exit
  /\ phase' = "done"
  /\ UNCHANGED <<births, calm, events, first, todo, samples, programs, listing, signals>>

-----------------------------------------------------------------------------
(* The other processes.                                                    *)

\* When p -k has ended, what happens is of no interest.
Happens ==
  /\ phase # "done"
  /\ events < MaxEvents
  /\ events' = events + 1
  /\ calm' = FALSE
  /\ UNCHANGED <<own, phase, first, todo, samples, programs, listing, signals>>

Spawn(p, n, u) ==
  /\ ~ Alive(p)
  /\ proc' = [proc EXCEPT ![p] = [born |-> births + 1, name |-> n, use |-> u]]
  /\ births' = births + 1
  /\ Happens

UseChanges(p, u) ==
  /\ Alive(p) /\ p # own /\ u # proc[p].use
  /\ proc' = [proc EXCEPT ![p].use = u]
  /\ UNCHANGED births
  /\ Happens

End(p) ==
  /\ Alive(p) /\ p # own
  /\ proc' = [proc EXCEPT ![p] = Free]
  /\ UNCHANGED births
  /\ Happens

\* What has been signalled ends, sooner or later.
EndOfSignalled(p) ==
  /\ Alive(p) /\ p # own /\ <<p, proc[p].born>> \in hit
  /\ proc' = [proc EXCEPT ![p] = Free]
  /\ UNCHANGED <<births, calm, events, own, phase, first, todo, samples, programs, listing, signals>>

-----------------------------------------------------------------------------
Ranges == [start : Numbers, end : Numbers] \cup {WholeListing}
Ids == {<<>>} \cup {<<n>> : n \in Numbers} \cup {<<n, m>> : n, m \in Numbers}

Next ==
  \/ \E p \in Pids :
       \/ \E range \in Ranges : RunList(p, range)
       \/ \E id \in Ids : RunKill(p, id)
       \/ ReadAgain(p) \/ End(p) \/ EndOfSignalled(p)
       \/ \E n \in Names, u \in 0..MaxUse : Spawn(p, n, u)
       \/ \E u \in 0..MaxUse : UseChanges(p, u)
  \/ ListPids \/ Sort \/ PrintProcessListing \/ Reject \/ LookUp \/ KillProcess \/ KillItself \/ Report

Spec == Init /\ [][Next]_vars

-----------------------------------------------------------------------------
Sample == [pid : Pids, born : 1..births, name : Names, cpu : 0..MaxUse]

TypeOK ==
  /\ \A p \in Pids : /\ proc[p].born \in 0..births
                     /\ proc[p].name \in Names /\ proc[p].use \in 0..MaxUse
  /\ own \in Pids \cup {NoPid}
  /\ phase \in {"idle", "list_pids", "read", "print", "look_up", "kill", "done"}
  /\ own = NoPid <=> phase \in {"idle", "done"}
  /\ \A p \in Pids : first[p] \in 0..births
  /\ todo \subseteq Pids
  /\ samples \subseteq Sample
  /\ \A i \in DOMAIN programs : programs[i] # {} /\ programs[i] \subseteq Sample
  /\ \A id \in DOMAIN listed : id \in Nat /\ listed[id] \subseteq Sample
  /\ typed \in Ids
  /\ aim \subseteq Sample
  /\ \A i \in DOMAIN queue : queue[i] \in Sample
  /\ \A x \in hit : x[1] \in Pids /\ x[2] \in 1..births
  /\ events \in 0..MaxEvents

\* Every process that lives through both samples has a place in the listing, and
\* no more than one.
ListsEveryone ==
  phase \in {"print", "look_up"} =>
    \A p \in Pids : Alive(p) /\ proc[p].born = first[p] =>
      Cardinality({i \in DOMAIN programs :
                     \E x \in programs[i] : Identity(x) = <<p, proc[p].born>>}) = 1

\* Though p -k samples again, on a quiet machine it signals what the listing
\* showed under the id and nothing else, whole and in a range or not, unless a tie
\* left the order open or what the commands use themselves could have moved
\* bettercpu, which they belong to, past the program.
KillsWhatWasListed ==
  calm /\ sure =>
    /\ hit \subseteq {Identity(x) : x \in aim}
    /\ phase = "done" /\ aim # {} => hit = {Identity(x) : x \in aim}

Targets ==
  IF Len(typed) = 1 /\ typed[1] < Len(programs) THEN programs[typed[1] + 1] ELSE {}

\* kill_program goes through the whole program, whichever of its processes have
\* gone: none that was sampled is left alone, unless the command signals itself.
WholeProgram ==
  phase = "done" /\ (\A x \in Targets : x.name # Own) =>
    \A x \in Targets : proc[x.pid].born = x.born => Identity(x) \in hit

\* A program is reported terminated only if each of its pids took the signal.
ReportTrue ==
  phase = "done" /\ success =>
    \A x \in Targets : \E y \in hit : y[1] = x.pid
=============================================================================
