--------------------------- MODULE LifecycleMishaps ---------------------------
(***************************************************************************)
(* Theorems about Lifecycle when things go wrong: what only a failed step, *)
(* a crash or the machine's end can bring about.                           *)
(***************************************************************************)
EXTENDS LifecycleProofs

-----------------------------------------------------------------------------
(* Tuning does not come back against the user's will.                      *)

Mishaps == {"fault", "crash", "shutdown", "power"}

Mishap == \E e \in Mishaps : used[e] > 0

\* The steps of a command, and of the daemon that no one can see yet.
Busy == CommandSteps \cup {"publish"} \cup StopSteps \cup CleanSteps

\* The steps of a start that has enabled the unit and not yet begun the session.
Pending == {"capture", "save", "launch"}

\* As long as nothing has gone wrong the machine is up, the user runs every
\* process, one command at a time, and an enabled unit is wanted or about to be.
Uneventful ==
  /\ power = "up"
  /\ svc = "inactive"
  /\ \A p \in Pids : proc[p].by = "user"
  /\ \A p, q \in Pids : proc[p].pc \in Busy /\ proc[q].pc \in Busy => p = q
  /\ ~ wanted /\ unit = "enabled" => \E p \in Pids : proc[p].pc \in Pending

\* A step that starts no command and ends none that is pending, and enables
\* nothing that is unwanted, leaves things uneventful.
LEMMA UneventfulStep ==
  ASSUME Uneventful, power' = power, svc' = svc,
         \A q \in Pids : proc'[q].by = "user",
         \A q \in Pids : proc'[q].pc \in Busy => proc[q].pc \in Busy,
         \/ unit' # "enabled"
         \/ wanted'
         \/ /\ unit' = unit /\ wanted' = wanted
            /\ \A q \in Pids : proc[q].pc \in Pending => proc'[q].pc \in Pending
  PROVE  Uneventful'
  BY DEF Uneventful

\* The processes of the user are none of the service's business.
LEMMA NoService ==
  ASSUME Uneventful, NEW p \in Pids, NEW ok
  PROVE  ServiceAfter(p, ok) = svc /\ ServiceAfterTerm(p) = svc
  BY DEF Uneventful, ServiceAfter, ServiceAfterTerm, Main

\* A mishap that is counted has happened.
LEMMA SpentMishap ==
  ASSUME TypeOK, NEW e \in Mishaps, Spend(e)
  PROVE  Mishap'
  <1>1. e \in Events /\ used[e] \in Nat
    BY DEF TypeOK, Mishaps, Events
  <1>2. used'[e] = used[e] + 1
    BY <1>1 DEF Spend, TypeOK
  <1> QED BY <1>1, <1>2 DEF Mishap

\* A process that leaves changes its own step only; so does one that moves on.
LEMMA LeaveUser ==
  ASSUME TypeOK, Uneventful, NEW p \in Pids, NEW ok, Leave(p, ok)
  PROVE  /\ svc' = svc
         /\ \A q \in Pids : proc'[q].by = "user"
         /\ \A q \in Pids : proc'[q].pc = IF q = p THEN "free" ELSE proc[q].pc
  <1>1. svc' = svc
    BY NoService DEF Leave
  <1>2. \A q \in Pids : proc'[q] = IF q = p THEN Idle ELSE proc[q]
    BY DEF Leave, TypeOK
  <1> QED BY <1>1, <1>2 DEF Idle, Uneventful

LEMMA GotoUser ==
  ASSUME TypeOK, Uneventful, NEW p \in Pids, NEW s, Goto(p, s)
  PROVE  /\ \A q \in Pids : proc'[q].by = "user"
         /\ \A q \in Pids : proc'[q].pc = IF q = p THEN s ELSE proc[q].pc
  BY DEF TypeOK, Goto, Process, Uneventful

LEMMA TerminatedUser ==
  ASSUME TypeOK, Uneventful, NEW r \in Pids
  PROVE  \A q \in Pids : /\ Terminated(r)[q].by = "user"
                         /\ Terminated(r)[q].pc \in {proc[q].pc, "free"}
                         /\ q # r => Terminated(r)[q].pc = proc[q].pc
  BY DEF TypeOK, Terminated, Process, Idle, Uneventful

LEMMA StartStepUneventful ==
  ASSUME OneAtATimeUse, TypeOK, OneAtATime, Uneventful, ~ Mishap', NEW p \in Pids,
         StartStep(p)
  PROVE  Uneventful'
  <1>1. CASE RefuseStart(p)
    BY <1>1, LeaveUser, UneventfulStep
    DEF RefuseStart, At, machine, Busy, Pending, CommandSteps, StopSteps, CleanSteps
  <1>2. CASE AdmitStart(p)
    <2>1. PICK s \in {"install", "prompt"} : Goto(p, s)
      BY <1>2 DEF AdmitStart
    <2> QED BY <1>2, <2>1, GotoUser, UneventfulStep
            DEF AdmitStart, At, machine, Busy, Pending, CommandSteps
  <1>3. CASE InstallAndEnable(p)
    <2>1. /\ \A q \in Pids : proc'[q].by = "user"
          /\ \A q \in Pids : proc'[q].pc = IF q = p THEN "capture" ELSE proc[q].pc
      BY <1>3, GotoUser DEF InstallAndEnable
    <2>2. proc[p].pc \in Busy /\ power' = power /\ svc' = svc
      BY <1>3 DEF InstallAndEnable, At, machine, Busy, CommandSteps
    <2>3. proc'[p].pc \in Pending
      BY <2>1 DEF Pending
    <2> QED BY <2>1, <2>2, <2>3 DEF Uneventful
  <1>4. CASE InstallFails(p) \/ DaemonizeFails(p)
    BY <1>4, SpentMishap DEF InstallFails, DaemonizeFails, Mishaps
  <1>5. CASE CaptureCurrentState(p) \/ Save(p) \/ SaveOnFullDisk(p)
    <2>1. /\ proc[p].pc \in Pending /\ proc'[p].pc \in Pending
          /\ \A q \in Pids : proc'[q].by = proc[q].by
          /\ \A q \in Pids : q # p => proc'[q].pc = proc[q].pc
      BY <1>5
      DEF CaptureCurrentState, Save, SaveOnFullDisk, At, TypeOK, Process, Pending
    <2>2. Pending \subseteq Busy
      BY DEF Pending, Busy, CommandSteps
    <2> QED BY <1>5, <2>1, <2>2, UneventfulStep
            DEF CaptureCurrentState, Save, SaveOnFullDisk, machine, Uneventful
  <1>6. CASE SaveFails(p)
    BY <1>6 DEF SaveFails, At, OneAtATime, NeedsDirectory, Owner, CommandSteps
  <1>7. ASSUME NEW o \in Pids, Daemonize(p, o) PROVE Uneventful'
    <2>1. /\ proc[p].pc = "launch" /\ proc[o].pc = "free" /\ p # o
          /\ power' = power /\ svc' = svc /\ wanted'
      BY <1>7 DEF Daemonize, At, machine
    <2>2. /\ \A q \in Pids : proc'[q].pc = IF q = p THEN "free"
                                          ELSE IF q = o THEN "publish" ELSE proc[q].pc
          /\ \A q \in Pids : proc'[q].by = "user"
      BY <1>7, <2>1 DEF Daemonize, TypeOK, Process, Idle, Uneventful
    <2>3. proc[p].pc \in Busy
      BY <2>1 DEF Busy, CommandSteps
    <2>4. \A q \in Pids : proc'[q].pc \in Busy => q = o
      BY <2>1, <2>2, <2>3 DEF Uneventful, Busy, CommandSteps, StopSteps, CleanSteps
    <2> QED BY <2>1, <2>2, <2>4 DEF Uneventful
  <1>8. CASE RunInForeground(p)
    BY <1>8 DEF RunInForeground, Uneventful
  <1> QED BY <1>1, <1>2, <1>3, <1>4, <1>5, <1>6, <1>7, <1>8 DEF StartStep

LEMMA DaemonStepUneventful ==
  ASSUME TypeOK, OneAtATime, Uneventful, NEW p \in Pids, DaemonStep(p)
  PROVE  Uneventful'
  <1>0. "free" \notin Busy /\ \A s \in DaemonSteps \ {"publish"} : s \notin Busy
    BY DEF DaemonSteps, Busy, CommandSteps, StopSteps, CleanSteps
  <1>1. CASE \/ WritePidFile(p) \/ WritePidOnFullDisk(p) \/ InstallHandlers(p)
             \/ ApplyInitialState(p) \/ LeaveLoop(p) \/ LoadNothing(p)
             \/ WritePidFails(p) /\ Goto(p, "arm")
    <2>1. PICK s \in DaemonSteps \ {"publish"} : Goto(p, s)
      BY <1>1
      DEF WritePidFile, WritePidOnFullDisk, InstallHandlers, ApplyInitialState, LeaveLoop,
          LoadNothing, DaemonSteps
    <2>2. /\ proc[p].pc \notin Pending
          /\ power' = power /\ unit' = unit /\ wanted' = wanted
      BY <1>1
      DEF WritePidFile, WritePidOnFullDisk, InstallHandlers, ApplyInitialState, LeaveLoop,
          LoadNothing, WritePidFails, At, Pending, machine
    <2>3. svc' = svc
      <3>1. CASE WritePidFails(p)
        BY <3>1, LeaveUser DEF WritePidFails
      <3> QED BY <1>1, <3>1
              DEF WritePidFile, WritePidOnFullDisk, InstallHandlers, ApplyInitialState,
                  LeaveLoop, LoadNothing
    <2>4. /\ \A q \in Pids : proc'[q].by = "user"
          /\ \A q \in Pids : proc'[q].pc = IF q = p THEN s ELSE proc[q].pc
      BY <2>1, GotoUser
    <2>5. \A q \in Pids : /\ proc'[q].pc \in Busy => proc[q].pc \in Busy
                          /\ proc[q].pc \in Pending => proc'[q].pc \in Pending
      BY <1>0, <2>2, <2>4
    <2> QED BY <2>2, <2>3, <2>4, <2>5, UneventfulStep
  <1>2. CASE \/ WritePidFails(p) /\ Leave(p, FALSE)
             \/ LoadThrows(p) \/ RemovePidFile(p) \/ RemovePidFails(p)
    <2>1. PICK ok \in BOOLEAN : Leave(p, ok)
      BY <1>2 DEF LoadThrows, RemovePidFile, RemovePidFails
    <2>2. /\ proc[p].pc \notin Pending
          /\ power' = power /\ unit' = unit /\ wanted' = wanted
      BY <1>2 DEF WritePidFails, LoadThrows, RemovePidFile, RemovePidFails, At, Pending, machine
    <2>3. /\ svc' = svc
          /\ \A q \in Pids : proc'[q].by = "user"
          /\ \A q \in Pids : proc'[q].pc = IF q = p THEN "free" ELSE proc[q].pc
      BY <2>1, LeaveUser
    <2>4. \A q \in Pids : /\ proc'[q].pc \in Busy => proc[q].pc \in Busy
                          /\ proc[q].pc \in Pending => proc'[q].pc \in Pending
      BY <1>0, <2>2, <2>3
    <2> QED BY <2>2, <2>3, <2>4, UneventfulStep
  <1>3. CASE Tick(p)
    BY <1>3, UneventfulStep DEF Tick, Uneventful
  <1>4. ASSUME NEW r \in Pids, TickUnderPressure(p, r) PROVE Uneventful'
    <2>1. \A q \in Pids : proc[q].pc \notin Pending
      BY <1>4
      DEF TickUnderPressure, At, OneAtATime, OneOwner, Owner, Pending, CommandSteps,
          DaemonSteps
    <2>2. \A q \in Pids : /\ proc'[q].by = "user"
                          /\ proc'[q].pc \in {proc[q].pc, "free"}
      BY <1>4, TerminatedUser DEF TickUnderPressure
    <2>3. svc' = svc /\ power' = power /\ unit' = unit /\ wanted' = wanted
      BY <1>4, NoService DEF TickUnderPressure
    <2>4. \A q \in Pids : proc'[q].pc \in Busy => proc[q].pc \in Busy
      BY <1>0, <2>2
    <2> QED BY <2>1, <2>2, <2>3, <2>4, UneventfulStep
  <1>5. CASE Load(p) \/ RestoreKnob(p)
    <2>1. /\ proc[p].pc \notin Pending /\ proc'[p].pc \in DaemonSteps \ {"publish"}
          /\ \A q \in Pids : proc'[q].by = proc[q].by
          /\ \A q \in Pids : q # p => proc'[q].pc = proc[q].pc
      BY <1>5 DEF Load, RestoreKnob, At, TypeOK, Process, Pending, DaemonSteps
    <2>2. \A q \in Pids : /\ proc'[q].pc \in Busy => proc[q].pc \in Busy
                          /\ proc[q].pc \in Pending => proc'[q].pc \in Pending
      BY <1>0, <2>1
    <2>3. \A q \in Pids : proc'[q].by = "user"
      BY <2>1 DEF Uneventful
    <2> QED BY <1>5, <2>2, <2>3, UneventfulStep DEF Load, RestoreKnob, machine
  <1>6. WritePidFails(p) => Goto(p, "arm") \/ Leave(p, FALSE)
    BY DEF WritePidFails
  <1> QED BY <1>1, <1>2, <1>3, <1>4, <1>5, <1>6 DEF DaemonStep

LEMMA CommandStepUneventful ==
  ASSUME OneAtATimeUse, TypeOK, Uneventful, ~ Mishap', NEW p \in Pids,
         StopStep(p) \/ CleanStep(p) \/ UserStep(p)
  PROVE  Uneventful'
  <1>0. "free" \notin Busy /\ StopSteps \cap Pending = {} /\ CleanSteps \cap Pending = {}
    BY DEF Busy, Pending, CommandSteps, StopSteps, CleanSteps
  <1>1. CASE RefuseStop(p) \/ RefuseClean(p) \/ Decline(p)
    <2>1. PICK ok \in BOOLEAN : Leave(p, ok)
      BY <1>1 DEF RefuseStop, RefuseClean, Decline
    <2>2. proc[p].pc \notin Pending
      BY <1>1 DEF RefuseStop, RefuseClean, Decline, At, Pending
    <2> QED BY <1>0, <1>1, <2>1, <2>2, LeaveUser, UneventfulStep
            DEF RefuseStop, RefuseClean, Decline, machine
  <1>2. CASE Disable(p) \/ RemoveUnit(p)
    <2>1. Leave(p, TRUE) /\ unit' # "enabled" /\ power' = power
      BY <1>2 DEF Disable, RemoveUnit, AfterDisable, machine
    <2> QED BY <1>0, <2>1, LeaveUser, UneventfulStep
  <1>3. CASE DisableFails(p) \/ RemoveDirectoryFails(p) \/ RemoveUnitFails(p)
    BY <1>3, SpentMishap DEF DisableFails, RemoveDirectoryFails, RemoveUnitFails, Mishaps
  <1>4. CASE AdmitStop(p) \/ AdmitClean(p) \/ RemoveStateDirectory(p) \/ Confirm(p)
    <2>1. PICK s \in {"stop_signal", "clean_remove", "clean_unit", "install"} : Goto(p, s)
      BY <1>4 DEF AdmitStop, AdmitClean, RemoveStateDirectory, Confirm
    <2>2. proc[p].pc \in Busy \ Pending
      BY <1>4
      DEF AdmitStop, AdmitClean, RemoveStateDirectory, Confirm, At, Busy, Pending,
          CommandSteps, StopSteps, CleanSteps
    <2>3. /\ power' = power /\ svc' = svc /\ unit' = unit /\ wanted' = wanted
      BY <1>4 DEF AdmitStop, AdmitClean, RemoveStateDirectory, Confirm, machine
    <2> QED BY <2>1, <2>2, <2>3, GotoUser, UneventfulStep
  <1>5. CASE SendStopSignal(p)
    <2>1. pidFile \in Pids /\ proc[p].pc = "stop_signal"
      BY <1>5 DEF SendStopSignal, IsRunning, At, TypeOK
    <2>2. \A q \in Pids : proc[q].pc \notin Pending
      BY <2>1 DEF Uneventful, Busy, Pending, CommandSteps, StopSteps
    <2>3. svc' = svc /\ power' = power /\ unit' = unit /\ wanted' = wanted
      BY <1>5, <2>1, NoService DEF SendStopSignal, machine
    <2>4. \A q \in Pids : /\ proc'[q].by = "user"
                          /\ proc'[q].pc \in Busy => proc[q].pc \in Busy
      <3>1. \A q \in Pids : /\ Terminated(pidFile)[q].by = "user"
                            /\ Terminated(pidFile)[q].pc \in {proc[q].pc, "free"}
        BY <2>1, TerminatedUser
      <3>2. CASE pidFile = p
        BY <1>0, <1>5, <3>1, <3>2 DEF SendStopSignal
      <3>3. CASE pidFile # p
        <4>1. proc' = [Terminated(pidFile) EXCEPT ![p].pc = "stop_disable"]
          BY <1>5, <3>3 DEF SendStopSignal
        <4>2. Terminated(pidFile) \in [Pids -> Process]
          BY <2>1, TerminatedOK, TypeParts DEF ProcOK
        <4>3. /\ proc'[p].by = Terminated(pidFile)[p].by
              /\ \A q \in Pids : q # p => proc'[q] = Terminated(pidFile)[q]
          BY <4>1, <4>2 DEF Process
        <4>4. proc[p].pc \in Busy
          BY <2>1 DEF Busy, StopSteps
        <4> QED BY <1>0, <3>1, <4>3, <4>4
      <3> QED BY <3>2, <3>3
    <2> QED BY <2>2, <2>3, <2>4, UneventfulStep
  <1>6. ASSUME NEW command \in {"start", "stop", "clean"}, Issue(p, command)
        PROVE  Uneventful'
    <2>1. PICK s \in {"check", "stop_check", "clean_check"} : Goto(p, s)
      BY <1>6 DEF Issue
    <2>2. \A q \in Pids : proc[q].pc \notin Busy
      BY <1>6 DEF Issue, OneAtATimeUse, InFlight, Busy
    <2>3. \A q \in Pids : proc[q].pc \notin Pending
      BY <2>2 DEF Busy, Pending, CommandSteps
    <2>4. /\ power' = power /\ svc' = svc /\ unit' = unit /\ wanted' = wanted
      BY <1>6 DEF Issue
    <2> QED BY <2>1, <2>2, <2>3, <2>4, GotoUser DEF Uneventful
  <1> QED BY <1>1, <1>2, <1>3, <1>4, <1>5, <1>6 DEF StopStep, CleanStep, UserStep

LEMMA MachineStepUneventful ==
  ASSUME TypeOK, Uneventful, ~ Mishap', MachineStep
  PROVE  Uneventful'
  <1>1. ASSUME \/ \E q \in Pids : SpawnExecStop(q)
               \/ SystemdTerm
               \/ \E r \in Pids : ShutdownTerm(r)
               \/ PowerOff \/ Boot
        PROVE  FALSE
    BY <1>1 DEF SpawnExecStop, SystemdTerm, ShutdownTerm, PowerOff, Boot, Uneventful
  <1>2. ASSUME BeginShutdown \/ PowerLoss \/ \E p \in Pids : Crash(p) PROVE FALSE
    BY <1>2, SpentMishap DEF BeginShutdown, PowerLoss, Crash, Mishaps
  <1>3. ASSUME NEW p \in Pids, ForeignArrives(p) PROVE Uneventful'
    <2>1. "foreign" \notin Busy /\ "free" \notin Pending
      BY DEF Busy, Pending, CommandSteps, StopSteps, CleanSteps
    <2>2. /\ \A q \in Pids : proc'[q].by = "user"
          /\ \A q \in Pids : proc'[q].pc = IF q = p THEN "foreign" ELSE proc[q].pc
      BY <1>3, GotoUser DEF ForeignArrives
    <2>3. \A q \in Pids : /\ proc'[q].pc \in Busy => proc[q].pc \in Busy
                          /\ proc[q].pc \in Pending => proc'[q].pc \in Pending
      BY <1>3, <2>1, <2>2 DEF ForeignArrives, At
    <2>4. power' = power /\ svc' = svc /\ unit' = unit /\ wanted' = wanted
      BY <1>3 DEF ForeignArrives, machine
    <2> QED BY <2>2, <2>3, <2>4, UneventfulStep
  <1> QED BY <1>1, <1>2, <1>3 DEF MachineStep

\* An event is counted when it happens, and only then.
LEMMA UsedStep ==
  ASSUME [Next]_vars
  PROVE  used' = used \/ \E e \in Events : Spend(e)
  <1>1. ASSUME NEW p \in Pids, StartStep(p) \/ DaemonStep(p)
        PROVE  used' = used \/ \E e \in Events : Spend(e)
    BY <1>1
    DEF StartStep, RefuseStart, AdmitStart, InstallAndEnable, InstallFails,
        CaptureCurrentState, Save, SaveOnFullDisk, SaveFails, Daemonize,
        DaemonizeFails, RunInForeground,
        DaemonStep, WritePidFile, WritePidOnFullDisk, WritePidFails,
        InstallHandlers, ApplyInitialState, Tick, TickUnderPressure, LeaveLoop,
        LoadNothing, Load, LoadThrows, RestoreKnob, RemovePidFile, RemovePidFails, Events
  <1>2. ASSUME NEW p \in Pids, StopStep(p) \/ CleanStep(p) \/ UserStep(p)
        PROVE  used' = used \/ \E e \in Events : Spend(e)
    BY <1>2
    DEF StopStep, CleanStep, UserStep, RefuseStop, AdmitStop, SendStopSignal, Disable,
        DisableFails, RefuseClean, AdmitClean, RemoveStateDirectory,
        RemoveDirectoryFails, RemoveUnit, RemoveUnitFails, Issue, Confirm, Decline, Events
  <1>3. ASSUME MachineStep PROVE used' = used \/ \E e \in Events : Spend(e)
    BY <1>3
    DEF MachineStep, SpawnExecStop, SystemdTerm, BeginShutdown, ShutdownTerm, PowerOff,
        PowerLoss, Boot, Crash, ForeignArrives, Events
  <1> QED BY <1>1, <1>2, <1>3 DEF Next, vars

\* Nothing that has happened is forgotten: the counters never decrease.
LEMMA UsedGrows ==
  ASSUME TypeOK, [Next]_vars, NEW e \in Events, used[e] > 0
  PROVE  used'[e] > 0
  <1>1. CASE used' = used
    BY <1>1
  <1>2. ASSUME NEW i \in Events, Spend(i) PROVE used'[e] > 0
    <2>1. used'[e] = IF e = i THEN used[e] + 1 ELSE used[e]
      BY <1>2 DEF Spend, TypeOK
    <2>2. used[e] \in Nat
      BY DEF TypeOK
    <2> QED BY <2>1, <2>2
  <1> QED BY <1>1, <1>2, UsedStep

LEMMA MishapStays ==
  ASSUME TypeOK, [Next]_vars, Mishap
  PROVE  Mishap'
  <1>1. PICK e \in Mishaps : used[e] > 0
    BY DEF Mishap
  <1>2. used'[e] > 0
    BY <1>1, UsedGrows DEF Mishaps, Events
  <1> QED BY <1>2 DEF Mishap

LEMMA UneventfulInit == Init => Uneventful
  BY DEF Init, Uneventful, Idle, Busy, CommandSteps, StopSteps, CleanSteps

(* Once the user has stopped or cleaned, the unit is not left enabled,     *)
(* unless a step has failed, a process has crashed or the machine went     *)
(* down while a command was under way.                                     *)
THEOREM UnwantedStaysOffHolds ==
  ASSUME OneAtATimeUse
  PROVE  Spec => []UnwantedStaysOff
  <1> DEFINE Inv == Mishap \/ Uneventful
  <1>1. Init => Inv
    BY UneventfulInit
  <1>2. TypeOK /\ OneAtATime /\ Inv /\ [Next]_vars => Inv'
    <2> SUFFICES ASSUME TypeOK, OneAtATime, Inv, [Next]_vars, ~ Mishap'
                 PROVE  Uneventful'
      OBVIOUS
    <2>1. Uneventful
      BY MishapStays
    <2>2. CASE UNCHANGED vars
      BY <2>1, <2>2 DEF vars, Uneventful
    <2>3. CASE Next
      BY <2>1, <2>3, StartStepUneventful, DaemonStepUneventful, CommandStepUneventful,
         MachineStepUneventful DEF Next
    <2> QED BY <2>2, <2>3
  <1>3. Inv => UnwantedStaysOff
    <2>1. Mishap => UnwantedStaysOff
      BY DEF Mishap, Mishaps, UnwantedStaysOff
    <2>2. Uneventful => UnwantedStaysOff
      BY DEF Uneventful, UnwantedStaysOff, InFlight, Pending, CommandSteps
    <2> QED BY <2>1, <2>2
  <1> QED BY <1>1, <1>2, <1>3, TypeCorrect, OneAtATimeHolds, PTL DEF Spec

-----------------------------------------------------------------------------
(* A crash alone loses nothing.                                            *)

\* What the owner has in memory is what it captured or loaded; and a setting
\* that the backup does not have at its original value is not at it either, so
\* tuning and restoring lose no value that was not lost before.
Traced ==
  \A p \in Pids :
    /\ proc[p].pc \in Backed =>
         /\ backup # NoBackup
         /\ \A k \in Knobs : backup[k] = "orig" \/ settings[k] # "orig"
    /\ proc[p].pc = "save" => proc[p].mem = settings
    /\ proc[p].pc = "restore" => proc[p].mem = backup

\* A process that neither comes to rely on the backup nor changes its memory.
Settled(q) ==
  /\ proc'[q].pc \in Backed => proc[q].pc \in Backed
  /\ proc'[q].pc \in {"save", "restore"} =>
       proc'[q].pc = proc[q].pc /\ proc'[q].mem = proc[q].mem

LEMMA SettledStep ==
  ASSUME Traced, \A q \in Pids : Settled(q), settings' = settings, backup' = backup
  PROVE  Traced'
  BY DEF Traced, Settled

LEMMA SteadyIsSettled ==
  ASSUME NEW q, Steady(q)
  PROVE  Settled(q)
  BY DEF Steady, Settled

LEMMA GotoSettled ==
  ASSUME TypeOK, NEW p \in Pids, NEW s \in PCs, Goto(p, s),
         s \in Backed => proc[p].pc \in Backed, s \notin {"save", "restore"}
  PROVE  \A q \in Pids : Settled(q)
  BY DEF TypeOK, Goto, Process, Settled

LEMMA LeaveSettled ==
  ASSUME TypeOK, NEW p \in Pids, NEW ok, Leave(p, ok)
  PROVE  \A q \in Pids : Settled(q)
  BY TypeParts, LeaveOK DEF Settled, Idle, Backed, DaemonSteps

LEMMA TerminatedSettled ==
  ASSUME TypeOK, NEW r \in Pids, proc' = Terminated(r)
  PROVE  \A q \in Pids : Settled(q)
  BY TerminatedIsSteady, SteadyIsSettled

LEMMA StartStepTraced ==
  ASSUME OneAtATimeUse, TypeOK, OneAtATime, Traced, NEW p \in Pids, StartStep(p)
  PROVE  Traced'
  <1>1. CASE RefuseStart(p) \/ InstallFails(p) \/ SaveFails(p) \/ DaemonizeFails(p)
    BY <1>1, LeaveSettled, SettledStep
    DEF RefuseStart, InstallFails, SaveFails, DaemonizeFails, files, machine
  <1>2. CASE AdmitStart(p) \/ InstallAndEnable(p) \/ RunInForeground(p)
    <2>1. PICK s \in {"prompt", "install", "capture", "publish"} :
            Goto(p, s) /\ (s \in Backed => proc[p].pc \in Backed)
      BY <1>2 DEF AdmitStart, InstallAndEnable, RunInForeground, At, Backed, DaemonSteps
    <2>2. \A q \in Pids : Settled(q)
      BY <2>1, GotoSettled DEF PCs, CommandSteps, DaemonSteps
    <2> QED BY <1>2, <2>2, SettledStep
            DEF AdmitStart, InstallAndEnable, RunInForeground, files, machine
  <1>3. CASE CaptureCurrentState(p)
    <2>1. proc'[p].pc = "save" /\ proc'[p].mem = settings
      BY <1>3 DEF CaptureCurrentState, TypeOK, Process
    <2>2. \A q \in Pids : q # p => proc'[q] = proc[q]
      BY <1>3 DEF CaptureCurrentState, TypeOK
    <2>3. settings' = settings /\ backup' = backup
      BY <1>3 DEF CaptureCurrentState, machine, files
    <2> QED BY <2>1, <2>2, <2>3 DEF Traced, Backed, DaemonSteps
  <1>4. CASE Save(p)
    <2>1. proc'[p].pc = "launch" /\ \A q \in Pids : q # p => proc'[q] = proc[q]
      BY <1>4 DEF Save, TypeOK, Process
    <2>2. \A q \in Pids : q # p => proc[q].pc \notin Owner
      BY <1>4 DEF Save, At, OneAtATime, OneOwner, Owner, CommandSteps
    <2>3. settings' = settings /\ backup' = settings
      BY <1>4 DEF Save, At, machine, Traced
    <2>4. settings # NoBackup
      BY ContentsType DEF TypeOK
    <2> QED BY <2>1, <2>2, <2>3, <2>4 DEF Traced, Backed, Owner, CommandSteps, DaemonSteps
  <1>5. CASE SaveOnFullDisk(p)
    BY <1>5, NeverSpent DEF SaveOnFullDisk, OneAtATimeUse, Events
  <1>6. ASSUME NEW o \in Pids, Daemonize(p, o) PROVE Traced'
    <2>1. proc[p].pc \in Backed
      BY <1>6 DEF Daemonize, At, Backed
    <2>2. \A q \in Pids : proc'[q].pc \in {"free", "publish"} \/ proc'[q] = proc[q]
      BY <1>6 DEF Daemonize, At, TypeOK, Process, Idle
    <2>3. settings' = settings /\ backup' = backup
      BY <1>6 DEF Daemonize, machine, files
    <2> QED BY <2>1, <2>2, <2>3 DEF Traced, Backed, DaemonSteps
  <1> QED BY <1>1, <1>2, <1>3, <1>4, <1>5, <1>6 DEF StartStep

\* What the owner writes into the kernel: tuned values, or those it loaded.
Writes(p) ==
  \/ ApplyInitialState(p)
  \/ Tick(p)
  \/ \E r \in Pids : TickUnderPressure(p, r)
  \/ RestoreKnob(p)

\* It writes with the backup at hand, and an original value only from there.
LEMMA WritesTraced ==
  ASSUME TypeOK, Traced, NEW p \in Pids, Writes(p)
  PROVE  /\ proc[p].pc \in DaemonSteps /\ backup' = backup
         /\ \A k \in Knobs : \/ settings'[k] = settings[k]
                             \/ settings'[k] = "tuned"
                             \/ settings'[k] = backup[k]
  <1>1. ASSUME NEW S \in SUBSET Knobs, Tune(S)
        PROVE  \A k \in Knobs : settings'[k] \in {settings[k], "tuned"}
    BY <1>1 DEF Tune
  <1>2. CASE ApplyInitialState(p)
    BY <1>1, <1>2 DEF ApplyInitialState, At, DaemonSteps, files
  <1>3. CASE Tick(p)
    BY <1>1, <1>3 DEF Tick, At, DaemonSteps, files
  <1>4. ASSUME NEW r \in Pids, TickUnderPressure(p, r)
        PROVE  /\ proc[p].pc \in DaemonSteps /\ backup' = backup
               /\ \A k \in Knobs : settings'[k] \in {settings[k], "tuned"}
    BY <1>1, <1>4 DEF TickUnderPressure, At, DaemonSteps, files
  <1>5. CASE RestoreKnob(p)
    <2>1. proc[p].pc = "restore" /\ proc[p].mem = backup /\ backup' = backup
      BY <1>5 DEF RestoreKnob, At, Traced, files
    <2>2. settings' = [settings EXCEPT ![proc[p].at] = IF backup[proc[p].at] = "skip"
                                                         THEN @ ELSE backup[proc[p].at]]
      BY <1>5, <2>1 DEF RestoreKnob
    <2>3. \A k \in Knobs : settings'[k] \in {settings[k], backup[k]}
      BY <2>2 DEF TypeOK
    <2> QED BY <2>1, <2>3 DEF DaemonSteps
  <1> QED BY <1>2, <1>3, <1>4, <1>5 DEF Writes

LEMMA DaemonStepTraced ==
  ASSUME OneAtATimeUse, TypeOK, OneAtATime, Traced, NEW p \in Pids, DaemonStep(p)
  PROVE  Traced'
  <1>1. CASE WritePidFile(p) \/ InstallHandlers(p) \/ LeaveLoop(p) \/ LoadNothing(p)
    <2>1. PICK s \in {"arm", "apply", "load", "unpublish"} :
            Goto(p, s) /\ proc[p].pc \in Backed
      BY <1>1
      DEF WritePidFile, InstallHandlers, LeaveLoop, LoadNothing, At, Backed, DaemonSteps
    <2>2. \A q \in Pids : Settled(q)
      BY <2>1, GotoSettled DEF PCs, DaemonSteps
    <2> QED BY <1>1, <2>2, SettledStep
            DEF WritePidFile, InstallHandlers, LeaveLoop, LoadNothing, files, machine
  <1>2. CASE WritePidOnFullDisk(p)
    BY <1>2, NeverSpent DEF WritePidOnFullDisk, OneAtATimeUse, Events
  <1>3. CASE WritePidFails(p)
    BY <1>3 DEF WritePidFails, At, OneAtATime, NeedsDirectory, Owner, DaemonSteps
  <1>4. CASE Writes(p)
    <2>1. /\ proc[p].pc \in DaemonSteps /\ backup' = backup
          /\ \A k \in Knobs : \/ settings'[k] = settings[k]
                              \/ settings'[k] = "tuned"
                              \/ settings'[k] = backup[k]
      BY <1>4, WritesTraced
    <2>2. /\ backup # NoBackup
          /\ \A k \in Knobs : backup[k] = "orig" \/ settings[k] # "orig"
      BY <2>1 DEF Traced, Backed
    <2>3. \A k \in Knobs : backup'[k] = "orig" \/ settings'[k] # "orig"
      BY <2>1, <2>2
    <2>4. \A q \in Pids : proc[q].pc # "save"
      BY <2>1 DEF OneAtATime, OneOwner, Owner, CommandSteps, DaemonSteps
    <2>5. \A q \in Pids : Settled(q)
      <3>1. CASE ApplyInitialState(p)
        BY <3>1, GotoSettled
        DEF ApplyInitialState, At, PCs, Backed, DaemonSteps
      <3>2. CASE Tick(p)
        BY <3>2 DEF Tick, Settled
      <3>3. ASSUME NEW r \in Pids, TickUnderPressure(p, r)
            PROVE  \A q \in Pids : Settled(q)
        BY <3>3, TerminatedSettled DEF TickUnderPressure
      <3>4. CASE RestoreKnob(p)
        <4>1. /\ proc[p].pc = "restore"
              /\ \/ proc'[p].pc = "unpublish"
                 \/ proc'[p].pc = "restore" /\ proc'[p].mem = proc[p].mem
              /\ \A q \in Pids : q # p => proc'[q] = proc[q]
          BY <3>4 DEF RestoreKnob, At, TypeOK, Process
        <4> QED BY <4>1 DEF Settled, Backed, DaemonSteps
      <3> QED BY <1>4, <3>1, <3>2, <3>3, <3>4 DEF Writes
    <2> QED BY <2>1, <2>2, <2>3, <2>4, <2>5 DEF Traced, Settled
  <1>5. CASE Load(p)
    <2>1. /\ proc[p].pc = "load" /\ proc'[p].pc = "restore" /\ proc'[p].mem = backup
          /\ \A q \in Pids : q # p => proc'[q] = proc[q]
      BY <1>5 DEF Load, At, TypeOK, Process
    <2>2. backup' = backup /\ settings' = settings
      BY <1>5 DEF Load, files, machine
    <2> QED BY <2>1, <2>2 DEF Traced, Backed, DaemonSteps
  <1>6. CASE LoadThrows(p) \/ RemovePidFile(p) \/ RemovePidFails(p)
    BY <1>6, LeaveSettled, SettledStep DEF LoadThrows, RemovePidFile, RemovePidFails, files, machine
  <1> QED BY <1>1, <1>2, <1>3, <1>4, <1>5, <1>6 DEF DaemonStep, Writes

LEMMA CommandStepTraced ==
  ASSUME TypeOK, OneAtATime, Traced, NEW p \in Pids,
         StopStep(p) \/ CleanStep(p) \/ UserStep(p)
  PROVE  Traced'
  <1>1. CASE RefuseStop(p) \/ Disable(p) \/ DisableFails(p) \/ RefuseClean(p)
             \/ RemoveUnit(p) \/ RemoveUnitFails(p) \/ Decline(p)
    BY <1>1, LeaveSettled, SettledStep
    DEF RefuseStop, Disable, DisableFails, RefuseClean, RemoveUnit, RemoveUnitFails,
        Decline, files, machine
  <1>2. ASSUME \/ AdmitStop(p) \/ AdmitClean(p) \/ Confirm(p)
               \/ \E command \in {"start", "stop", "clean"} : Issue(p, command)
        PROVE  Traced'
    <2>1. PICK s \in {"stop_signal", "clean_remove", "install", "check", "stop_check",
                      "clean_check"} : Goto(p, s)
      BY <1>2 DEF AdmitStop, AdmitClean, Confirm, Issue
    <2>2. \A q \in Pids : Settled(q)
      BY <2>1, GotoSettled DEF PCs, CommandSteps, StopSteps, CleanSteps, Backed, DaemonSteps
    <2> QED BY <1>2, <2>2, SettledStep
            DEF AdmitStop, AdmitClean, Confirm, Issue, files, machine
  <1>3. CASE SendStopSignal(p)
    <2>1. pidFile \in Pids
      BY <1>3 DEF SendStopSignal, IsRunning, TypeOK
    <2>2. \A q \in Pids : Settled(q)
      <3>1. CASE pidFile = p
        BY <1>3, <2>1, <3>1, TerminatedSettled DEF SendStopSignal
      <3>2. CASE pidFile # p
        <4>1. Terminated(pidFile) \in [Pids -> Process]
          BY <2>1, TerminatedOK, TypeParts DEF ProcOK
        <4>2. proc' = [Terminated(pidFile) EXCEPT ![p].pc = "stop_disable"]
          BY <1>3, <3>2 DEF SendStopSignal
        <4>3. proc'[p].pc = "stop_disable"
          BY <4>1, <4>2 DEF Process
        <4>4. \A q \in Pids : q # p => proc'[q] = Terminated(pidFile)[q]
          BY <4>1, <4>2
        <4> QED BY <2>1, <4>3, <4>4, TerminatedSteady DEF Settled, Backed, DaemonSteps
      <3> QED BY <3>1, <3>2
    <2> QED BY <1>3, <2>2, SettledStep DEF SendStopSignal, files, machine
  <1>4. CASE RemoveStateDirectory(p) \/ RemoveDirectoryFails(p)
    <2>1. proc[p].pc = "clean_remove"
      BY <1>4 DEF RemoveStateDirectory, RemoveDirectoryFails, At
    <2>2. \A q \in Pids : proc[q].pc \notin Owner
      BY <2>1 DEF OneAtATime, OneOwner
    <2>3. \A q \in Pids : proc'[q].pc \in {proc[q].pc, "free", "clean_unit"}
      BY <1>4, GotoSteps, LeaveSteps DEF RemoveStateDirectory, RemoveDirectoryFails
    <2>4. \A q \in Pids : proc'[q].pc \notin Backed \cup {"save", "restore"}
      BY <2>2, <2>3 DEF Owner, Backed, CommandSteps, DaemonSteps
    <2> QED BY <2>4 DEF Traced
  <1> QED BY <1>1, <1>2, <1>3, <1>4 DEF StopStep, CleanStep, UserStep

LEMMA MachineStepTraced ==
  ASSUME TypeOK, Traced, MachineStep
  PROVE  Traced'
  <1>1. ASSUME NEW q \in Pids, NEW s \in {"check", "stop_check"}, At(q, "free"),
               proc' = [proc EXCEPT ![q].pc = s, ![q].by = "systemd"]
        PROVE  \A o \in Pids : Settled(o)
    <2>1. proc'[q].pc = s /\ \A o \in Pids : o # q => proc'[o] = proc[o]
      BY <1>1 DEF TypeOK, Process
    <2> QED BY <1>1, <2>1 DEF Settled, Backed, DaemonSteps
  <1>2. ASSUME NEW q \in Pids, SpawnExecStop(q) PROVE Traced'
    BY <1>1, <1>2, SettledStep DEF SpawnExecStop, files, machine
  <1>3. CASE SystemdTerm
    <2>1. CASE UNCHANGED proc
      BY <1>3, <2>1, SettledStep DEF SystemdTerm, Settled, files, machine
    <2>2. CASE \E r \in Pids : proc' = Terminated(r)
      BY <1>3, <2>2, TerminatedSettled, SettledStep DEF SystemdTerm, files, machine
    <2> QED BY <1>3, <2>1, <2>2 DEF SystemdTerm
  <1>4. CASE BeginShutdown
    BY <1>4, SettledStep DEF BeginShutdown, Settled, files
  <1>5. ASSUME NEW r \in Pids, ShutdownTerm(r) PROVE Traced'
    BY <1>5, TerminatedSettled, SettledStep DEF ShutdownTerm, files, machine
  <1>6. CASE PowerOff \/ PowerLoss
    <2>1. \A q \in Pids : proc'[q].pc = "free"
      BY <1>6 DEF PowerOff, PowerLoss, Restart, Idle
    <2> QED BY <2>1 DEF Traced, Backed, DaemonSteps
  <1>7. CASE Boot
    <2>1. CASE UNCHANGED proc
      BY <1>7, <2>1, SettledStep DEF Boot, Settled, files
    <2>2. CASE \E q \in Pids : /\ At(q, "free")
                               /\ proc' = [proc EXCEPT ![q].pc = "check",
                                                       ![q].by = "systemd"]
      BY <1>1, <1>7, <2>2, SettledStep DEF Boot, files
    <2> QED BY <1>7, <2>1, <2>2 DEF Boot
  <1>8. ASSUME NEW p \in Pids, Crash(p) PROVE Traced'
    BY <1>8, LeaveSettled, SettledStep DEF Crash, files, machine
  <1>9. ASSUME NEW p \in Pids, ForeignArrives(p) PROVE Traced'
    <2>1. \A q \in Pids : Settled(q)
      BY <1>9, GotoSettled DEF ForeignArrives, PCs, Backed, DaemonSteps
    <2> QED BY <1>9, <2>1, SettledStep DEF ForeignArrives, files, machine
  <1> QED BY <1>2, <1>3, <1>4, <1>5, <1>6, <1>7, <1>8, <1>9 DEF MachineStep

LEMMA TracedStep ==
  ASSUME OneAtATimeUse, TypeOK, OneAtATime, Traced, [Next]_vars
  PROVE  Traced'
  <1>1. CASE UNCHANGED vars
    BY <1>1 DEF vars, files, Traced
  <1>2. CASE Next
    BY <1>2, StartStepTraced, DaemonStepTraced, CommandStepTraced, MachineStepTraced
    DEF Next
  <1> QED BY <1>1, <1>2

\* The commands that change the backup.
Overwrites(p) == Save(p) \/ RemoveStateDirectory(p) \/ RemoveDirectoryFails(p)

\* Everything else leaves the backup alone, and the settings to the owner or to a
\* restart of the kernel.
LEMMA WhoWrites ==
  ASSUME OneAtATimeUse, TypeOK, [Next]_vars
  PROVE  \/ settings' = settings /\ backup' = backup
         \/ settings' = Original /\ backup' = backup
         \/ \E p \in Pids : Writes(p) \/ Overwrites(p)
  <1>1. CASE UNCHANGED vars
    BY <1>1 DEF vars, files
  <1>2. ASSUME NEW p \in Pids, StartStep(p)
        PROVE  Save(p) \/ (settings' = settings /\ backup' = backup)
    <2>1. ~ SaveOnFullDisk(p)
      BY NeverSpent DEF SaveOnFullDisk, OneAtATimeUse, Events
    <2> QED BY <1>2, <2>1
            DEF StartStep, machine, files, RefuseStart, AdmitStart, InstallAndEnable,
                InstallFails, CaptureCurrentState, SaveFails, Daemonize, DaemonizeFails,
                RunInForeground
  <1>3. ASSUME NEW p \in Pids, DaemonStep(p)
        PROVE  Writes(p) \/ (settings' = settings /\ backup' = backup)
    BY <1>3
    DEF DaemonStep, Writes, machine, files, WritePidFile, WritePidOnFullDisk,
        WritePidFails, InstallHandlers, LeaveLoop, LoadNothing, Load, LoadThrows,
        RemovePidFile, RemovePidFails
  <1>4. ASSUME NEW p \in Pids, StopStep(p) \/ CleanStep(p) \/ UserStep(p)
        PROVE  Overwrites(p) \/ (settings' = settings /\ backup' = backup)
    BY <1>4
    DEF StopStep, CleanStep, UserStep, Overwrites, machine, files, RefuseStop, AdmitStop,
        SendStopSignal, Disable, DisableFails, RefuseClean, AdmitClean, RemoveUnit,
        RemoveUnitFails, Issue, Confirm, Decline
  <1>5. ASSUME MachineStep
        PROVE  backup' = backup /\ settings' \in {settings, Original}
    BY <1>5
    DEF MachineStep, machine, files, SpawnExecStop, SystemdTerm, BeginShutdown,
        ShutdownTerm, PowerOff, PowerLoss, Restart, Boot, Crash, ForeignArrives
  <1> QED BY <1>1, <1>2, <1>3, <1>4, <1>5 DEF Next, Overwrites

\* As long as nothing has crashed the originals are kept.
Unharmed == used["crash"] = 0 => OriginalsKept

LEMMA UnharmedStep ==
  ASSUME OneAtATimeUse, SnapshotParses, TypeOK, OneAtATime, Unharmed, [Next]_vars
  PROVE  Unharmed'
  <1> SUFFICES ASSUME used'["crash"] = 0 PROVE OriginalsKept'
    BY DEF Unharmed
  <1>1. used["crash"] \in Nat /\ ~ used'["crash"] > 0
    BY DEF TypeOK, Events
  <1>2. ~ used["crash"] > 0
    BY <1>1, UsedGrows DEF Events
  <1>3. ASSUME NEW p \in Pids, Crash(p) PROVE FALSE
    <2>1. used'["crash"] = used["crash"] + 1
      BY <1>3 DEF Crash, Spend, TypeOK, Events
    <2> QED BY <1>1, <2>1
  <1>4. OriginalsKept
    BY <1>1, <1>2 DEF Unharmed
  <1> QED BY <1>3, <1>4, OriginalsStep

\* A step after which something is lost that was not lost before.
LEMMA LosingStep ==
  ASSUME OneAtATimeUse, TypeOK, OneAtATime, Traced, Unharmed, [Next]_vars,
         NothingLost, ~ NothingLost'
  PROVE  /\ used["crash"] > 0
         /\ \A p \in Pids : proc[p].pc \notin DaemonSteps
         /\ \E p \in Pids : /\ proc[p].pc \in {"save", "clean_remove"}
                            /\ proc'[p] # proc[p]
  <1>1. ~ (settings' = settings /\ backup' = backup)
    BY DEF NothingLost
  <1>2. settings' # Original
    BY DEF NothingLost, Original
  <1>3. ASSUME NEW p \in Pids, Writes(p) PROVE FALSE
    <2>1. /\ proc[p].pc \in DaemonSteps /\ backup' = backup
          /\ \A k \in Knobs : \/ settings'[k] = settings[k]
                              \/ settings'[k] = "tuned"
                              \/ settings'[k] = backup[k]
      BY <1>3, WritesTraced
    <2>2. /\ backup # NoBackup
          /\ \A k \in Knobs : backup[k] = "orig" \/ settings[k] # "orig"
      BY <2>1 DEF Traced, Backed
    <2>3. \A k \in Knobs : backup[k] = "orig"
      BY <2>2 DEF NothingLost
    <2> QED BY <2>1, <2>2, <2>3 DEF NothingLost
  <1>4. PICK p \in Pids : Overwrites(p)
    BY <1>1, <1>2, <1>3, WhoWrites
  <1>5. proc[p].pc \in {"save", "clean_remove"} /\ settings' = settings
    BY <1>4
    DEF Overwrites, Save, RemoveStateDirectory, RemoveDirectoryFails, At, machine
  <1>6. \A q \in Pids : proc[q].pc \notin DaemonSteps
    BY <1>5 DEF OneAtATime, OneOwner, Owner, CommandSteps, DaemonSteps
  <1>7. proc'[p].pc # proc[p].pc
    <2>1. CASE Save(p)
      BY <2>1 DEF Save, At, TypeOK, Process
    <2>2. CASE RemoveStateDirectory(p)
      BY <2>2, GotoSteps DEF RemoveStateDirectory, At
    <2>3. CASE RemoveDirectoryFails(p)
      BY <2>3, LeaveSteps DEF RemoveDirectoryFails, At
    <2> QED BY <1>4, <2>1, <2>2, <2>3 DEF Overwrites
  <1>8. settings # Original
    BY <1>2, <1>5
  <1>9. ~ OriginalsKept
    BY <1>6, <1>8 DEF OriginalsKept, Restored, DaemonSteps
  <1>10. used["crash"] > 0
    BY <1>9 DEF Unharmed, TypeOK, Events
  <1> QED BY <1>5, <1>6, <1>7, <1>10

(* Crashes alone lose nothing: as long as neither `start` nor `clean` is   *)
(* run after one, the backup has the original of every modified setting.   *)
THEOREM LostOnlyByCommandHolds ==
  ASSUME OneAtATimeUse, SnapshotParses
  PROVE  Spec => LostOnlyByCommand
  <1> DEFINE Inv == Traced /\ Unharmed
  <1>1. Init => Inv
    BY OriginalsInit DEF Init, Traced, Unharmed, Idle, Backed, DaemonSteps
  <1>2. TypeOK /\ OneAtATime /\ Inv /\ [Next]_vars => Inv'
    BY TracedStep, UnharmedStep
  <1>3. TypeOK /\ OneAtATime /\ Inv /\ [Next]_vars =>
          [NothingLost /\ ~ NothingLost' =>
             /\ used["crash"] > 0
             /\ \A p \in Pids : proc[p].pc \notin DaemonSteps
             /\ \E p \in Pids :
                  proc[p].pc \in {"save", "clean_remove"} /\ proc'[p] # proc[p]]_vars
    BY LosingStep
  <1> QED BY <1>1, <1>2, <1>3, TypeCorrect, OneAtATimeHolds, PTL
          DEF Spec, LostOnlyByCommand

=============================================================================
