--------------------------- MODULE LifecycleProofs ---------------------------
(***************************************************************************)
(* Theorems about Lifecycle, for every set of process ids, every number of *)
(* knobs and every bound on the outside events.                            *)
(***************************************************************************)
EXTENDS Lifecycle, TLAPS

(* What a process record may hold at a step; the last part of TypeOK.      *)
RecordOK(r) ==
  /\ r.stop => r.pc \in Armed
  /\ r.mem # NoBackup <=> r.pc \in {"save", "restore"}
  /\ r.at <= NumKnobs

\* The part of TypeOK about processes, for any value of proc.
ProcOK(P) ==
  /\ P \in [Pids -> Process]
  /\ \A p \in Pids : RecordOK(P[p])

-----------------------------------------------------------------------------
(* The ways an action changes proc.                                        *)

\* An idle process is a process.
LEMMA IdleOK == Idle \in Process /\ RecordOK(Idle)
  BY ConstantsAssumption
  DEF Idle, Process, RecordOK, PCs, CommandSteps, DaemonSteps, StopSteps, CleanSteps, Armed

\* Whatever one good record is replaced by another good record stays good.
LEMMA ReplaceOK ==
  ASSUME NEW P, ProcOK(P), NEW p \in Pids, NEW r \in Process, RecordOK(r)
  PROVE  /\ ProcOK([P EXCEPT ![p] = r])
         /\ [P EXCEPT ![p] = r][p] = r
         /\ \A q \in Pids : q # p => [P EXCEPT ![p] = r][q] = P[q]
  BY DEF ProcOK

\* Goto changes the step of one process and nothing else.
LEMMA GotoOK ==
  ASSUME ProcOK(proc), NEW p \in Pids, NEW s \in PCs, Goto(p, s),
         proc[p].stop => s \in Armed,
         s \in {"save", "restore"} <=> proc[p].pc \in {"save", "restore"}
  PROVE  /\ ProcOK(proc')
         /\ proc'[p].pc = s
         /\ \A q \in Pids : q # p => proc'[q] = proc[q]
  BY DEF ProcOK, Goto, Process, RecordOK

\* Leaving makes the process id free.
LEMMA LeaveOK ==
  ASSUME ProcOK(proc), NEW p \in Pids, NEW ok, Leave(p, ok)
  PROVE  /\ ProcOK(proc')
         /\ proc'[p] = Idle
         /\ \A q \in Pids : q # p => proc'[q] = proc[q]
  BY IdleOK DEF ProcOK, Leave

\* SIGTERM sets a flag or frees the process id.
LEMMA TerminatedOK ==
  ASSUME ProcOK(proc), NEW r \in Pids
  PROVE  /\ ProcOK(Terminated(r))
         /\ Terminated(r)[r].pc \in {proc[r].pc, "free"}
         /\ proc[r].pc \in Armed => /\ Terminated(r)[r].pc = proc[r].pc
                                   /\ Terminated(r)[r].mem = proc[r].mem
                                   /\ Terminated(r)[r].at = proc[r].at
         /\ proc[r].pc \notin Armed => Terminated(r)[r].pc = "free"
         /\ \A q \in Pids : q # r => Terminated(r)[q] = proc[q]
  BY IdleOK DEF ProcOK, Terminated, Process, RecordOK, Idle

-----------------------------------------------------------------------------
(* Type correctness.                                                       *)

\* TypeOK as the part about processes and the part about the rest.
RestOK ==
  /\ settings \in [Knobs -> Values]
  /\ dir \in BOOLEAN
  /\ pidFile \in Pids \cup {NoPid}
  /\ backup \in Contents \cup {NoBackup}
  /\ unit \in {"absent", "installed", "enabled"}
  /\ svc \in {"inactive", "active", "execstop", "sigterm", "waiting"}
  /\ power \in {"up", "stopping", "boot"}
  /\ wanted \in BOOLEAN
  /\ used \in [Events -> Nat]

LEMMA TypeParts == TypeOK <=> ProcOK(proc) /\ RestOK
  BY DEF TypeOK, ProcOK, RestOK, RecordOK

\* Counting an event keeps the counters natural numbers.
LEMMA SpendType ==
  ASSUME used \in [Events -> Nat], NEW e \in Events, Spend(e)
  PROVE  used' \in [Events -> Nat]
  BY DEF Spend

\* The service stays in one of its states when a process ends or is signalled.
LEMMA ServiceType ==
  ASSUME RestOK, NEW p, NEW ok
  PROVE  /\ ServiceAfter(p, ok) \in {"inactive", "active", "execstop", "sigterm", "waiting"}
         /\ ServiceAfterTerm(p) \in {"inactive", "active", "execstop", "sigterm", "waiting"}
  BY DEF RestOK, ServiceAfter, ServiceAfterTerm

\* A snapshot of the settings, and an empty file, are contents of a backup.
LEMMA ContentsType ==
  /\ Original \in [Knobs -> Values]
  /\ Original \in Contents
  /\ EmptyFile \in Contents
  /\ \A S \in [Knobs -> Values] : S \in Contents /\ S # NoBackup
  BY ConstantsAssumption DEF Original, EmptyFile, Contents, Values

LEMMA TypeInit == Init => TypeOK
  <1> SUFFICES ASSUME Init PROVE ProcOK(proc) /\ RestOK
    BY TypeParts
  <1>1. ProcOK(proc)
    BY IdleOK DEF Init, ProcOK
  <1>2. RestOK
    BY ContentsType DEF Init, RestOK
  <1> QED BY <1>1, <1>2

\* Tuning any set of knobs.
LEMMA TuneType ==
  ASSUME RestOK, NEW S \in SUBSET Knobs, Tune(S)
  PROVE  settings' \in [Knobs -> Values]
  BY DEF RestOK, Tune, Values

LEMMA StartStepType ==
  ASSUME TypeOK, NEW p \in Pids, StartStep(p)
  PROVE  TypeOK'
  <1> SUFFICES ProcOK(proc') /\ RestOK'
    BY TypeParts DEF TypeOK, ProcOK, RestOK, RecordOK
  <1>0. ProcOK(proc) /\ RestOK
    BY TypeParts
  <1>1. CASE RefuseStart(p)
    BY <1>0, <1>1, LeaveOK, ServiceType DEF RefuseStart, Leave, RestOK, files, machine
  <1>2. CASE AdmitStart(p)
    <2>1. PICK s \in {"install", "prompt"} : Goto(p, s)
      BY <1>2 DEF AdmitStart
    <2>2. ProcOK(proc')
      BY <1>0, <1>2, <2>1, GotoOK
      DEF AdmitStart, At, PCs, CommandSteps, Armed, ProcOK, RecordOK
    <2> QED BY <1>0, <1>2, <2>2 DEF AdmitStart, RestOK, files, machine
  <1>3. CASE InstallAndEnable(p)
    <2>1. ProcOK(proc')
      BY <1>0, <1>3, GotoOK
      DEF InstallAndEnable, At, PCs, CommandSteps, Armed, ProcOK, RecordOK
    <2> QED BY <1>0, <1>3, <2>1 DEF InstallAndEnable, RestOK, machine
  <1>4. CASE InstallFails(p)
    BY <1>0, <1>4, LeaveOK, ServiceType, SpendType
    DEF InstallFails, Leave, RestOK, machine, Events
  <1>5. CASE CaptureCurrentState(p)
    <2> DEFINE r == [proc[p] EXCEPT !.mem = settings, !.pc = "save"]
    <2>1. r \in Process /\ RecordOK(r)
      BY <1>0, <1>5, ContentsType
      DEF CaptureCurrentState, At, ProcOK, RestOK, RecordOK, Process, PCs, CommandSteps, Armed
    <2>2. proc' = [proc EXCEPT ![p] = r]
      BY <1>0, <1>5 DEF CaptureCurrentState, ProcOK, Process
    <2>3. ProcOK(proc')
      BY <1>0, <2>1, <2>2, ReplaceOK
    <2> QED BY <1>0, <1>5, <2>3 DEF CaptureCurrentState, RestOK, files, machine
  <1>6. CASE Save(p) \/ SaveOnFullDisk(p)
    <2> DEFINE r == [proc[p] EXCEPT !.mem = NoBackup, !.pc = "launch"]
    <2>1. r \in Process /\ RecordOK(r)
      BY <1>0, <1>6
      DEF Save, SaveOnFullDisk, At, ProcOK, RecordOK, Process, PCs, CommandSteps, Armed
    <2>2. proc' = [proc EXCEPT ![p] = r]
      BY <1>0, <1>6 DEF Save, SaveOnFullDisk, ProcOK, Process
    <2>3. ProcOK(proc')
      BY <1>0, <2>1, <2>2, ReplaceOK
    <2>4. backup' \in Contents \cup {NoBackup}
      BY <1>0, <1>6, ContentsType DEF Save, SaveOnFullDisk, ProcOK, Process
    <2>5. used' \in [Events -> Nat]
      BY <1>0, <1>6, SpendType DEF Save, SaveOnFullDisk, RestOK, Events
    <2> QED BY <1>0, <1>6, <2>3, <2>4, <2>5 DEF Save, SaveOnFullDisk, RestOK, machine
  <1>7. CASE SaveFails(p)
    BY <1>0, <1>7, LeaveOK, ServiceType DEF SaveFails, Leave, RestOK, files, machine
  <1>8. ASSUME NEW q \in Pids, Daemonize(p, q) PROVE ProcOK(proc') /\ RestOK'
    <2> DEFINE P == [proc EXCEPT ![p] = Idle]
               r == [P[q] EXCEPT !.pc = "publish"]
    <2>1. ProcOK(P) /\ q # p /\ P[q] = proc[q]
      <3>1. q # p
        BY <1>8 DEF Daemonize, At
      <3>2. ProcOK(P)
        BY <1>0, IdleOK, ReplaceOK
      <3>3. P[q] = proc[q]
        BY <1>0, <3>1 DEF ProcOK
      <3> QED BY <3>1, <3>2, <3>3
    <2>2. r \in Process /\ RecordOK(r)
      BY <1>8, <2>1
      DEF Daemonize, At, ProcOK, RecordOK, Process, PCs, DaemonSteps, Armed
    <2>3. proc' = [P EXCEPT ![q] = r]
      BY <1>0, <1>8, <2>1 DEF Daemonize, ProcOK, Process
    <2>4. ProcOK(proc')
      BY <2>1, <2>2, <2>3, ReplaceOK
    <2> QED BY <1>0, <1>8, <2>4 DEF Daemonize, RestOK, files, machine
  <1>9. CASE DaemonizeFails(p)
    BY <1>0, <1>9, LeaveOK, ServiceType, SpendType
    DEF DaemonizeFails, Leave, RestOK, files, machine, Events
  <1>10. CASE RunInForeground(p)
    <2>1. ProcOK(proc')
      BY <1>0, <1>10, GotoOK
      DEF RunInForeground, At, PCs, DaemonSteps, Armed, ProcOK, RecordOK
    <2> QED BY <1>0, <1>10, <2>1 DEF RunInForeground, RestOK, files, machine
  <1> QED BY <1>1, <1>2, <1>3, <1>4, <1>5, <1>6, <1>7, <1>8, <1>9, <1>10 DEF StartStep

LEMMA DaemonStepType ==
  ASSUME TypeOK, NEW p \in Pids, DaemonStep(p)
  PROVE  TypeOK'
  <1> SUFFICES ProcOK(proc') /\ RestOK'
    BY TypeParts DEF TypeOK, ProcOK, RestOK, RecordOK
  <1>0. ProcOK(proc) /\ RestOK
    BY TypeParts
  <1>1. CASE WritePidFile(p) \/ WritePidOnFullDisk(p)
    <2>1. ProcOK(proc')
      BY <1>0, <1>1, GotoOK
      DEF WritePidFile, WritePidOnFullDisk, At, PCs, DaemonSteps, Armed, ProcOK, RecordOK
    <2>2. used' \in [Events -> Nat]
      BY <1>0, <1>1, SpendType DEF WritePidFile, WritePidOnFullDisk, RestOK, Events
    <2> QED BY <1>0, <1>1, <2>1, <2>2
            DEF WritePidFile, WritePidOnFullDisk, RestOK, machine
  <1>2. CASE WritePidFails(p)
    <2>1. CASE Goto(p, "arm") /\ UNCHANGED svc
      <3>1. ProcOK(proc')
        BY <1>0, <1>2, <2>1, GotoOK
        DEF WritePidFails, At, PCs, DaemonSteps, Armed, ProcOK, RecordOK
      <3> QED BY <1>0, <1>2, <2>1, <3>1 DEF WritePidFails, RestOK, files, machine
    <2>2. CASE Leave(p, FALSE)
      BY <1>0, <1>2, <2>2, LeaveOK, ServiceType
      DEF WritePidFails, Leave, RestOK, files, machine
    <2> QED BY <1>2, <2>1, <2>2 DEF WritePidFails
  <1>3. CASE InstallHandlers(p)
    <2>1. ProcOK(proc')
      BY <1>0, <1>3, GotoOK
      DEF InstallHandlers, At, PCs, DaemonSteps, Armed, ProcOK, RecordOK
    <2> QED BY <1>0, <1>3, <2>1 DEF InstallHandlers, RestOK, files, machine
  <1>4. CASE ApplyInitialState(p)
    <2>1. ProcOK(proc')
      BY <1>0, <1>4, GotoOK
      DEF ApplyInitialState, At, PCs, DaemonSteps, Armed, ProcOK, RecordOK
    <2> QED BY <1>0, <1>4, <2>1, TuneType DEF ApplyInitialState, RestOK, files
  <1>5. CASE Tick(p)
    BY <1>0, <1>5, TuneType DEF Tick, RestOK, files
  <1>6. ASSUME NEW r \in Pids, TickUnderPressure(p, r) PROVE ProcOK(proc') /\ RestOK'
    <2>1. ProcOK(proc')
      BY <1>0, <1>6, TerminatedOK DEF TickUnderPressure
    <2>2. used' \in [Events -> Nat]
      BY <1>0, <1>6, SpendType DEF TickUnderPressure, RestOK, Events
    <2> QED BY <1>0, <1>6, <2>1, <2>2, TuneType, ServiceType
            DEF TickUnderPressure, RestOK, files
  <1>7. CASE LeaveLoop(p)
    <2>1. ProcOK(proc')
      BY <1>0, <1>7, GotoOK
      DEF LeaveLoop, At, PCs, DaemonSteps, Armed, ProcOK, RecordOK
    <2> QED BY <1>0, <1>7, <2>1 DEF LeaveLoop, RestOK, files, machine
  <1>8. CASE LoadNothing(p)
    <2>1. ProcOK(proc')
      BY <1>0, <1>8, GotoOK
      DEF LoadNothing, At, PCs, DaemonSteps, Armed, ProcOK, RecordOK
    <2> QED BY <1>0, <1>8, <2>1 DEF LoadNothing, RestOK, files, machine
  <1>9. CASE Load(p)
    <2> DEFINE r == [proc[p] EXCEPT !.mem = backup, !.at = 1, !.pc = "restore"]
    <2>1. r \in Process /\ RecordOK(r)
      BY <1>0, <1>9, ConstantsAssumption
      DEF Load, At, ProcOK, RestOK, RecordOK, Process, PCs, DaemonSteps, Armed
    <2>2. proc' = [proc EXCEPT ![p] = r]
      BY <1>0, <1>9 DEF Load, ProcOK, Process
    <2>3. ProcOK(proc')
      BY <1>0, <2>1, <2>2, ReplaceOK
    <2> QED BY <1>0, <1>9, <2>3 DEF Load, RestOK, files, machine
  <1>10. CASE LoadThrows(p)
    BY <1>0, <1>10, LeaveOK, ServiceType DEF LoadThrows, Leave, RestOK, files, machine
  <1>11. CASE RestoreKnob(p)
    <2> DEFINE k == proc[p].at
               r == IF k = NumKnobs
                      THEN [proc[p] EXCEPT !.mem = NoBackup, !.at = 1, !.pc = "unpublish"]
                      ELSE [proc[p] EXCEPT !.at = k + 1]
    <2>1. k \in Knobs /\ proc[p].mem \in Contents
      BY <1>0, <1>11, ConstantsAssumption
      DEF RestoreKnob, At, ProcOK, RecordOK, Process, Knobs
    <2>2. r \in Process /\ RecordOK(r)
      BY <1>0, <1>11, <2>1, ConstantsAssumption
      DEF RestoreKnob, At, ProcOK, RecordOK, Process, PCs, DaemonSteps, Armed, Knobs
    <2>3. proc' = [proc EXCEPT ![p] = r]
      BY <1>0, <1>11 DEF RestoreKnob, ProcOK, Process
    <2>4. ProcOK(proc')
      BY <1>0, <2>2, <2>3, ReplaceOK
    <2>5. proc[p].mem[k] \in Values \cup {"skip"}
      BY <2>1 DEF Contents
    <2>6. settings' \in [Knobs -> Values]
      BY <1>0, <1>11, <2>1, <2>5 DEF RestoreKnob, RestOK
    <2> QED BY <1>0, <1>11, <2>4, <2>6 DEF RestoreKnob, RestOK, files
  <1>12. CASE RemovePidFile(p)
    BY <1>0, <1>12, LeaveOK, ServiceType DEF RemovePidFile, Leave, RestOK, machine
  <1>13. CASE RemovePidFails(p)
    BY <1>0, <1>13, LeaveOK, ServiceType, SpendType
    DEF RemovePidFails, Leave, RestOK, files, machine, Events
  <1> QED BY <1>1, <1>2, <1>3, <1>4, <1>5, <1>6, <1>7, <1>8, <1>9, <1>10, <1>11, <1>12, <1>13
          DEF DaemonStep

LEMMA StopStepType ==
  ASSUME TypeOK, NEW p \in Pids, StopStep(p)
  PROVE  TypeOK'
  <1> SUFFICES ProcOK(proc') /\ RestOK'
    BY TypeParts DEF TypeOK, ProcOK, RestOK, RecordOK
  <1>0. ProcOK(proc) /\ RestOK
    BY TypeParts
  <1>1. CASE RefuseStop(p)
    BY <1>0, <1>1, LeaveOK, ServiceType DEF RefuseStop, Leave, RestOK, files, machine
  <1>2. CASE AdmitStop(p)
    <2>1. ProcOK(proc')
      BY <1>0, <1>2, GotoOK
      DEF AdmitStop, At, PCs, StopSteps, Armed, ProcOK, RecordOK
    <2> QED BY <1>0, <1>2, <2>1 DEF AdmitStop, RestOK, files, machine
  <1>3. CASE SendStopSignal(p)
    <2>1. pidFile \in Pids
      BY <1>0, <1>3 DEF SendStopSignal, IsRunning, RestOK
    <2>2. ProcOK(proc')
      <3>1. CASE pidFile = p
        BY <1>0, <1>3, <2>1, <3>1, TerminatedOK DEF SendStopSignal
      <3>2. CASE pidFile # p
        <4> DEFINE P == Terminated(pidFile)
                   r == [P[p] EXCEPT !.pc = "stop_disable"]
        <4>1. ProcOK(P) /\ P[p] = proc[p]
          BY <1>0, <2>1, <3>2, TerminatedOK
        <4>2. r \in Process /\ RecordOK(r)
          BY <1>3, <4>1
          DEF SendStopSignal, At, ProcOK, RecordOK, Process, PCs, StopSteps, Armed
        <4>3. proc' = [P EXCEPT ![p] = r]
          BY <1>3, <3>2, <4>1 DEF SendStopSignal, ProcOK, Process
        <4> QED BY <4>1, <4>2, <4>3, ReplaceOK
      <3> QED BY <3>1, <3>2
    <2> QED BY <1>0, <1>3, <2>2, ServiceType DEF SendStopSignal, RestOK, files, machine
  <1>4. CASE Disable(p)
    BY <1>0, <1>4, LeaveOK, ServiceType
    DEF Disable, Leave, AfterDisable, RestOK, files, machine
  <1>5. CASE DisableFails(p)
    BY <1>0, <1>5, LeaveOK, ServiceType, SpendType
    DEF DisableFails, Leave, RestOK, files, machine, Events
  <1> QED BY <1>1, <1>2, <1>3, <1>4, <1>5 DEF StopStep

LEMMA CleanStepType ==
  ASSUME TypeOK, NEW p \in Pids, CleanStep(p)
  PROVE  TypeOK'
  <1> SUFFICES ProcOK(proc') /\ RestOK'
    BY TypeParts DEF TypeOK, ProcOK, RestOK, RecordOK
  <1>0. ProcOK(proc) /\ RestOK
    BY TypeParts
  <1>1. CASE RefuseClean(p)
    BY <1>0, <1>1, LeaveOK, ServiceType DEF RefuseClean, Leave, RestOK, files, machine
  <1>2. CASE AdmitClean(p)
    <2>1. ProcOK(proc')
      BY <1>0, <1>2, GotoOK
      DEF AdmitClean, At, PCs, CleanSteps, Armed, ProcOK, RecordOK
    <2> QED BY <1>0, <1>2, <2>1 DEF AdmitClean, RestOK, files, machine
  <1>3. CASE RemoveStateDirectory(p)
    <2>1. ProcOK(proc')
      BY <1>0, <1>3, GotoOK
      DEF RemoveStateDirectory, At, PCs, CleanSteps, Armed, ProcOK, RecordOK
    <2> QED BY <1>0, <1>3, <2>1 DEF RemoveStateDirectory, RestOK, machine
  <1>4. CASE RemoveDirectoryFails(p)
    BY <1>0, <1>4, LeaveOK, ServiceType, SpendType
    DEF RemoveDirectoryFails, Leave, RestOK, machine, Events
  <1>5. CASE RemoveUnit(p)
    BY <1>0, <1>5, LeaveOK, ServiceType DEF RemoveUnit, Leave, RestOK, files, machine
  <1>6. CASE RemoveUnitFails(p)
    BY <1>0, <1>6, LeaveOK, ServiceType, SpendType
    DEF RemoveUnitFails, Leave, AfterDisable, RestOK, files, machine, Events
  <1> QED BY <1>1, <1>2, <1>3, <1>4, <1>5, <1>6 DEF CleanStep

LEMMA UserStepType ==
  ASSUME TypeOK, NEW p \in Pids, UserStep(p)
  PROVE  TypeOK'
  <1> SUFFICES ProcOK(proc') /\ RestOK'
    BY TypeParts DEF TypeOK, ProcOK, RestOK, RecordOK
  <1>0. ProcOK(proc) /\ RestOK
    BY TypeParts
  <1>1. ASSUME NEW command \in {"start", "stop", "clean"}, Issue(p, command)
        PROVE  ProcOK(proc') /\ RestOK'
    <2>1. PICK s \in {"check", "stop_check", "clean_check"} : Goto(p, s)
      BY <1>1 DEF Issue
    <2>2. ProcOK(proc')
      BY <1>0, <1>1, <2>1, GotoOK
      DEF Issue, At, PCs, CommandSteps, StopSteps, CleanSteps, Armed, ProcOK, RecordOK
    <2>3. used' \in [Events -> Nat]
      BY <1>0, <1>1, SpendType DEF Issue, RestOK, Events
    <2> QED BY <1>0, <1>1, <2>2, <2>3 DEF Issue, RestOK, files
  <1>2. CASE Confirm(p)
    <2>1. ProcOK(proc')
      BY <1>0, <1>2, GotoOK
      DEF Confirm, At, PCs, CommandSteps, Armed, ProcOK, RecordOK
    <2> QED BY <1>0, <1>2, <2>1 DEF Confirm, RestOK, files, machine
  <1>3. CASE Decline(p)
    BY <1>0, <1>3, LeaveOK, ServiceType DEF Decline, Leave, RestOK, files, machine
  <1> QED BY <1>1, <1>2, <1>3 DEF UserStep

LEMMA MachineStepType ==
  ASSUME TypeOK, MachineStep
  PROVE  TypeOK'
  <1> SUFFICES ProcOK(proc') /\ RestOK'
    BY TypeParts DEF TypeOK, ProcOK, RestOK, RecordOK
  <1>0. ProcOK(proc) /\ RestOK
    BY TypeParts
  <1>a. ASSUME NEW q \in Pids, NEW s \in {"check", "stop_check"}, At(q, "free"),
               proc' = [proc EXCEPT ![q].pc = s, ![q].by = "systemd"]
        PROVE  ProcOK(proc')
    <2> DEFINE r == [proc[q] EXCEPT !.pc = s, !.by = "systemd"]
    <2>1. r \in Process /\ RecordOK(r)
      BY <1>0, <1>a
      DEF At, ProcOK, RecordOK, Process, PCs, CommandSteps, StopSteps, Armed
    <2>2. proc' = [proc EXCEPT ![q] = r]
      BY <1>0, <1>a DEF ProcOK, Process
    <2> QED BY <1>0, <2>1, <2>2, ReplaceOK
  <1>b. ASSUME Restart PROVE ProcOK(proc')
    BY <1>b, IdleOK DEF Restart, ProcOK
  <1>1. ASSUME NEW q \in Pids, SpawnExecStop(q) PROVE ProcOK(proc') /\ RestOK'
    <2>1. ProcOK(proc')
      BY <1>1, <1>a DEF SpawnExecStop
    <2> QED BY <1>0, <1>1, <2>1 DEF SpawnExecStop, RestOK, files, machine
  <1>2. CASE SystemdTerm
    <2>1. ProcOK(proc')
      BY <1>0, <1>2, TerminatedOK DEF SystemdTerm
    <2> QED BY <1>0, <1>2, <2>1 DEF SystemdTerm, RestOK, files, machine
  <1>3. CASE BeginShutdown
    <2>1. used' \in [Events -> Nat]
      BY <1>0, <1>3, SpendType DEF BeginShutdown, RestOK, Events
    <2> QED BY <1>0, <1>3, <2>1 DEF BeginShutdown, RestOK, files
  <1>4. ASSUME NEW r \in Pids, ShutdownTerm(r) PROVE ProcOK(proc') /\ RestOK'
    <2>1. ProcOK(proc')
      BY <1>0, <1>4, TerminatedOK DEF ShutdownTerm
    <2> QED BY <1>0, <1>4, <2>1, ServiceType DEF ShutdownTerm, RestOK, files, machine
  <1>5. CASE PowerOff
    BY <1>0, <1>5, <1>b, ContentsType DEF PowerOff, Restart, RestOK, files
  <1>6. CASE PowerLoss
    BY <1>0, <1>6, <1>b, ContentsType, SpendType
    DEF PowerLoss, Restart, RestOK, files, Events
  <1>7. CASE Boot
    <2>1. ProcOK(proc')
      BY <1>0, <1>7, <1>a DEF Boot
    <2> QED BY <1>0, <1>7, <2>1 DEF Boot, RestOK, files
  <1>8. ASSUME NEW p \in Pids, Crash(p) PROVE ProcOK(proc') /\ RestOK'
    BY <1>0, <1>8, LeaveOK, ServiceType, SpendType
    DEF Crash, Leave, RestOK, files, machine, Events
  <1>9. ASSUME NEW p \in Pids, ForeignArrives(p) PROVE ProcOK(proc') /\ RestOK'
    <2>1. ProcOK(proc')
      BY <1>0, <1>9, GotoOK DEF ForeignArrives, At, PCs, Armed, ProcOK, RecordOK
    <2>2. used' \in [Events -> Nat]
      BY <1>0, <1>9, SpendType DEF ForeignArrives, RestOK, Events
    <2> QED BY <1>0, <1>9, <2>1, <2>2 DEF ForeignArrives, RestOK, files, machine
  <1> QED BY <1>1, <1>2, <1>3, <1>4, <1>5, <1>6, <1>7, <1>8, <1>9 DEF MachineStep

LEMMA TypeStep ==
  ASSUME TypeOK, [Next]_vars
  PROVE  TypeOK'
  <1>1. CASE UNCHANGED vars
    BY <1>1 DEF vars, TypeOK
  <1>2. CASE Next
    BY <1>2, StartStepType, DaemonStepType, StopStepType, CleanStepType,
       UserStepType, MachineStepType DEF Next
  <1> QED BY <1>1, <1>2

(* Every variable of every reachable state has its type, and every process *)
(* record holds only what its step allows: the flag of request_stop() only *)
(* behind the handler, a snapshot only around the save and the restore.    *)
THEOREM TypeCorrect == Spec => []TypeOK
  BY TypeInit, TypeStep, PTL DEF Spec

-----------------------------------------------------------------------------
(* One owner, when commands are issued one at a time and the disk is not   *)
(* full when the pid file is written.                                      *)

OneAtATimeUse == ~ Overlap /\ Limit["diskfull"] = 0

\* An event that may not happen does not happen.
LEMMA NeverSpent ==
  ASSUME TypeOK, NEW e \in Events, Limit[e] = 0
  PROVE  ~ Spend(e)
  BY DEF TypeOK, Spend

\* A process moves calmly when it neither claims nor publishes anything new.
Calm(q) ==
  \/ proc'[q].pc = proc[q].pc
  \/ proc'[q].pc \in {"free", "foreign"} \cup StopSteps
  \/ /\ proc[q].pc \in {"prompt", "install"}
     /\ proc'[q].pc \in {"prompt", "install"}
  \/ /\ proc[q].pc \in {"capture", "save", "launch", "publish"}
     /\ proc'[q].pc \in {"capture", "save", "launch", "publish"}
  \/ /\ proc[q].pc \in Published
     /\ proc'[q].pc \in Published
  \/ /\ proc[q].pc \in {"clean_remove", "clean_unit"}
     /\ proc'[q].pc \in {"clean_remove", "clean_unit"}

\* The parts of OneAtATime about processes and files.
Serial ==
  /\ OneOwner
  /\ PidFileNamesDaemon
  /\ \A p, q \in Pids : proc[p].pc \in Claiming /\ proc[q].pc \in Claiming => p = q
  /\ \A p \in Pids : proc[p].pc \in NeedsDirectory => dir

Asleep == power = "boot" => svc = "inactive" /\ \A p \in Pids : ~ Ours(p)

LEMMA OneAtATimeParts == OneAtATime <=> Serial /\ Asleep
  BY DEF OneAtATime, Serial, Asleep

\* A step all of whose processes move calmly, and that leaves the pid file and
\* the directory alone, preserves Serial.
LEMMA CalmStep ==
  ASSUME Serial, \A q \in Pids : Calm(q), pidFile' = pidFile, dir' \in {dir, TRUE}
  PROVE  Serial'
  <1>1. \A q \in Pids : /\ proc'[q].pc \in Owner => proc[q].pc \in Owner
                        /\ proc'[q].pc \in Published => proc[q].pc \in Published
                        /\ proc'[q].pc \in Claiming => proc[q].pc \in Claiming
                        /\ proc'[q].pc \in {"clean_remove", "clean_unit"} =>
                             proc[q].pc \in {"clean_remove", "clean_unit"}
                        /\ proc'[q].pc \in NeedsDirectory => proc[q].pc \in NeedsDirectory
    BY DEF Calm, Owner, Published, Armed, Claiming, NeedsDirectory,
           CommandSteps, DaemonSteps, StopSteps, CleanSteps
  <1>2. OneOwner' /\ PidFileNamesDaemon'
    BY <1>1 DEF Serial, OneOwner, PidFileNamesDaemon
  <1>3. \A p, q \in Pids : proc'[p].pc \in Claiming /\ proc'[q].pc \in Claiming => p = q
    BY <1>1 DEF Serial
  <1>5. \A p \in Pids : proc'[p].pc \in NeedsDirectory => dir'
    <2>1. \A p \in Pids : proc[p].pc \in NeedsDirectory => dir
      BY DEF Serial
    <2> QED BY <1>1, <2>1, dir' = dir \/ dir' = TRUE
  <1> QED BY <1>2, <1>3, <1>5 DEF Serial

\* A process that ends, or is given a step by Goto, moves; the others do not.
LEMMA LeaveCalm ==
  ASSUME TypeOK, NEW p \in Pids, NEW ok, Leave(p, ok)
  PROVE  \A q \in Pids : Calm(q)
  BY TypeParts, LeaveOK DEF Calm, Idle

LEMMA TerminatedCalm ==
  ASSUME TypeOK, NEW r \in Pids, proc' = Terminated(r)
  PROVE  \A q \in Pids : Calm(q)
  BY TypeParts, TerminatedOK DEF Calm

\* What Leave and Goto do to the steps of all processes.
LEMMA LeaveSteps ==
  ASSUME TypeOK, NEW p \in Pids, NEW ok, Leave(p, ok)
  PROVE  \A q \in Pids : proc'[q].pc = IF q = p THEN "free" ELSE proc[q].pc
  BY TypeParts, LeaveOK DEF Idle

LEMMA GotoSteps ==
  ASSUME TypeOK, NEW p \in Pids, NEW s, Goto(p, s)
  PROVE  \A q \in Pids : proc'[q].pc = IF q = p THEN s ELSE proc[q].pc
  BY DEF TypeOK, Goto, Process

LEMMA StartStepSerial ==
  ASSUME OneAtATimeUse, TypeOK, Serial, NEW p \in Pids, StartStep(p)
  PROVE  Serial'
  <1>1. CASE RefuseStart(p) \/ InstallFails(p) \/ SaveFails(p) \/ DaemonizeFails(p)
    BY <1>1, LeaveCalm, CalmStep
    DEF RefuseStart, InstallFails, SaveFails, DaemonizeFails, files
  <1>2. CASE AdmitStart(p)
    <2>1. PICK s \in {"install", "prompt"} : Goto(p, s)
      BY <1>2 DEF AdmitStart
    <2>2. \A q \in Pids : proc'[q].pc = IF q = p THEN s ELSE proc[q].pc
      BY <2>1, GotoSteps
    <2>3. \A q \in Pids : proc[q].pc \notin Published
      BY <1>2, ConstantsAssumption
      DEF AdmitStart, IsRunning, Alive, Serial, PidFileNamesDaemon, Published, Armed
    <2>4. proc[p].pc = "check" /\ pidFile' = pidFile /\ dir' = dir
      BY <1>2 DEF AdmitStart, At, files
    <2>5. \A q \in Pids : q # p => proc[q].pc \notin Claiming /\ proc[q].pc \notin Owner
      BY <2>3, <2>4
      DEF Serial, Claiming, Owner, Published, Armed, CommandSteps, DaemonSteps
    <2> QED
      BY <2>2, <2>3, <2>4, <2>5
      DEF Serial, OneOwner, PidFileNamesDaemon, Claiming, Owner, Published, Armed,
          NeedsDirectory, CommandSteps, DaemonSteps, CleanSteps
  <1>3. CASE InstallAndEnable(p)
    <2>1. \A q \in Pids : proc'[q].pc = IF q = p THEN "capture" ELSE proc[q].pc
      BY <1>3, GotoSteps DEF InstallAndEnable
    <2>2. proc[p].pc = "install" /\ dir' = TRUE /\ pidFile' = pidFile
      BY <1>3 DEF InstallAndEnable, At
    <2> QED
      BY <2>1, <2>2
      DEF Serial, OneOwner, PidFileNamesDaemon, Claiming, Owner, Published, Armed,
          CommandSteps, DaemonSteps, CleanSteps
  <1>4. CASE CaptureCurrentState(p)
    <2>1. \A q \in Pids : proc'[q].pc = IF q = p THEN "save" ELSE proc[q].pc
      BY <1>4 DEF CaptureCurrentState, TypeOK, Process
    <2> QED BY <1>4, <2>1, CalmStep DEF CaptureCurrentState, At, Calm, files
  <1>5. CASE Save(p) \/ SaveOnFullDisk(p)
    <2>1. \A q \in Pids : proc'[q].pc = IF q = p THEN "launch" ELSE proc[q].pc
      BY <1>5 DEF Save, SaveOnFullDisk, TypeOK, Process
    <2> QED BY <1>5, <2>1, CalmStep DEF Save, SaveOnFullDisk, At, Calm
  <1>6. ASSUME NEW q \in Pids, Daemonize(p, q) PROVE Serial'
    <2>1. proc[p].pc = "launch" /\ proc[q].pc = "free" /\ p # q
      BY <1>6 DEF Daemonize, At
    <2>2. \A o \in Pids : proc'[o].pc = IF o = p THEN "free"
                                        ELSE IF o = q THEN "publish" ELSE proc[o].pc
      BY <1>6, <2>1 DEF Daemonize, TypeOK, Process, Idle
    <2>3. pidFile' = pidFile /\ dir' = dir
      BY <1>6 DEF Daemonize, files
    <2> QED
      BY <2>1, <2>2, <2>3
      DEF Serial, OneOwner, PidFileNamesDaemon, Claiming, Owner, Published, Armed,
          NeedsDirectory, CommandSteps, DaemonSteps, CleanSteps
  <1>7. CASE RunInForeground(p)
    <2>1. \A q \in Pids : proc'[q].pc = IF q = p THEN "publish" ELSE proc[q].pc
      BY <1>7, GotoSteps DEF RunInForeground
    <2> QED BY <1>7, <2>1, CalmStep DEF RunInForeground, At, Calm, files
  <1> QED BY <1>1, <1>2, <1>3, <1>4, <1>5, <1>6, <1>7 DEF StartStep

LEMMA DaemonStepSerial ==
  ASSUME OneAtATimeUse, TypeOK, Serial, NEW p \in Pids, DaemonStep(p)
  PROVE  Serial'
  <1>1. CASE WritePidFile(p)
    <2>1. \A q \in Pids : proc'[q].pc = IF q = p THEN "arm" ELSE proc[q].pc
      BY <1>1, GotoSteps DEF WritePidFile
    <2>2. proc[p].pc = "publish" /\ pidFile' = p /\ dir' = dir
      BY <1>1 DEF WritePidFile, At
    <2> QED
      BY <2>1, <2>2
      DEF Serial, OneOwner, PidFileNamesDaemon, Claiming, Owner, Published, Armed,
          NeedsDirectory, CommandSteps, DaemonSteps, CleanSteps
  <1>2. CASE WritePidOnFullDisk(p)
    BY <1>2, NeverSpent DEF WritePidOnFullDisk, OneAtATimeUse, Events
  <1>3. CASE WritePidFails(p)
    BY <1>3
    DEF WritePidFails, At, Serial, NeedsDirectory, Owner, DaemonSteps
  <1>4. CASE InstallHandlers(p) \/ ApplyInitialState(p) \/ LeaveLoop(p) \/ LoadNothing(p)
    <2>1. PICK s \in Armed : Goto(p, s)
      BY <1>4 DEF InstallHandlers, ApplyInitialState, LeaveLoop, LoadNothing, Armed
    <2>2. proc[p].pc \in Published
      BY <1>4
      DEF InstallHandlers, ApplyInitialState, LeaveLoop, LoadNothing, At, Published, Armed
    <2>3. \A q \in Pids : Calm(q)
      BY <2>1, <2>2, GotoSteps DEF Calm, Published
    <2> QED BY <1>4, <2>3, CalmStep
            DEF InstallHandlers, ApplyInitialState, LeaveLoop, LoadNothing, files
  <1>5. CASE Tick(p)
    BY <1>5, CalmStep DEF Tick, Calm, files
  <1>6. ASSUME NEW r \in Pids, TickUnderPressure(p, r) PROVE Serial'
    BY <1>6, TerminatedCalm, CalmStep DEF TickUnderPressure, files
  <1>7. CASE Load(p) \/ RestoreKnob(p)
    <2>1. proc[p].pc \in Published /\ proc'[p].pc \in Published
      BY <1>7 DEF Load, RestoreKnob, At, TypeOK, Process, Published, Armed
    <2>2. \A q \in Pids : q # p => proc'[q].pc = proc[q].pc
      BY <1>7 DEF Load, RestoreKnob, TypeOK, Process
    <2> QED BY <1>7, <2>1, <2>2, CalmStep DEF Load, RestoreKnob, Calm, files
  <1>8. CASE LoadThrows(p)
    BY <1>8, LeaveCalm, CalmStep DEF LoadThrows, files
  <1>9. CASE RemovePidFile(p)
    <2>1. \A q \in Pids : proc'[q].pc = IF q = p THEN "free" ELSE proc[q].pc
      BY <1>9, LeaveSteps DEF RemovePidFile
    <2>2. proc[p].pc = "unpublish" /\ dir' = dir
      BY <1>9 DEF RemovePidFile, At
    <2>3. \A q \in Pids : q # p => proc[q].pc \notin Published
      BY <2>2 DEF Serial, OneOwner, Owner, Published, Armed, DaemonSteps
    <2> QED
      BY <2>1, <2>2, <2>3
      DEF Serial, OneOwner, PidFileNamesDaemon, Claiming, Owner, Published, Armed,
          NeedsDirectory, CommandSteps, DaemonSteps, CleanSteps
  <1>10. CASE RemovePidFails(p)
    BY <1>10, LeaveCalm, CalmStep DEF RemovePidFails, files
  <1> QED BY <1>1, <1>2, <1>3, <1>4, <1>5, <1>6, <1>7, <1>8, <1>9, <1>10 DEF DaemonStep

LEMMA StopStepSerial ==
  ASSUME TypeOK, Serial, NEW p \in Pids, StopStep(p)
  PROVE  Serial'
  <1>1. CASE RefuseStop(p) \/ Disable(p) \/ DisableFails(p)
    BY <1>1, LeaveCalm, CalmStep DEF RefuseStop, Disable, DisableFails, files
  <1>2. CASE AdmitStop(p)
    BY <1>2, GotoSteps, CalmStep DEF AdmitStop, Calm, StopSteps, files
  <1>3. CASE SendStopSignal(p)
    <2>1. pidFile \in Pids
      BY <1>3 DEF SendStopSignal, IsRunning, TypeOK
    <2>2. \A q \in Pids : Calm(q)
      <3>1. CASE pidFile = p
        BY <1>3, <3>1, TerminatedCalm DEF SendStopSignal
      <3>2. CASE pidFile # p
        <4>1. \A q \in Pids : Terminated(pidFile)[q].pc \in {proc[q].pc, "free"}
          BY <2>1, TerminatedOK, TypeParts
        <4>2. Terminated(pidFile) \in [Pids -> Process]
          BY <2>1, TerminatedOK, TypeParts DEF ProcOK
        <4>3. proc' = [Terminated(pidFile) EXCEPT ![p].pc = "stop_disable"]
          BY <1>3, <3>2 DEF SendStopSignal
        <4>4. \A q \in Pids : proc'[q].pc \in {proc[q].pc, "free", "stop_disable"}
          BY <4>1, <4>2, <4>3 DEF Process
        <4> QED BY <4>4 DEF Calm, StopSteps
      <3> QED BY <3>1, <3>2
    <2> QED BY <1>3, <2>2, CalmStep DEF SendStopSignal, files
  <1> QED BY <1>1, <1>2, <1>3 DEF StopStep

LEMMA CleanStepSerial ==
  ASSUME TypeOK, Serial, NEW p \in Pids, CleanStep(p)
  PROVE  Serial'
  <1>1. CASE RefuseClean(p) \/ RemoveUnit(p) \/ RemoveUnitFails(p)
    BY <1>1, LeaveCalm, CalmStep DEF RefuseClean, RemoveUnit, RemoveUnitFails, files
  <1>2. CASE AdmitClean(p)
    <2>1. \A q \in Pids : proc'[q].pc = IF q = p THEN "clean_remove" ELSE proc[q].pc
      BY <1>2, GotoSteps DEF AdmitClean
    <2>2. \A q \in Pids : proc[q].pc \notin Published
      BY <1>2, ConstantsAssumption
      DEF AdmitClean, IsRunning, Alive, Serial, PidFileNamesDaemon, Published, Armed
    <2>3. proc[p].pc = "clean_check" /\ pidFile' = pidFile /\ dir' = dir
      BY <1>2 DEF AdmitClean, At, files
    <2>4. \A q \in Pids : q # p => proc[q].pc \notin Claiming /\ proc[q].pc \notin Owner
      BY <2>2, <2>3
      DEF Serial, Claiming, Owner, Published, Armed, CommandSteps, DaemonSteps, CleanSteps
    <2> QED
      BY <2>1, <2>2, <2>3, <2>4
      DEF Serial, OneOwner, PidFileNamesDaemon, Claiming, Owner, Published, Armed,
          NeedsDirectory, CommandSteps, DaemonSteps, CleanSteps
  <1>3. CASE RemoveStateDirectory(p) \/ RemoveDirectoryFails(p)
    <2>1. proc[p].pc = "clean_remove"
      BY <1>3 DEF RemoveStateDirectory, RemoveDirectoryFails, At
    <2>2. \A q \in Pids : proc[q].pc \notin Owner
      BY <2>1 DEF Serial, OneOwner
    <2>3. PICK s \in {"free", "clean_unit"} :
            \A q \in Pids : proc'[q].pc = IF q = p THEN s ELSE proc[q].pc
      <3>1. CASE RemoveStateDirectory(p)
        BY <3>1, GotoSteps DEF RemoveStateDirectory
      <3>2. CASE RemoveDirectoryFails(p)
        BY <3>2, LeaveSteps DEF RemoveDirectoryFails
      <3> QED BY <1>3, <3>1, <3>2
    <2>4. \A q \in Pids : proc'[q].pc \notin Owner
      BY <2>2, <2>3 DEF Owner, CommandSteps, DaemonSteps
    <2>5. \A q \in Pids : proc'[q].pc \in Claiming => proc[q].pc \in Claiming
      BY <2>1, <2>3 DEF Claiming, CleanSteps
    <2> QED
      BY <2>4, <2>5
      DEF Serial, OneOwner, PidFileNamesDaemon, Owner, Published, Armed, NeedsDirectory,
          DaemonSteps
  <1> QED BY <1>1, <1>2, <1>3 DEF CleanStep

LEMMA UserStepSerial ==
  ASSUME OneAtATimeUse, TypeOK, Serial, NEW p \in Pids, UserStep(p)
  PROVE  Serial'
  <1>1. ASSUME NEW command \in {"start", "stop", "clean"}, Issue(p, command)
        PROVE  Serial'
    <2>1. PICK s \in {"check", "stop_check", "clean_check"} : Goto(p, s)
      BY <1>1 DEF Issue
    <2>2. \A q \in Pids : proc'[q].pc = IF q = p THEN s ELSE proc[q].pc
      BY <2>1, GotoSteps
    <2>3. \A q \in Pids : proc[q].pc \notin Claiming
      BY <1>1 DEF Issue, OneAtATimeUse, InFlight, Claiming
    <2>4. pidFile' = pidFile /\ dir' = dir
      BY <1>1 DEF Issue, files
    <2> QED
      BY <2>2, <2>3, <2>4
      DEF Serial, OneOwner, PidFileNamesDaemon, Claiming, Owner, Published, Armed,
          NeedsDirectory, CommandSteps, DaemonSteps, CleanSteps
  <1>2. CASE Confirm(p)
    BY <1>2, GotoSteps, CalmStep DEF Confirm, At, Calm, files
  <1>3. CASE Decline(p)
    BY <1>3, LeaveCalm, CalmStep DEF Decline, files
  <1> QED BY <1>1, <1>2, <1>3 DEF UserStep

LEMMA MachineStepSerial ==
  ASSUME TypeOK, Serial, Asleep, MachineStep
  PROVE  Serial'
  <1>1. ASSUME NEW q \in Pids, SpawnExecStop(q) PROVE Serial'
    <2>1. \A o \in Pids : proc'[o].pc = IF o = q THEN "stop_check" ELSE proc[o].pc
      BY <1>1 DEF SpawnExecStop, TypeOK, Process
    <2> QED BY <1>1, <2>1, CalmStep DEF SpawnExecStop, Calm, StopSteps, files
  <1>2. CASE SystemdTerm
    <2>1. CASE UNCHANGED proc
      BY <1>2, <2>1, CalmStep DEF SystemdTerm, Calm, files
    <2>2. CASE \E r \in Pids : proc' = Terminated(r)
      BY <1>2, <2>2, TerminatedCalm, CalmStep DEF SystemdTerm, files
    <2> QED BY <1>2, <2>1, <2>2 DEF SystemdTerm
  <1>3. CASE BeginShutdown
    BY <1>3, CalmStep DEF BeginShutdown, Calm, files
  <1>4. ASSUME NEW r \in Pids, ShutdownTerm(r) PROVE Serial'
    BY <1>4, TerminatedCalm, CalmStep DEF ShutdownTerm, files
  <1>5. CASE PowerOff \/ PowerLoss
    <2>1. \A q \in Pids : proc'[q].pc = "free"
      BY <1>5 DEF PowerOff, PowerLoss, Restart, Idle
    <2> QED BY <1>5, <2>1, CalmStep DEF PowerOff, PowerLoss, Restart, Calm, files
  <1>6. CASE Boot
    <2>1. CASE UNCHANGED proc
      BY <1>6, <2>1, CalmStep DEF Boot, Calm, files
    <2>2. ASSUME NEW p \in Pids, At(p, "free"),
                 proc' = [proc EXCEPT ![p].pc = "check", ![p].by = "systemd"]
          PROVE  Serial'
      <3>1. \A q \in Pids : proc'[q].pc = IF q = p THEN "check" ELSE proc[q].pc
        BY <2>2 DEF TypeOK, Process
      <3>2. \A q \in Pids : proc[q].pc \in {"free", "foreign"}
        BY <1>6 DEF Boot, Asleep, Ours
      <3>3. pidFile' = pidFile /\ dir' = dir
        BY <1>6 DEF Boot, files
      <3> QED
        BY <3>1, <3>2, <3>3
        DEF Serial, OneOwner, PidFileNamesDaemon, Claiming, Owner, Published, Armed,
            NeedsDirectory, CommandSteps, DaemonSteps, CleanSteps
    <2> QED BY <1>6, <2>1, <2>2 DEF Boot
  <1>7. ASSUME NEW p \in Pids, Crash(p) PROVE Serial'
    BY <1>7, LeaveCalm, CalmStep DEF Crash, files
  <1>8. ASSUME NEW p \in Pids, ForeignArrives(p) PROVE Serial'
    BY <1>8, GotoSteps, CalmStep DEF ForeignArrives, Calm, files
  <1> QED BY <1>1, <1>2, <1>3, <1>4, <1>5, <1>6, <1>7, <1>8 DEF MachineStep

\* The service is at rest and nothing of bettercpu runs until the machine boots.
LEMMA AsleepStep ==
  ASSUME TypeOK, Asleep, Next
  PROVE  Asleep'
  <1>1. CASE power = "boot"
    <2>1. svc = "inactive" /\ \A p \in Pids : proc[p].pc \in {"free", "foreign"}
      BY <1>1 DEF Asleep, Ours
    <2>2. ASSUME NEW p \in Pids, StartStep(p) PROVE FALSE
      BY <2>1, <2>2
      DEF StartStep, At, RefuseStart, AdmitStart, InstallAndEnable, InstallFails,
          CaptureCurrentState, Save, SaveOnFullDisk, SaveFails, Daemonize,
          DaemonizeFails, RunInForeground
    <2>3. ASSUME NEW p \in Pids, DaemonStep(p) PROVE FALSE
      BY <2>1, <2>3
      DEF DaemonStep, At, WritePidFile, WritePidOnFullDisk, WritePidFails,
          InstallHandlers, ApplyInitialState, Tick, TickUnderPressure, LeaveLoop,
          LoadNothing, Load, LoadThrows, RestoreKnob, RemovePidFile, RemovePidFails
    <2>4. ASSUME NEW p \in Pids, StopStep(p) \/ CleanStep(p) PROVE FALSE
      BY <2>1, <2>4
      DEF StopStep, CleanStep, At, RefuseStop, AdmitStop, SendStopSignal, Disable,
          DisableFails, RefuseClean, AdmitClean, RemoveStateDirectory,
          RemoveDirectoryFails, RemoveUnit, RemoveUnitFails
    <2>5. ASSUME NEW p \in Pids, UserStep(p) PROVE FALSE
      BY <1>1, <2>1, <2>5 DEF UserStep, At, Issue, Confirm, Decline
    <2>6. CASE MachineStep
      <3>1. CASE \/ \E q \in Pids : SpawnExecStop(q)
                 \/ SystemdTerm \/ BeginShutdown
                 \/ \E r \in Pids : ShutdownTerm(r)
                 \/ PowerOff \/ PowerLoss
                 \/ \E p \in Pids : Crash(p)
        BY <1>1, <2>1, <3>1
        DEF SpawnExecStop, SystemdTerm, BeginShutdown, ShutdownTerm, PowerOff, PowerLoss,
            Crash, Ours
      <3>2. CASE Boot
        BY <3>2 DEF Boot, Asleep
      <3>3. ASSUME NEW p \in Pids, ForeignArrives(p) PROVE Asleep'
        <4>1. \A q \in Pids : proc'[q].pc = IF q = p THEN "foreign" ELSE proc[q].pc
          BY <3>3, GotoSteps DEF ForeignArrives
        <4> QED BY <2>1, <3>3, <4>1 DEF ForeignArrives, Asleep, Ours
      <3> QED BY <2>6, <3>1, <3>2, <3>3 DEF MachineStep
    <2> QED BY <2>2, <2>3, <2>4, <2>5, <2>6 DEF Next
  <1>2. CASE power # "boot" /\ power' # "boot"
    BY <1>2 DEF Asleep
  <1>3. CASE power # "boot" /\ power' = "boot"
    <2>1. CASE Restart
      BY <2>1 DEF Restart, Asleep, Ours, Idle
    <2>2. CASE power' = power
      BY <1>3, <2>2
    <2>3. PowerOff \/ PowerLoss \/ power' = power
      <3>1. ASSUME NEW p \in Pids, StartStep(p) PROVE power' = power
        BY <3>1
        DEF StartStep, machine, RefuseStart, AdmitStart, InstallAndEnable, InstallFails,
            CaptureCurrentState, Save, SaveOnFullDisk, SaveFails, Daemonize,
            DaemonizeFails, RunInForeground
      <3>2. ASSUME NEW p \in Pids, DaemonStep(p) PROVE power' = power
        BY <3>2
        DEF DaemonStep, machine, WritePidFile, WritePidOnFullDisk, WritePidFails,
            InstallHandlers, ApplyInitialState, Tick, TickUnderPressure, LeaveLoop,
            LoadNothing, Load, LoadThrows, RestoreKnob, RemovePidFile, RemovePidFails
      <3>3. ASSUME NEW p \in Pids, StopStep(p) \/ CleanStep(p) PROVE power' = power
        BY <3>3
        DEF StopStep, CleanStep, machine, RefuseStop, AdmitStop, SendStopSignal, Disable,
            DisableFails, RefuseClean, AdmitClean, RemoveStateDirectory,
            RemoveDirectoryFails, RemoveUnit, RemoveUnitFails
      <3>4. ASSUME NEW p \in Pids, UserStep(p) PROVE power' = power
        BY <3>4 DEF UserStep, machine, Issue, Confirm, Decline
      <3>5. ASSUME MachineStep PROVE PowerOff \/ PowerLoss \/ power' = power
        BY <1>3, <3>5
        DEF MachineStep, machine, SpawnExecStop, SystemdTerm, BeginShutdown,
            ShutdownTerm, Boot, Crash, ForeignArrives
      <3> QED BY <3>1, <3>2, <3>3, <3>4, <3>5 DEF Next
    <2> QED BY <2>1, <2>2, <2>3 DEF PowerOff, PowerLoss
  <1> QED BY <1>1, <1>2, <1>3

LEMMA OneAtATimeInit == Init => OneAtATime
  BY DEF Init, OneAtATime, OneOwner, PidFileNamesDaemon, Owner, Published, Armed, Claiming,
         NeedsDirectory, CommandSteps, DaemonSteps, CleanSteps, Idle

LEMMA OneAtATimeStep ==
  ASSUME OneAtATimeUse, TypeOK, OneAtATime, [Next]_vars
  PROVE  OneAtATime'
  <1>0. Serial /\ Asleep
    BY OneAtATimeParts
  <1>1. CASE UNCHANGED vars
    BY <1>1 DEF vars, files, OneAtATime, OneOwner, PidFileNamesDaemon, Ours
  <1>2. CASE Next
    <2>1. Serial'
      BY <1>0, <1>2, StartStepSerial, DaemonStepSerial, StopStepSerial, CleanStepSerial,
         UserStepSerial, MachineStepSerial DEF Next
    <2>2. Asleep'
      BY <1>0, <1>2, AsleepStep
    <2> QED BY <2>1, <2>2, OneAtATimeParts
       DEF OneAtATime, Serial, Asleep, OneOwner, PidFileNamesDaemon
  <1> QED BY <1>1, <1>2

(* However many processes there are and however they crash, are signalled  *)
(* or lose power, commands that are issued one at a time never give the    *)
(* kernel settings two owners: the check of the pid file in `start` and    *)
(* `clean` is enough, as long as the pid file can be written.              *)
THEOREM OneAtATimeHolds ==
  ASSUME OneAtATimeUse
  PROVE  Spec => []OneAtATime
  <1>1. Init => TypeOK /\ OneAtATime
    BY TypeInit, OneAtATimeInit
  <1>2. TypeOK /\ OneAtATime /\ [Next]_vars => OneAtATime'
    BY OneAtATimeStep
  <1> QED BY <1>1, <1>2, TypeCorrect, PTL DEF Spec

(* At most one process owns the settings, and none while `clean` removes    *)
(* the directory with the backup.                                          *)
THEOREM OneOwnerHolds ==
  ASSUME OneAtATimeUse
  PROVE  Spec => []OneOwner
  <1>1. OneAtATime => OneOwner
    BY DEF OneAtATime
  <1> QED BY <1>1, OneAtATimeHolds, PTL

(* The daemon's pid is in the file from its publication to its end, so the *)
(* commands that come meanwhile see it.                                    *)
THEOREM PidFileNamesDaemonHolds ==
  ASSUME OneAtATimeUse
  PROVE  Spec => []PidFileNamesDaemon
  <1>1. OneAtATime => PidFileNamesDaemon
    BY DEF OneAtATime
  <1> QED BY <1>1, OneAtATimeHolds, PTL

-----------------------------------------------------------------------------
(* The originals are kept, and the tuning session is implemented, when     *)
(* moreover no bettercpu process crashes and the backup can be read back.  *)

CarefulUse == OneAtATimeUse /\ Limit["crash"] = 0 /\ SnapshotParses

\* The steps at which a setting may differ from its original value.
Tuning == {"loop", "load", "restore"}

\* The steps that rely on the backup.
Backed == {"launch"} \cup DaemonSteps

\* A process that neither leaves the tuning steps, nor comes to rely on the
\* backup, nor changes what it has in memory.
Steady(q) ==
  /\ proc[q].pc \in Tuning => proc'[q].pc \in Tuning
  /\ proc'[q].pc \in Backed => proc[q].pc \in Backed
  /\ proc'[q].pc \in {"save", "restore"} =>
       /\ proc'[q].pc = proc[q].pc
       /\ proc'[q].mem = proc[q].mem
       /\ proc'[q].at = proc[q].at

\* A step of steady processes that leaves the settings and the backup alone
\* preserves OriginalsKept.
LEMMA SteadyStep ==
  ASSUME OriginalsKept, \A q \in Pids : Steady(q),
         settings' = settings, backup' = backup
  PROVE  OriginalsKept'
  <1>1. Restored'
    BY DEF Steady, OriginalsKept, Restored, Tuning
  <1>2. ASSUME NEW p \in Pids
        PROVE  /\ proc'[p].pc \in Backed => backup' = Original
               /\ proc'[p].pc \in {"save", "restore"} => proc'[p].mem = Original
               /\ proc'[p].pc = "restore" =>
                    \A k \in Knobs : k < proc'[p].at => settings'[k] = "orig"
    BY DEF Steady, OriginalsKept, Backed
  <1> QED BY <1>1, <1>2 DEF OriginalsKept, Backed

\* Moving by Goto between steps that mean the same for the backup is steady.
LEMMA GotoSteady ==
  ASSUME TypeOK, NEW p \in Pids, NEW s \in PCs, Goto(p, s),
         proc[p].pc \in Tuning => s \in Tuning,
         s \in Backed => proc[p].pc \in Backed,
         s \notin {"save", "restore"}
  PROVE  \A q \in Pids : Steady(q)
  BY DEF TypeOK, Goto, Process, Steady

\* So is leaving from any other step than the tuning ones.
LEMMA LeaveSteady ==
  ASSUME TypeOK, NEW p \in Pids, NEW ok, Leave(p, ok), proc[p].pc \notin Tuning
  PROVE  \A q \in Pids : Steady(q)
  BY TypeParts, LeaveOK DEF Steady, Idle, Backed, DaemonSteps, Tuning

\* And so is SIGTERM, because the tuning steps are behind the handler.
LEMMA TerminatedSteady ==
  ASSUME TypeOK, NEW r \in Pids
  PROVE  \A q \in Pids :
           /\ proc[q].pc \in Tuning => Terminated(r)[q].pc \in Tuning
           /\ Terminated(r)[q].pc \in {proc[q].pc, "free"}
           /\ Terminated(r)[q].pc # "free" => /\ Terminated(r)[q].mem = proc[q].mem
                                              /\ Terminated(r)[q].at = proc[q].at
  <1>1. ProcOK(proc)
    BY TypeParts
  <1>2. CASE proc[r].pc \in Armed
    <2>1. /\ Terminated(r)[r].pc = proc[r].pc
          /\ Terminated(r)[r].mem = proc[r].mem
          /\ Terminated(r)[r].at = proc[r].at
      BY <1>1, <1>2, TerminatedOK
    <2>2. \A q \in Pids : q # r => Terminated(r)[q] = proc[q]
      BY <1>1, TerminatedOK
    <2> QED BY <2>1, <2>2
  <1>3. CASE proc[r].pc \notin Armed
    <2>1. Terminated(r)[r].pc = "free"
      BY <1>1, <1>3, TerminatedOK
    <2>2. proc[r].pc \notin Tuning
      BY <1>3 DEF Tuning, Armed
    <2> QED BY <1>1, <2>1, <2>2, TerminatedOK
  <1> QED BY <1>2, <1>3

LEMMA TerminatedIsSteady ==
  ASSUME TypeOK, NEW r \in Pids, proc' = Terminated(r)
  PROVE  \A q \in Pids : Steady(q)
  BY TerminatedSteady DEF Steady, Backed, DaemonSteps

\* With one owner, nobody tunes while another step of an owner is under way.
LEMMA NobodyTunes ==
  ASSUME OneAtATime, OriginalsKept, NEW p \in Pids,
         proc[p].pc \in (Owner \ Tuning) \cup {"clean_remove", "clean_unit"}
  PROVE  (\A q \in Pids : proc[q].pc \notin Tuning) /\ settings = Original
  BY DEF OneAtATime, OneOwner, OriginalsKept, Restored, Owner, Tuning, DaemonSteps,
         CommandSteps

LEMMA StartStepKeeps ==
  ASSUME OneAtATimeUse, TypeOK, OneAtATime, OriginalsKept, NEW p \in Pids, StartStep(p)
  PROVE  OriginalsKept'
  <1>1. CASE RefuseStart(p) \/ InstallFails(p) \/ SaveFails(p) \/ DaemonizeFails(p)
    BY <1>1, LeaveSteady, SteadyStep
    DEF RefuseStart, InstallFails, SaveFails, DaemonizeFails, At, Tuning, files, machine
  <1>2. CASE AdmitStart(p) \/ InstallAndEnable(p)
    <2>1. PICK s \in {"install", "prompt", "capture"} : Goto(p, s)
      BY <1>2 DEF AdmitStart, InstallAndEnable
    <2>2. \A q \in Pids : Steady(q)
      BY <1>2, <2>1, GotoSteady
      DEF AdmitStart, InstallAndEnable, At, Tuning, Backed, DaemonSteps, PCs, CommandSteps
    <2> QED BY <1>2, <2>2, SteadyStep DEF AdmitStart, InstallAndEnable, files, machine
  <1>3. CASE CaptureCurrentState(p)
    <2>1. settings = Original /\ \A q \in Pids : proc[q].pc \notin Tuning
      BY <1>3, NobodyTunes
      DEF CaptureCurrentState, At, Owner, CommandSteps, Tuning
    <2>2. /\ proc'[p].pc = "save" /\ proc'[p].mem = settings
          /\ \A q \in Pids : q # p => proc'[q] = proc[q]
      BY <1>3 DEF CaptureCurrentState, TypeOK, Process
    <2>3. settings' = settings /\ backup' = backup
      BY <1>3 DEF CaptureCurrentState, machine, files
    <2> QED BY <2>1, <2>2, <2>3 DEF OriginalsKept, Restored, DaemonSteps, Tuning
  <1>4. CASE Save(p)
    <2>1. settings = Original /\ \A q \in Pids : proc[q].pc \notin Tuning
      BY <1>4, NobodyTunes DEF Save, At, Owner, CommandSteps, Tuning
    <2>2. proc[p].mem = Original
      BY <1>4 DEF Save, At, OriginalsKept
    <2>3. /\ proc'[p].pc = "launch"
          /\ \A q \in Pids : q # p => proc'[q] = proc[q]
      BY <1>4 DEF Save, TypeOK, Process
    <2>4. settings' = settings /\ backup' = Original
      BY <1>4, <2>2 DEF Save, machine
    <2> QED BY <2>1, <2>3, <2>4 DEF OriginalsKept, Restored, DaemonSteps, Tuning
  <1>5. CASE SaveOnFullDisk(p)
    BY <1>5, NeverSpent DEF SaveOnFullDisk, OneAtATimeUse, Events
  <1>6. ASSUME NEW q \in Pids, Daemonize(p, q) PROVE OriginalsKept'
    <2>1. settings = Original /\ \A o \in Pids : proc[o].pc \notin Tuning
      BY <1>6, NobodyTunes DEF Daemonize, At, Owner, CommandSteps, Tuning
    <2>2. backup = Original
      BY <1>6 DEF Daemonize, At, OriginalsKept
    <2>3. \A o \in Pids : \/ proc'[o].pc \in {"free", "publish"}
                          \/ proc'[o] = proc[o]
      BY <1>6 DEF Daemonize, At, TypeOK, Process, Idle
    <2>4. settings' = settings /\ backup' = backup
      BY <1>6 DEF Daemonize, machine, files
    <2> QED BY <2>1, <2>2, <2>3, <2>4 DEF OriginalsKept, Restored, DaemonSteps, Tuning
  <1>7. CASE RunInForeground(p)
    <2>1. \A q \in Pids : Steady(q)
      BY <1>7, GotoSteady
      DEF RunInForeground, At, Tuning, Backed, DaemonSteps, PCs
    <2> QED BY <1>7, <2>1, SteadyStep DEF RunInForeground, files, machine
  <1> QED BY <1>1, <1>2, <1>3, <1>4, <1>5, <1>6, <1>7 DEF StartStep

LEMMA DaemonStepKeeps ==
  ASSUME OneAtATimeUse, SnapshotParses, TypeOK, OneAtATime, OriginalsKept,
         NEW p \in Pids, DaemonStep(p)
  PROVE  OriginalsKept'
  <1>0. proc[p].pc \in DaemonSteps => backup = Original
    BY DEF OriginalsKept
  <1>1. CASE WritePidFile(p) \/ InstallHandlers(p) \/ LeaveLoop(p)
    <2>1. PICK s \in {"arm", "apply", "load"} :
            Goto(p, s) /\ (proc[p].pc \in Tuning => s \in Tuning)
      BY <1>1 DEF WritePidFile, InstallHandlers, LeaveLoop, At, Tuning
    <2>2. proc[p].pc \in Backed
      BY <1>1 DEF WritePidFile, InstallHandlers, LeaveLoop, At, Backed, DaemonSteps
    <2>3. \A q \in Pids : Steady(q)
      BY <2>1, <2>2, GotoSteady DEF PCs, DaemonSteps
    <2> QED BY <1>1, <2>3, SteadyStep
            DEF WritePidFile, InstallHandlers, LeaveLoop, files, machine
  <1>2. CASE WritePidOnFullDisk(p)
    BY <1>2, NeverSpent DEF WritePidOnFullDisk, OneAtATimeUse, Events
  <1>3. CASE WritePidFails(p)
    BY <1>3
    DEF WritePidFails, At, OneAtATime, NeedsDirectory, Owner, DaemonSteps
  <1>4. CASE ApplyInitialState(p)
    <2>1. /\ proc'[p].pc = "loop"
          /\ \A q \in Pids : q # p => proc'[q] = proc[q]
      BY <1>4 DEF ApplyInitialState, Goto, TypeOK, Process
    <2>2. \A q \in Pids : proc[q].pc \notin Tuning
      BY <1>4, NobodyTunes DEF ApplyInitialState, At, Owner, DaemonSteps, Tuning
    <2>3. backup' = Original
      BY <1>0, <1>4 DEF ApplyInitialState, At, DaemonSteps, files
    <2> QED BY <2>1, <2>2, <2>3 DEF OriginalsKept, Restored, Tuning
  <1>5. ASSUME Tick(p) \/ \E r \in Pids : TickUnderPressure(p, r)
        PROVE  OriginalsKept'
    <2>1. proc[p].pc = "loop" /\ backup' = backup
      BY <1>5 DEF Tick, TickUnderPressure, At, files
    <2>2. \A q \in Pids : q # p => proc[q].pc \notin {"restore"}
      BY <2>1 DEF OneAtATime, OneOwner, Owner, DaemonSteps
    <2>3. \A q \in Pids : Steady(q)
      BY <1>5, TerminatedIsSteady DEF Tick, TickUnderPressure, Steady
    <2>4. backup = Original
      BY <1>0, <2>1 DEF DaemonSteps
    <2>5. proc'[p].pc \in Tuning
      BY <2>1, <2>3 DEF Steady, Tuning
    <2>6. \A q \in Pids : proc'[q].pc # "restore"
      BY <2>1, <2>2, <2>3 DEF Steady
    <2>7. \A q \in Pids : proc'[q].pc = "save" => proc'[q].mem = Original
      BY <2>3 DEF Steady, OriginalsKept
    <2> QED BY <2>1, <2>4, <2>5, <2>6, <2>7 DEF OriginalsKept, Restored, Tuning
  <1>6. CASE LoadNothing(p)
    BY <1>0, <1>6, ContentsType DEF LoadNothing, At, DaemonSteps
  <1>7. CASE Load(p)
    <2>1. /\ proc'[p].pc = "restore" /\ proc'[p].mem = backup /\ proc'[p].at = 1
          /\ \A q \in Pids : q # p => proc'[q] = proc[q]
      BY <1>7 DEF Load, TypeOK, Process
    <2>2. backup = Original /\ backup' = backup /\ settings' = settings
      BY <1>0, <1>7 DEF Load, At, DaemonSteps, files, machine
    <2>3. \A k \in Knobs : ~ k < 1
      BY DEF Knobs
    <2>4. Restored'
      BY <2>1 DEF Restored, Tuning
    <2> QED BY <2>1, <2>2, <2>3, <2>4 DEF OriginalsKept
  <1>8. CASE LoadThrows(p)
    BY <1>8 DEF LoadThrows
  <1>9. CASE RestoreKnob(p)
    <2> DEFINE k == proc[p].at
    <2>1. /\ proc[p].pc = "restore" /\ proc[p].mem = Original
          /\ \A i \in Knobs : i < k => settings[i] = "orig"
      BY <1>9 DEF RestoreKnob, At, OriginalsKept
    <2>2. k \in 1..NumKnobs
      BY ConstantsAssumption DEF TypeOK, Process
    <2>3. settings' = [settings EXCEPT ![k] = "orig"]
      BY <1>9, <2>1, <2>2 DEF RestoreKnob, Original, Knobs
    <2>4. \A i \in Knobs : i <= k => settings'[i] = "orig"
      BY <2>1, <2>2, <2>3 DEF TypeOK, Knobs
    <2>5. backup' = backup /\ backup = Original
      BY <1>0, <1>9, <2>1 DEF RestoreKnob, files, DaemonSteps
    <2>6. \A q \in Pids : q # p => /\ proc'[q] = proc[q]
                                   /\ proc[q].pc # "restore"
      BY <1>9, <2>1 DEF RestoreKnob, TypeOK, OneAtATime, OneOwner, Owner, DaemonSteps
    <2>7. CASE k = NumKnobs
      <3>1. proc'[p].pc = "unpublish"
        BY <1>9, <2>7 DEF RestoreKnob, TypeOK, Process
      <3>2. settings' = Original
        <4>1. settings' \in [Knobs -> Values]
          BY <2>2, <2>3 DEF TypeOK, Knobs, Values
        <4>2. \A i \in Knobs : settings'[i] = "orig"
          BY <2>4, <2>7, ConstantsAssumption DEF Knobs
        <4> QED BY <4>1, <4>2 DEF Original
      <3>3. Restored'
        BY <3>2 DEF Restored
      <3> QED BY <2>5, <2>6, <3>1, <3>3 DEF OriginalsKept
    <2>8. CASE k # NumKnobs
      <3>1. proc'[p] = [proc[p] EXCEPT !.at = k + 1]
        BY <1>9, <2>8 DEF RestoreKnob, TypeOK, Process
      <3>2. proc'[p].pc = "restore" /\ proc'[p].mem = Original /\ proc'[p].at = k + 1
        BY <2>1, <3>1 DEF TypeOK, Process
      <3>3. \A i \in Knobs : i < k + 1 => settings'[i] = "orig"
        BY <2>2, <2>4 DEF Knobs
      <3>4. Restored'
        BY <3>2 DEF Restored
      <3> QED BY <2>5, <2>6, <3>2, <3>3, <3>4 DEF OriginalsKept
    <2> QED BY <2>7, <2>8
  <1>10. CASE RemovePidFile(p)
    BY <1>10, LeaveSteady, SteadyStep DEF RemovePidFile, At, Tuning, machine
  <1>11. CASE RemovePidFails(p)
    BY <1>11, LeaveSteady, SteadyStep DEF RemovePidFails, At, Tuning, machine, files
  <1> QED BY <1>1, <1>2, <1>3, <1>4, <1>5, <1>6, <1>7, <1>8, <1>9, <1>10, <1>11 DEF DaemonStep

LEMMA StopStepKeeps ==
  ASSUME TypeOK, OriginalsKept, NEW p \in Pids, StopStep(p)
  PROVE  OriginalsKept'
  <1>1. CASE RefuseStop(p) \/ Disable(p) \/ DisableFails(p)
    BY <1>1, LeaveSteady, SteadyStep
    DEF RefuseStop, Disable, DisableFails, At, Tuning, files, machine
  <1>2. CASE AdmitStop(p)
    <2>1. \A q \in Pids : Steady(q)
      BY <1>2, GotoSteady DEF AdmitStop, At, Tuning, Backed, DaemonSteps, PCs, StopSteps
    <2> QED BY <1>2, <2>1, SteadyStep DEF AdmitStop, files, machine
  <1>3. CASE SendStopSignal(p)
    <2>1. pidFile \in Pids
      BY <1>3 DEF SendStopSignal, IsRunning, TypeOK
    <2>2. \A q \in Pids : Steady(q)
      <3>1. CASE pidFile = p
        BY <1>3, <2>1, <3>1, TerminatedIsSteady DEF SendStopSignal
      <3>2. CASE pidFile # p
        <4>1. Terminated(pidFile) \in [Pids -> Process]
          BY <2>1, TerminatedOK, TypeParts DEF ProcOK
        <4>2. proc' = [Terminated(pidFile) EXCEPT ![p].pc = "stop_disable"]
          BY <1>3, <3>2 DEF SendStopSignal
        <4>3. proc[p].pc = "stop_signal" /\ proc'[p].pc = "stop_disable"
          BY <1>3, <4>1, <4>2 DEF SendStopSignal, At, Process
        <4>4. \A q \in Pids : q # p => proc'[q] = Terminated(pidFile)[q]
          BY <4>1, <4>2
        <4>5. Steady(p)
          BY <4>3 DEF Steady, Tuning, Backed, DaemonSteps
        <4>6. \A q \in Pids : q # p => Steady(q)
          BY <2>1, <4>4, TerminatedSteady DEF Steady, Backed, DaemonSteps
        <4> QED BY <4>5, <4>6
      <3> QED BY <3>1, <3>2
    <2> QED BY <1>3, <2>2, SteadyStep DEF SendStopSignal, files, machine
  <1> QED BY <1>1, <1>2, <1>3 DEF StopStep

LEMMA CleanStepKeeps ==
  ASSUME TypeOK, OneAtATime, OriginalsKept, NEW p \in Pids, CleanStep(p)
  PROVE  OriginalsKept'
  <1>1. CASE RefuseClean(p) \/ RemoveUnit(p) \/ RemoveUnitFails(p)
    BY <1>1, LeaveSteady, SteadyStep
    DEF RefuseClean, RemoveUnit, RemoveUnitFails, At, Tuning, files, machine
  <1>2. CASE AdmitClean(p)
    <2>1. \A q \in Pids : Steady(q)
      BY <1>2, GotoSteady DEF AdmitClean, At, Tuning, Backed, DaemonSteps, PCs, CleanSteps
    <2> QED BY <1>2, <2>1, SteadyStep DEF AdmitClean, files, machine
  <1>3. CASE RemoveStateDirectory(p) \/ RemoveDirectoryFails(p)
    <2>1. proc[p].pc = "clean_remove" /\ settings' = settings
      BY <1>3 DEF RemoveStateDirectory, RemoveDirectoryFails, At, machine
    <2>2. settings = Original /\ \A q \in Pids : proc[q].pc \notin Owner
      BY <2>1, NobodyTunes DEF OneAtATime, OneOwner
    <2>3. PICK s \in {"free", "clean_unit"} :
            \A q \in Pids : proc'[q].pc = IF q = p THEN s ELSE proc[q].pc
      <3>1. CASE RemoveStateDirectory(p)
        BY <3>1, GotoSteps DEF RemoveStateDirectory
      <3>2. CASE RemoveDirectoryFails(p)
        BY <3>2, LeaveSteps DEF RemoveDirectoryFails
      <3> QED BY <1>3, <3>1, <3>2
    <2>4. \A q \in Pids : proc'[q].pc \notin Owner
      BY <2>2, <2>3 DEF Owner, CommandSteps, DaemonSteps
    <2>5. \A q \in Pids : proc'[q].pc \notin Backed \cup {"save", "restore"}
      BY <2>4 DEF Owner, Backed, CommandSteps, DaemonSteps
    <2>6. Restored'
      BY <2>1, <2>2 DEF Restored
    <2> QED BY <2>5, <2>6 DEF OriginalsKept, Backed
  <1> QED BY <1>1, <1>2, <1>3 DEF CleanStep

LEMMA UserStepKeeps ==
  ASSUME TypeOK, OriginalsKept, NEW p \in Pids, UserStep(p)
  PROVE  OriginalsKept'
  <1>1. ASSUME NEW command \in {"start", "stop", "clean"}, Issue(p, command)
        PROVE  OriginalsKept'
    <2>1. PICK s \in {"check", "stop_check", "clean_check"} : Goto(p, s)
      BY <1>1 DEF Issue
    <2>2. \A q \in Pids : Steady(q)
      BY <1>1, <2>1, GotoSteady
      DEF Issue, At, Tuning, Backed, DaemonSteps, PCs, CommandSteps, StopSteps, CleanSteps
    <2> QED BY <1>1, <2>2, SteadyStep DEF Issue, files
  <1>2. CASE Confirm(p)
    <2>1. \A q \in Pids : Steady(q)
      BY <1>2, GotoSteady DEF Confirm, At, Tuning, Backed, DaemonSteps, PCs, CommandSteps
    <2> QED BY <1>2, <2>1, SteadyStep DEF Confirm, files, machine
  <1>3. CASE Decline(p)
    BY <1>3, LeaveSteady, SteadyStep DEF Decline, At, Tuning, files, machine
  <1> QED BY <1>1, <1>2, <1>3 DEF UserStep

LEMMA MachineStepKeeps ==
  ASSUME TypeOK, OriginalsKept, MachineStep, \A p \in Pids : ~ Crash(p)
  PROVE  OriginalsKept'
  <1>1. ASSUME NEW q \in Pids, NEW s \in {"check", "stop_check"}, At(q, "free"),
               proc' = [proc EXCEPT ![q].pc = s, ![q].by = "systemd"]
        PROVE  \A o \in Pids : Steady(o)
    <2>1. proc'[q].pc = s /\ \A o \in Pids : o # q => proc'[o] = proc[o]
      BY <1>1 DEF TypeOK, Process
    <2> QED BY <1>1, <2>1 DEF At, Steady, Tuning, Backed, DaemonSteps
  <1>2. ASSUME NEW q \in Pids, SpawnExecStop(q) PROVE OriginalsKept'
    BY <1>1, <1>2, SteadyStep DEF SpawnExecStop, files, machine
  <1>3. CASE SystemdTerm
    <2>1. CASE UNCHANGED proc
      BY <1>3, <2>1, SteadyStep DEF SystemdTerm, Steady, files, machine
    <2>2. CASE \E r \in Pids : proc' = Terminated(r)
      BY <1>3, <2>2, TerminatedIsSteady, SteadyStep DEF SystemdTerm, files, machine
    <2> QED BY <1>3, <2>1, <2>2 DEF SystemdTerm
  <1>4. CASE BeginShutdown
    BY <1>4, SteadyStep DEF BeginShutdown, Steady, files
  <1>5. ASSUME NEW r \in Pids, ShutdownTerm(r) PROVE OriginalsKept'
    BY <1>5, TerminatedIsSteady, SteadyStep DEF ShutdownTerm, files, machine
  <1>6. CASE PowerOff \/ PowerLoss
    <2>1. settings' = Original /\ \A q \in Pids : proc'[q] = Idle
      BY <1>6 DEF PowerOff, PowerLoss, Restart
    <2> QED BY <2>1 DEF OriginalsKept, Restored, Idle, DaemonSteps
  <1>7. CASE Boot
    <2>1. \A q \in Pids : Steady(q)
      BY <1>1, <1>7 DEF Boot, Steady
    <2> QED BY <1>7, <2>1, SteadyStep DEF Boot, files
  <1>8. ASSUME NEW p \in Pids, ForeignArrives(p) PROVE OriginalsKept'
    <2>1. \A q \in Pids : Steady(q)
      BY <1>8, GotoSteady DEF ForeignArrives, At, Tuning, Backed, DaemonSteps, PCs
    <2> QED BY <1>8, <2>1, SteadyStep DEF ForeignArrives, files, machine
  <1> QED BY <1>2, <1>3, <1>4, <1>5, <1>6, <1>7, <1>8 DEF MachineStep

LEMMA OriginalsInit == Init => OriginalsKept
  BY DEF Init, OriginalsKept, Restored, Idle, DaemonSteps

\* Nothing but a crash makes it possible to lose the originals.
LEMMA OriginalsStep ==
  ASSUME OneAtATimeUse, SnapshotParses, TypeOK, OneAtATime, OriginalsKept,
         [Next]_vars, \A p \in Pids : ~ Crash(p)
  PROVE  OriginalsKept'
  <1>1. CASE UNCHANGED vars
    BY <1>1 DEF vars, files, OriginalsKept, Restored
  <1>2. CASE Next
    BY <1>2, StartStepKeeps, DaemonStepKeeps, StopStepKeeps, CleanStepKeeps,
       UserStepKeeps, MachineStepKeeps DEF Next
  <1> QED BY <1>1, <1>2

(* As long as the commands are used one at a time and nothing crashes, the *)
(* original values are in the backup until they are back in the kernel.    *)
THEOREM OriginalsKeptHolds ==
  ASSUME CarefulUse
  PROVE  Spec => []OriginalsKept
  <1>1. Init => OriginalsKept
    BY OriginalsInit
  <1>2. TypeOK /\ OneAtATime /\ OriginalsKept /\ [Next]_vars => OriginalsKept'
    <2>1. TypeOK => \A p \in Pids : ~ Crash(p)
      BY NeverSpent DEF Crash, CarefulUse, Events
    <2> QED BY <2>1, OriginalsStep DEF CarefulUse
  <1>3. OneAtATimeUse
    BY DEF CarefulUse
  <1> QED BY <1>1, <1>2, <1>3, TypeCorrect, OneAtATimeHolds, PTL DEF Spec

(* No exit of the daemon leaves a setting modified.                        *)
THEOREM RestoredHolds ==
  ASSUME CarefulUse
  PROVE  Spec => []Restored
  <1>1. OriginalsKept => Restored
    BY DEF OriginalsKept
  <1> QED BY <1>1, OriginalsKeptHolds, PTL

(* The original value of every modified setting is in the backup.          *)
THEOREM NothingLostHolds ==
  ASSUME CarefulUse
  PROVE  Spec => []NothingLost
  <1>1. OriginalsKept => NothingLost
    <2> SUFFICES ASSUME OriginalsKept, NEW k \in Knobs, settings[k] # "orig"
                 PROVE  backup # NoBackup /\ backup[k] = "orig"
      BY DEF NothingLost, OriginalsKept
    <2>1. settings # Original
      BY DEF Original
    <2>2. backup = Original
      BY <2>1 DEF OriginalsKept, Restored, DaemonSteps
    <2> QED BY <2>2, ContentsType DEF Original
  <1> QED BY <1>1, OriginalsKeptHolds, PTL

-----------------------------------------------------------------------------
(* The commands and the daemon implement the tuning session.               *)

\* The holder of the session is the process whose pid is published.
LEMMA HolderIs ==
  ASSUME TypeOK, PidFileNamesDaemon
  PROVE  /\ \A p \in Pids : proc[p].pc \in Published => SessionHolder = p
         /\ (\A p \in Pids : proc[p].pc \notin Published) => SessionHolder = NoPid
  BY DEF PidFileNamesDaemon, SessionHolder

LEMMA HolderIsNext ==
  ASSUME TypeOK', PidFileNamesDaemon'
  PROVE  /\ \A p \in Pids : proc'[p].pc \in Published => SessionHolder' = p
         /\ (\A p \in Pids : proc'[p].pc \notin Published) => SessionHolder' = NoPid
  BY DEF PidFileNamesDaemon, SessionHolder

\* What the steps below may assume.
StepContext ==
  /\ CarefulUse
  /\ TypeOK /\ OneAtATime /\ OriginalsKept
  /\ TypeOK' /\ OneAtATime'

\* Steps that publish and unpublish nothing keep the holder.
LEMMA SameHolder ==
  ASSUME StepContext,
         \A q \in Pids : proc'[q].pc \in Published <=> proc[q].pc \in Published
  PROVE  SessionHolder' = SessionHolder
  BY HolderIs, HolderIsNext DEF StepContext, OneAtATime

\* They are stutters of the session when they leave the settings alone, and
\* otherwise adjustments by the holder.
LEMMA StutterStep ==
  ASSUME StepContext, settings' = settings,
         \A q \in Pids : proc'[q].pc \in Published <=> proc[q].pc \in Published
  PROVE  UNCHANGED Session!vars
  BY SameHolder DEF Session!vars, Original

LEMMA AdjustStep ==
  ASSUME StepContext, NEW p \in Pids, proc[p].pc \in Published,
         \A q \in Pids : proc'[q].pc \in Published <=> proc[q].pc \in Published
  PROVE  Session!Next
  <1>1. SessionHolder' = SessionHolder
    BY SameHolder
  <1>2. SessionHolder # NoPid
    BY HolderIs, ConstantsAssumption DEF StepContext, OneAtATime
  <1> QED BY <1>1, <1>2 DEF Session!Next, Session!Adjust

\* A daemon that ends outside the tuning steps closes the session on settings
\* that are back at their originals.
LEMMA CloseStep ==
  ASSUME StepContext, NEW p \in Pids, proc[p].pc \in Published \ Tuning,
         settings' = settings,
         proc'[p].pc \notin Published,
         \A q \in Pids : q # p => (proc'[q].pc \in Published => proc[q].pc \in Published)
  PROVE  Session!Next
  <1>1. SessionHolder # NoPid
    BY HolderIs, ConstantsAssumption DEF StepContext, OneAtATime
  <1>2. settings = Original
    BY NobodyTunes
    DEF StepContext, Published, Armed, Owner, DaemonSteps
  <1>3. \A q \in Pids : proc'[q].pc \notin Published
    BY DEF StepContext, OneAtATime, OneOwner, Owner, Published, Armed, DaemonSteps
  <1>4. SessionHolder' = NoPid
    BY <1>3, HolderIsNext DEF StepContext, OneAtATime
  <1>5. settings' = Original
    BY <1>2
  <1> QED BY <1>1, <1>2, <1>4, <1>5 DEF Session!Next, Session!Close, Original

\* A process that ends outside the tuning steps, or that is signalled: either
\* it was the holder before its handler was installed, and closes, or nothing
\* happens to the session.
LEMMA EndStep ==
  ASSUME StepContext, NEW r \in Pids, proc[r].pc \notin Tuning, settings' = settings,
         proc'[r].pc \notin Published,
         \A q \in Pids : q # r => (proc'[q].pc \in Published <=> proc[q].pc \in Published)
  PROVE  Session!Next \/ UNCHANGED Session!vars
  <1>1. CASE proc[r].pc \in Published
    BY <1>1, CloseStep
  <1>2. CASE proc[r].pc \notin Published
    BY <1>2, StutterStep
  <1> QED BY <1>1, <1>2

LEMMA SignalStep ==
  ASSUME StepContext, NEW r \in Pids, settings' = settings,
         \A q \in Pids : \/ proc'[q].pc = Terminated(r)[q].pc
                         \/ proc[q].pc \in StopSteps /\ proc'[q].pc \in StopSteps
  PROVE  Session!Next \/ UNCHANGED Session!vars
  <1>1. ProcOK(proc)
    BY TypeParts DEF StepContext
  <1>2. \A q \in Pids : q # r => (proc'[q].pc \in Published <=> proc[q].pc \in Published)
    BY <1>1, TerminatedOK DEF Published, Armed, StopSteps
  <1>3. CASE proc[r].pc \in Armed
    <2>1. Terminated(r)[r].pc = proc[r].pc
      BY <1>1, <1>3, TerminatedOK
    <2> QED BY <1>2, <1>3, <2>1, StutterStep DEF Published, Armed, StopSteps
  <1>4. CASE proc[r].pc \notin Armed
    <2>1. proc'[r].pc \notin Published
      BY <1>1, <1>4, TerminatedOK DEF Published, Armed, StopSteps
    <2> QED BY <1>2, <1>4, <2>1, EndStep DEF Tuning, Armed
  <1> QED BY <1>3, <1>4

LEMMA LeaveStep ==
  ASSUME StepContext, NEW p \in Pids, NEW ok, Leave(p, ok), proc[p].pc \notin Tuning,
         settings' = settings
  PROVE  Session!Next \/ UNCHANGED Session!vars
  <1>1. \A q \in Pids : proc'[q].pc = IF q = p THEN "free" ELSE proc[q].pc
    BY LeaveSteps DEF StepContext
  <1> QED BY <1>1, EndStep DEF Published, Armed

LEMMA UnpublishedGoto ==
  ASSUME StepContext, NEW p \in Pids, NEW s, Goto(p, s), settings' = settings,
         proc[p].pc \in Published <=> s \in Published
  PROVE  UNCHANGED Session!vars
  <1>1. \A q \in Pids : proc'[q].pc = IF q = p THEN s ELSE proc[q].pc
    BY GotoSteps DEF StepContext
  <1> QED BY <1>1, StutterStep

LEMMA StartStepSession ==
  ASSUME StepContext, NEW p \in Pids, StartStep(p)
  PROVE  Session!Next \/ UNCHANGED Session!vars
  <1> USE DEF StepContext
  <1>1. CASE RefuseStart(p) \/ InstallFails(p) \/ SaveFails(p) \/ DaemonizeFails(p)
    BY <1>1, LeaveStep
    DEF RefuseStart, InstallFails, SaveFails, DaemonizeFails, At, Tuning, machine
  <1>2. CASE AdmitStart(p) \/ InstallAndEnable(p) \/ RunInForeground(p)
    BY <1>2, UnpublishedGoto
    DEF AdmitStart, InstallAndEnable, RunInForeground, At, Published, Armed, machine
  <1>3. CASE CaptureCurrentState(p) \/ Save(p) \/ SaveOnFullDisk(p)
    <2>1. /\ proc[p].pc \in {"capture", "save"} /\ proc'[p].pc \in {"save", "launch"}
          /\ \A q \in Pids : q # p => proc'[q] = proc[q]
      BY <1>3 DEF CaptureCurrentState, Save, SaveOnFullDisk, At, TypeOK, Process
    <2> QED BY <1>3, <2>1, StutterStep
            DEF CaptureCurrentState, Save, SaveOnFullDisk, machine, Published, Armed
  <1>4. ASSUME NEW q \in Pids, Daemonize(p, q) PROVE UNCHANGED Session!vars
    <2>1. \A o \in Pids : \/ proc'[o] = proc[o]
                          \/ /\ proc[o].pc \in {"launch", "free"}
                             /\ proc'[o].pc \in {"free", "publish"}
      BY <1>4 DEF Daemonize, At, TypeOK, Process, Idle
    <2> QED BY <1>4, <2>1, StutterStep DEF Daemonize, machine, Published, Armed
  <1> QED BY <1>1, <1>2, <1>3, <1>4 DEF StartStep

LEMMA DaemonStepSession ==
  ASSUME StepContext, NEW p \in Pids, DaemonStep(p)
  PROVE  Session!Next \/ UNCHANGED Session!vars
  <1> USE DEF StepContext
  <1>1. CASE WritePidFile(p)
    <2>1. \A q \in Pids : proc'[q].pc = IF q = p THEN "arm" ELSE proc[q].pc
      BY <1>1, GotoSteps DEF WritePidFile
    <2>2. proc[p].pc = "publish" /\ settings' = settings
      BY <1>1 DEF WritePidFile, At, machine
    <2>3. settings = Original
      BY <2>2, NobodyTunes DEF Owner, DaemonSteps, Tuning
    <2>4. \A q \in Pids : proc[q].pc \notin Published
      BY <2>2 DEF OneAtATime, OneOwner, Owner, Published, Armed, DaemonSteps
    <2>5. SessionHolder = NoPid
      BY <2>4, HolderIs DEF OneAtATime
    <2>6. SessionHolder' = p
      BY <2>1, HolderIsNext DEF OneAtATime, Published
    <2>7. settings' = Original
      BY <2>2, <2>3
    <2> QED BY <2>3, <2>5, <2>6, <2>7 DEF Session!Next, Session!Open, Original
  <1>2. CASE WritePidOnFullDisk(p)
    BY <1>2, NeverSpent DEF WritePidOnFullDisk, CarefulUse, OneAtATimeUse, Events
  <1>3. CASE WritePidFails(p)
    BY <1>3
    DEF WritePidFails, At, OneAtATime, NeedsDirectory, Owner, DaemonSteps
  <1>4. CASE InstallHandlers(p) \/ LeaveLoop(p) \/ LoadNothing(p)
    BY <1>4, UnpublishedGoto
    DEF InstallHandlers, LeaveLoop, LoadNothing, At, Published, Armed, machine
  <1>5. CASE ApplyInitialState(p) \/ Tick(p) \/ RestoreKnob(p)
    <2>1. proc[p].pc \in Published /\ proc'[p].pc \in Published
      BY <1>5
      DEF ApplyInitialState, Tick, RestoreKnob, Goto, At, TypeOK, Process, Published, Armed
    <2>2. \A q \in Pids : q # p => proc'[q].pc = proc[q].pc
      BY <1>5 DEF ApplyInitialState, Tick, RestoreKnob, Goto, TypeOK, Process
    <2> QED BY <2>1, <2>2, AdjustStep
  <1>6. ASSUME NEW r \in Pids, TickUnderPressure(p, r) PROVE Session!Next
    <2>1. ProcOK(proc) /\ proc' = Terminated(r) /\ proc[p].pc = "loop"
      BY <1>6, TypeParts DEF TickUnderPressure, At
    <2>2. \A q \in Pids : q # p => proc[q].pc \notin Published
      BY <2>1 DEF OneAtATime, OneOwner, Owner, Published, Armed, DaemonSteps
    <2>3. \A q \in Pids : q # r => proc'[q] = proc[q]
      BY <2>1, TerminatedOK
    <2>4. proc'[r].pc = proc[r].pc \/ (r # p /\ proc'[r].pc = "free")
      <3>1. CASE proc[r].pc \in Armed
        <4>1. Terminated(r)[r].pc = proc[r].pc
          BY <2>1, <3>1, TerminatedOK
        <4> QED BY <2>1, <4>1
      <3>2. CASE proc[r].pc \notin Armed
        <4>1. r # p
          BY <2>1, <3>2 DEF Armed
        <4> QED BY <2>1, <3>2, <4>1, TerminatedOK
      <3> QED BY <3>1, <3>2
    <2>5. \A q \in Pids : proc'[q].pc \in Published <=> proc[q].pc \in Published
      BY <2>2, <2>3, <2>4 DEF Published, Armed
    <2> QED BY <2>1, <2>5, AdjustStep DEF Published, Armed
  <1>7. CASE Load(p)
    <2>1. /\ proc[p].pc = "load" /\ proc'[p].pc = "restore"
          /\ \A q \in Pids : q # p => proc'[q] = proc[q]
      BY <1>7 DEF Load, At, TypeOK, Process
    <2> QED BY <1>7, <2>1, StutterStep DEF Load, machine, Published, Armed
  <1>8. CASE LoadThrows(p)
    BY <1>8 DEF LoadThrows, CarefulUse
  <1>9. CASE RemovePidFile(p) \/ RemovePidFails(p)
    BY <1>9, LeaveStep DEF RemovePidFile, RemovePidFails, At, Tuning, machine
  <1> QED BY <1>1, <1>2, <1>3, <1>4, <1>5, <1>6, <1>7, <1>8, <1>9 DEF DaemonStep

LEMMA CommandStepSession ==
  ASSUME StepContext, NEW p \in Pids, StopStep(p) \/ CleanStep(p) \/ UserStep(p)
  PROVE  Session!Next \/ UNCHANGED Session!vars
  <1> USE DEF StepContext
  <1>1. CASE RefuseStop(p) \/ Disable(p) \/ DisableFails(p) \/ RefuseClean(p)
             \/ RemoveDirectoryFails(p) \/ RemoveUnit(p) \/ RemoveUnitFails(p) \/ Decline(p)
    BY <1>1, LeaveStep
    DEF RefuseStop, Disable, DisableFails, RefuseClean, RemoveDirectoryFails, RemoveUnit,
        RemoveUnitFails, Decline, At, Tuning, machine
  <1>2. CASE AdmitStop(p) \/ AdmitClean(p) \/ RemoveStateDirectory(p) \/ Confirm(p)
    BY <1>2, UnpublishedGoto
    DEF AdmitStop, AdmitClean, RemoveStateDirectory, Confirm, At, Published, Armed, machine
  <1>3. ASSUME NEW command \in {"start", "stop", "clean"}, Issue(p, command)
        PROVE  UNCHANGED Session!vars
    <2>1. PICK s \in {"check", "stop_check", "clean_check"} : Goto(p, s)
      BY <1>3 DEF Issue
    <2> QED BY <1>3, <2>1, UnpublishedGoto DEF Issue, At, Published, Armed
  <1>4. CASE SendStopSignal(p)
    <2>1. pidFile \in Pids /\ settings' = settings /\ proc[p].pc \in StopSteps
      BY <1>4 DEF SendStopSignal, IsRunning, At, StopSteps, machine, TypeOK
    <2>2. \A q \in Pids : \/ proc'[q].pc = Terminated(pidFile)[q].pc
                          \/ proc[q].pc \in StopSteps /\ proc'[q].pc \in StopSteps
      <3>1. CASE pidFile = p
        BY <1>4, <3>1 DEF SendStopSignal
      <3>2. CASE pidFile # p
        <4>1. Terminated(pidFile) \in [Pids -> Process]
          BY <2>1, TerminatedOK, TypeParts DEF ProcOK
        <4>2. proc' = [Terminated(pidFile) EXCEPT ![p].pc = "stop_disable"]
          BY <1>4, <3>2 DEF SendStopSignal
        <4>3. proc'[p].pc = "stop_disable"
          BY <4>1, <4>2 DEF Process
        <4>4. \A q \in Pids : q # p => proc'[q] = Terminated(pidFile)[q]
          BY <4>1, <4>2
        <4> QED BY <2>1, <4>3, <4>4 DEF StopSteps
      <3> QED BY <3>1, <3>2
    <2> QED BY <2>1, <2>2, SignalStep
  <1> QED BY <1>1, <1>2, <1>3, <1>4 DEF StopStep, CleanStep, UserStep

LEMMA MachineStepSession ==
  ASSUME StepContext, MachineStep
  PROVE  Session!Next \/ UNCHANGED Session!vars
  <1> USE DEF StepContext
  <1>1. ASSUME NEW q \in Pids, NEW s \in {"check", "stop_check"}, At(q, "free"),
               proc' = [proc EXCEPT ![q].pc = s, ![q].by = "systemd"],
               settings' = settings
        PROVE  UNCHANGED Session!vars
    <2>1. proc'[q].pc = s /\ \A o \in Pids : o # q => proc'[o] = proc[o]
      BY <1>1 DEF TypeOK, Process
    <2> QED BY <1>1, <2>1, StutterStep DEF At, Published, Armed
  <1>2. ASSUME NEW r \in Pids, proc' = Terminated(r), settings' = settings
        PROVE  Session!Next \/ UNCHANGED Session!vars
    BY <1>2, SignalStep
  <1>3. ASSUME NEW q \in Pids, SpawnExecStop(q) PROVE UNCHANGED Session!vars
    BY <1>1, <1>3 DEF SpawnExecStop, machine
  <1>4. CASE SystemdTerm
    <2>1. CASE UNCHANGED proc
      BY <1>4, <2>1, StutterStep DEF SystemdTerm, machine
    <2>2. CASE \E r \in Pids : proc' = Terminated(r)
      BY <1>2, <1>4, <2>2 DEF SystemdTerm, machine
    <2> QED BY <1>4, <2>1, <2>2 DEF SystemdTerm
  <1>5. CASE BeginShutdown
    BY <1>5, StutterStep DEF BeginShutdown
  <1>6. ASSUME NEW r \in Pids, ShutdownTerm(r)
        PROVE  Session!Next \/ UNCHANGED Session!vars
    BY <1>2, <1>6 DEF ShutdownTerm, machine
  <1>7. CASE PowerOff \/ PowerLoss
    <2>1. settings' = Original /\ \A q \in Pids : proc'[q].pc = "free"
      BY <1>7 DEF PowerOff, PowerLoss, Restart, Idle
    <2>2. SessionHolder' = NoPid
      BY <2>1, HolderIsNext DEF OneAtATime, Published, Armed
    <2> QED BY <2>1, <2>2 DEF Session!Next, Session!MachineRestart, Original
  <1>8. CASE Boot
    <2>1. CASE UNCHANGED proc
      BY <1>8, <2>1, StutterStep DEF Boot
    <2> QED BY <1>1, <1>8, <2>1 DEF Boot
  <1>9. ASSUME NEW p \in Pids, Crash(p) PROVE FALSE
    BY <1>9, NeverSpent DEF Crash, CarefulUse, Events
  <1>10. ASSUME NEW p \in Pids, ForeignArrives(p) PROVE UNCHANGED Session!vars
    BY <1>10, UnpublishedGoto DEF ForeignArrives, At, Published, Armed, machine
  <1> QED BY <1>3, <1>4, <1>5, <1>6, <1>7, <1>8, <1>9, <1>10 DEF MachineStep

LEMMA SessionInit == Init => Session!Init
  BY DEF Init, Session!Init, SessionHolder, Idle, Published, Armed

LEMMA SessionStep ==
  ASSUME StepContext, [Next]_vars
  PROVE  [Session!Next]_(Session!vars)
  <1>1. CASE UNCHANGED vars
    BY <1>1 DEF vars, files, Session!vars, SessionHolder, Original
  <1>2. CASE Next
    BY <1>2, StartStepSession, DaemonStepSession, CommandStepSession, MachineStepSession
    DEF Next
  <1> QED BY <1>1, <1>2

(* With careful use the program keeps its promise: the settings change     *)
(* only inside a session held by the one daemon that bettercpu.pid names,  *)
(* and the session ends with every setting back at its original value.     *)
THEOREM SessionImplemented ==
  ASSUME CarefulUse
  PROVE  Spec => ImplementsSession
  <1>1. Init => Session!Init
    BY SessionInit
  <1>2. (/\ TypeOK /\ OneAtATime /\ OriginalsKept
         /\ TypeOK' /\ OneAtATime'
         /\ [Next]_vars) => [Session!Next]_(Session!vars)
    BY SessionStep DEF StepContext
  <1>3. OneAtATimeUse
    BY DEF CarefulUse
  <1> QED BY <1>1, <1>2, <1>3, TypeCorrect, OneAtATimeHolds, OriginalsKeptHolds, PTL
      DEF Spec, ImplementsSession, Session!Spec

-----------------------------------------------------------------------------
(* SIGTERM never cuts a tuning daemon short, however the program is used.  *)

\* A process is still behind its handler, or was not, or ends for a reason
\* that GracefulExit allows.
Excused(q) ==
  proc[q].pc \in Armed /\ ~ proc'[q].pc \in Armed =>
    \/ proc[q].pc = "unpublish"
    \/ used'["crash"] > used["crash"]
    \/ power' = "boot"
    \/ proc[q].pc = "load" /\ ~ SnapshotParses

LEMMA LeaveExcused ==
  ASSUME TypeOK, NEW p \in Pids, NEW ok, Leave(p, ok),
         proc[p].pc \notin Armed \/ proc[p].pc = "unpublish"
  PROVE  \A q \in Pids : Excused(q)
  BY LeaveSteps DEF Excused

LEMMA GotoExcused ==
  ASSUME TypeOK, NEW p \in Pids, NEW s, Goto(p, s),
         proc[p].pc \notin Armed \/ s \in Armed
  PROVE  \A q \in Pids : Excused(q)
  BY GotoSteps DEF Excused

LEMMA TerminatedExcused ==
  ASSUME TypeOK, NEW r \in Pids, proc' = Terminated(r)
  PROVE  \A q \in Pids : Excused(q)
  <1>1. \A q \in Pids : q # r => proc'[q] = proc[q]
    BY TypeParts, TerminatedOK
  <1>2. proc[r].pc \in Armed => proc'[r].pc = proc[r].pc
    BY TypeParts, TerminatedOK
  <1> QED BY <1>1, <1>2 DEF Excused

LEMMA StartStepExcused ==
  ASSUME TypeOK, NEW p \in Pids, StartStep(p)
  PROVE  \A q \in Pids : Excused(q)
  <1>1. CASE RefuseStart(p) \/ InstallFails(p) \/ SaveFails(p) \/ DaemonizeFails(p)
    BY <1>1, LeaveExcused
    DEF RefuseStart, InstallFails, SaveFails, DaemonizeFails, At, Armed
  <1>2. CASE AdmitStart(p) \/ InstallAndEnable(p) \/ RunInForeground(p)
    BY <1>2, GotoExcused DEF AdmitStart, InstallAndEnable, RunInForeground, At, Armed
  <1>3. CASE CaptureCurrentState(p) \/ Save(p) \/ SaveOnFullDisk(p)
    <2>1. /\ proc[p].pc \notin Armed
          /\ \A q \in Pids : q # p => proc'[q] = proc[q]
      BY <1>3 DEF CaptureCurrentState, Save, SaveOnFullDisk, At, TypeOK, Armed
    <2> QED BY <2>1 DEF Excused
  <1>4. ASSUME NEW o \in Pids, Daemonize(p, o) PROVE \A q \in Pids : Excused(q)
    <2>1. proc[p].pc \notin Armed /\ proc[o].pc \notin Armed
      BY <1>4 DEF Daemonize, At, Armed
    <2>2. \A q \in Pids : q # p /\ q # o => proc'[q] = proc[q]
      BY <1>4 DEF Daemonize, TypeOK
    <2> QED BY <2>1, <2>2 DEF Excused
  <1> QED BY <1>1, <1>2, <1>3, <1>4 DEF StartStep

LEMMA DaemonStepExcused ==
  ASSUME TypeOK, NEW p \in Pids, DaemonStep(p)
  PROVE  \A q \in Pids : Excused(q)
  <1>1. CASE WritePidFile(p) \/ WritePidOnFullDisk(p) \/ InstallHandlers(p)
             \/ ApplyInitialState(p) \/ LeaveLoop(p) \/ LoadNothing(p)
    BY <1>1, GotoExcused
    DEF WritePidFile, WritePidOnFullDisk, InstallHandlers, ApplyInitialState, LeaveLoop,
        LoadNothing, At, Armed
  <1>2. CASE WritePidFails(p)
    BY <1>2, GotoExcused, LeaveExcused DEF WritePidFails, At, Armed
  <1>3. CASE Tick(p)
    BY <1>3 DEF Tick, Excused
  <1>4. ASSUME NEW r \in Pids, TickUnderPressure(p, r)
        PROVE  \A q \in Pids : Excused(q)
    BY <1>4, TerminatedExcused DEF TickUnderPressure
  <1>5. CASE Load(p) \/ RestoreKnob(p)
    <2>1. /\ proc'[p].pc \in Armed
          /\ \A q \in Pids : q # p => proc'[q] = proc[q]
      BY <1>5 DEF Load, RestoreKnob, At, TypeOK, Process, Armed
    <2> QED BY <2>1 DEF Excused
  <1>6. CASE LoadThrows(p)
    <2>1. \A q \in Pids : q # p => proc'[q].pc = proc[q].pc
      BY <1>6, LeaveSteps DEF LoadThrows
    <2> QED BY <1>6, <2>1 DEF LoadThrows, At, Excused
  <1>7. CASE RemovePidFile(p) \/ RemovePidFails(p)
    BY <1>7, LeaveExcused DEF RemovePidFile, RemovePidFails, At
  <1> QED BY <1>1, <1>2, <1>3, <1>4, <1>5, <1>6, <1>7 DEF DaemonStep

LEMMA CommandStepExcused ==
  ASSUME TypeOK, NEW p \in Pids, StopStep(p) \/ CleanStep(p) \/ UserStep(p)
  PROVE  \A q \in Pids : Excused(q)
  <1>1. CASE RefuseStop(p) \/ Disable(p) \/ DisableFails(p) \/ RefuseClean(p)
             \/ RemoveDirectoryFails(p) \/ RemoveUnit(p) \/ RemoveUnitFails(p) \/ Decline(p)
    BY <1>1, LeaveExcused
    DEF RefuseStop, Disable, DisableFails, RefuseClean, RemoveDirectoryFails, RemoveUnit,
        RemoveUnitFails, Decline, At, Armed
  <1>2. CASE AdmitStop(p) \/ AdmitClean(p) \/ RemoveStateDirectory(p) \/ Confirm(p)
    BY <1>2, GotoExcused
    DEF AdmitStop, AdmitClean, RemoveStateDirectory, Confirm, At, Armed
  <1>3. ASSUME NEW command \in {"start", "stop", "clean"}, Issue(p, command)
        PROVE  \A q \in Pids : Excused(q)
    BY <1>3, GotoExcused DEF Issue, At, Armed
  <1>4. CASE SendStopSignal(p)
    <2>1. pidFile \in Pids /\ proc[p].pc \notin Armed
      BY <1>4 DEF SendStopSignal, IsRunning, At, Armed, TypeOK
    <2>2. CASE pidFile = p
      BY <1>4, <2>1, <2>2, TerminatedExcused DEF SendStopSignal
    <2>3. CASE pidFile # p
      <3>1. proc' = [Terminated(pidFile) EXCEPT ![p].pc = "stop_disable"]
        BY <1>4, <2>3 DEF SendStopSignal
      <3>2. Terminated(pidFile) \in [Pids -> Process]
        BY <2>1, TerminatedOK, TypeParts DEF ProcOK
      <3>3. \A q \in Pids : q # p => proc'[q] = Terminated(pidFile)[q]
        BY <3>1, <3>2
      <3>4. \A q \in Pids : q # p /\ q # pidFile => proc'[q] = proc[q]
        BY <2>1, <3>3, TerminatedOK, TypeParts
      <3>5. proc[pidFile].pc \in Armed => proc'[pidFile].pc = proc[pidFile].pc
        BY <2>1, <2>3, <3>3, TerminatedOK, TypeParts
      <3> QED BY <2>1, <3>4, <3>5 DEF Excused
    <2> QED BY <2>2, <2>3
  <1> QED BY <1>1, <1>2, <1>3, <1>4 DEF StopStep, CleanStep, UserStep

LEMMA MachineStepExcused ==
  ASSUME TypeOK, MachineStep
  PROVE  \A q \in Pids : Excused(q)
  <1>1. ASSUME NEW o \in Pids, NEW s, At(o, "free"),
               proc' = [proc EXCEPT ![o].pc = s, ![o].by = "systemd"]
        PROVE  \A q \in Pids : Excused(q)
    <2>1. proc[o].pc \notin Armed /\ \A q \in Pids : q # o => proc'[q] = proc[q]
      BY <1>1 DEF At, Armed, TypeOK
    <2> QED BY <2>1 DEF Excused
  <1>2. ASSUME NEW q \in Pids, SpawnExecStop(q) PROVE \A o \in Pids : Excused(o)
    BY <1>1, <1>2 DEF SpawnExecStop
  <1>3. CASE SystemdTerm
    <2>1. CASE UNCHANGED proc
      BY <2>1 DEF Excused
    <2>2. CASE \E r \in Pids : proc' = Terminated(r)
      BY <2>2, TerminatedExcused
    <2> QED BY <1>3, <2>1, <2>2 DEF SystemdTerm
  <1>4. CASE BeginShutdown
    BY <1>4 DEF BeginShutdown, Excused
  <1>5. ASSUME NEW r \in Pids, ShutdownTerm(r) PROVE \A q \in Pids : Excused(q)
    BY <1>5, TerminatedExcused DEF ShutdownTerm
  <1>6. CASE PowerOff \/ PowerLoss
    BY <1>6 DEF PowerOff, PowerLoss, Restart, Excused
  <1>7. CASE Boot
    <2>1. CASE UNCHANGED proc
      BY <2>1 DEF Excused
    <2> QED BY <1>1, <1>7, <2>1 DEF Boot
  <1>8. ASSUME NEW p \in Pids, Crash(p) PROVE \A q \in Pids : Excused(q)
    <2>1. used'["crash"] > used["crash"]
      BY <1>8 DEF Crash, Spend, TypeOK, Events
    <2> QED BY <2>1 DEF Excused
  <1>9. ASSUME NEW p \in Pids, ForeignArrives(p) PROVE \A q \in Pids : Excused(q)
    BY <1>9, GotoExcused DEF ForeignArrives, At, Armed
  <1> QED BY <1>2, <1>3, <1>4, <1>5, <1>6, <1>7, <1>8, <1>9 DEF MachineStep

LEMMA StepExcused ==
  ASSUME TypeOK, [Next]_vars
  PROVE  \A q \in Pids : Excused(q)
  <1>1. CASE UNCHANGED vars
    BY <1>1 DEF vars, Excused
  <1>2. CASE Next
    BY <1>2, StartStepExcused, DaemonStepExcused, CommandStepExcused,
       MachineStepExcused DEF Next
  <1> QED BY <1>1, <1>2

(* Whoever sends SIGTERM, and however the commands overlap, a daemon that  *)
(* has begun to tune ends by itself after restoring; only a crash, a       *)
(* restart of the machine or a backup it cannot parse ends it earlier.     *)
THEOREM GracefulExitHolds == Spec => GracefulExit
  <1>2. TypeOK /\ [Next]_vars =>
          [\A p \in Pids :
             proc[p].pc \in Armed /\ ~ proc'[p].pc \in Armed =>
               \/ proc[p].pc = "unpublish"
               \/ used'["crash"] > used["crash"]
               \/ power' = "boot"
               \/ proc[p].pc = "load" /\ ~ SnapshotParses]_vars
    BY StepExcused DEF Excused
  <1> QED BY <1>2, TypeCorrect, PTL DEF Spec, GracefulExit

=============================================================================
