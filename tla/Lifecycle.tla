------------------------------ MODULE Lifecycle ------------------------------
(***************************************************************************)
(* The bettercpu commands `start`, `stop` and `clean`, the daemon that     *)
(* `start` becomes, systemd running `--boot start` and `ExecStop`, and the *)
(* files and kernel settings they share.  Every process advances one       *)
(* system call (or one indivisible group of them) at a time, so the checks *)
(* and the acts of different processes interleave as they do on a machine. *)
(*                                                                         *)
(* A kernel setting is one of NumKnobs knobs; a knob is at the user's      *)
(* original value, tuned by a daemon, or zero.  What a tick computes is    *)
(* left to the policy; here it is only that a tick tunes.                  *)
(***************************************************************************)
EXTENDS Integers, FiniteSets

CONSTANTS
  Pids,            \* the process ids the machine hands out
  NoPid,           \* what read_pid() returns when the file names no process
  NumKnobs,        \* how many kernel settings there are, in restore order
  VmKnobs,         \* those among them that are leading integers of the backup
  NoBackup,        \* there is no backup file, or nothing in memory
  SnapshotParses,  \* load() can read back what save() wrote on this machine
  Overlap,         \* may a command be issued while another is under way
  Limit            \* how often each outside event happens in a behaviour

Knobs == 1..NumKnobs
Values == {"orig", "tuned", "zero"}

\* A saved knob that is "skip" has no value in the file: restoring leaves it.
Contents == [Knobs -> Values \cup {"skip"}]

\* Commands, failures of a step, and what the outside world does.
Events == {"start", "stop", "clean", "critical", "fault", "diskfull",
           "foreign", "crash", "shutdown", "power"}

ASSUME ConstantsAssumption ==
  /\ NoPid \notin Pids
  /\ NumKnobs \in Nat \ {0}
  /\ VmKnobs \subseteq Knobs
  /\ NoBackup \notin Contents
  /\ SnapshotParses \in BOOLEAN
  /\ Overlap \in BOOLEAN
  /\ Limit \in [Events -> Nat]

VARIABLES
  proc,      \* what each process id runs: a Process record
  settings,  \* the kernel settings in force
  dir,       \* does /var/lib/bettercpu exist
  pidFile,   \* the pid in bettercpu.pid, NoPid if there is none to read
  backup,    \* the contents of state_backup.dat
  unit,      \* the unit file: absent, installed (not enabled), or enabled
  svc,       \* systemd's view of bettercpu.service
  power,     \* is the machine up, shutting down, or about to boot
  wanted,    \* history: did the user last ask for tuning, not for its end
  used       \* how often each event has happened

files == <<dir, pidFile, backup>>
machine == <<settings, power>>
vars == <<proc, settings, dir, pidFile, backup, unit, svc, power, wanted, used>>

-----------------------------------------------------------------------------
(* Where a process is in its command; "free" and "foreign" are the process *)
(* ids that no bettercpu process has.                                      *)

CommandSteps == {"check", "prompt", "install", "capture", "save", "launch"}
DaemonSteps == {"publish", "arm", "apply", "loop", "load", "restore", "unpublish"}
StopSteps == {"stop_check", "stop_signal", "stop_disable"}
CleanSteps == {"clean_check", "clean_remove", "clean_unit"}
PCs == {"free", "foreign"} \cup CommandSteps \cup DaemonSteps
         \cup StopSteps \cup CleanSteps

\* The steps with the termination handler installed: SIGTERM only sets a flag.
Armed == {"apply", "loop", "load", "restore", "unpublish"}

\* The steps of a daemon whose pid has been written, until it removes the file.
Published == {"arm"} \cup Armed

\* The steps of a start that has passed its check, and of the daemon it becomes.
Owner == (CommandSteps \ {"check"}) \cup DaemonSteps

Process == [pc   : PCs,
            by   : {"user", "systemd"},        \* who started it
            stop : BOOLEAN,                    \* stop_requested_
            mem  : Contents \cup {NoBackup},   \* backup_state, saved_state
            at   : 1..(NumKnobs + 1)]          \* the next knob to restore

Idle == [pc |-> "free", by |-> "user", stop |-> FALSE, mem |-> NoBackup, at |-> 1]

Original == [k \in Knobs |-> "orig"]

\* What load() makes of an empty file: the integers extract as zero, and the
\* counts of cores and of devices as zero, so nothing else is restored.
EmptyFile == [k \in Knobs |-> IF k \in VmKnobs THEN "zero" ELSE "skip"]

At(p, step) == proc[p].pc = step
Alive(p) == proc[p].pc # "free"
Ours(p) == proc[p].pc \notin {"free", "foreign"}

Spend(event) ==
  /\ used[event] < Limit[event]
  /\ used' = [used EXCEPT ![event] = @ + 1]

Init ==
  /\ proc = [p \in Pids |-> Idle]
  /\ settings = Original
  /\ dir = FALSE
  /\ pidFile = NoPid
  /\ backup = NoBackup
  /\ unit = "absent"
  /\ svc = "inactive"
  /\ power = "up"
  /\ wanted = FALSE
  /\ used = [e \in Events |-> 0]

-----------------------------------------------------------------------------
(* Processes coming and going.                                             *)

IsRunning ==
  /\ pidFile # NoPid
  /\ Alive(pidFile)

\* The process systemd counts as the main process of the service.
Main(p) ==
  /\ Ours(p)
  /\ proc[p].by = "systemd"
  /\ proc[p].pc \notin StopSteps

\* The state of the service once p is gone: systemd runs ExecStop after a
\* clean exit of the main process (SIGTERM counts as clean), not after a failure.
ServiceAfter(p, ok) ==
  CASE Main(p) /\ svc = "active"  -> IF ok THEN "execstop" ELSE "inactive"
    [] Main(p) /\ svc = "waiting" -> "inactive"
    [] OTHER -> svc

Goto(p, step) == proc' = [proc EXCEPT ![p].pc = step]

Leave(p, ok) ==
  /\ proc' = [proc EXCEPT ![p] = Idle]
  /\ svc' = ServiceAfter(p, ok)

\* Mutants of Terminated: the handler is never installed, or assumed everywhere.
TerminatedByDefault(r) == [proc EXCEPT ![r] = Idle]
TerminatedByFlag(r) == [proc EXCEPT ![r].stop = TRUE]

\* kill(r, SIGTERM): handle_termination_signal if it is installed, otherwise
\* the default action, which also ends a process that is not bettercpu.
Terminated(r) ==
  IF proc[r].pc \in Armed THEN [proc EXCEPT ![r].stop = TRUE]
                          ELSE [proc EXCEPT ![r] = Idle]

ServiceAfterTerm(r) ==
  IF proc[r].pc \in Armed THEN svc ELSE ServiceAfter(r, TRUE)

\* Under way: a command before it is done, a daemon before its pid is written,
\* and systemd stopping the service.
InFlight ==
  \/ \E p \in Pids : proc[p].pc \in
        CommandSteps \cup {"publish"} \cup StopSteps \cup CleanSteps
  \/ svc \notin {"inactive", "active"}

\* A user with root privileges runs a command.
Issue(p, command) ==
  /\ power = "up"
  /\ Overlap \/ ~ InFlight
  /\ At(p, "free")
  /\ Spend(command)
  /\ Goto(p, CASE command = "start" -> "check"
               [] command = "stop"  -> "stop_check"
               [] command = "clean" -> "clean_check")
  /\ UNCHANGED <<settings, files, unit, svc, power, wanted>>

-----------------------------------------------------------------------------
(* run_start_command, up to the point where the daemon is on its own.      *)

RefuseStart(p) ==
  /\ At(p, "check")
  /\ IsRunning
  /\ Leave(p, FALSE)
  /\ UNCHANGED <<machine, files, unit, wanted, used>>

\* Mutants of AdmitStart: is_running() is not asked; --boot does not skip the prompt.
AdmitStartUnchecked(p) ==
  /\ At(p, "check")
  /\ Goto(p, IF proc[p].by = "systemd" THEN "install" ELSE "prompt")
  /\ UNCHANGED <<machine, files, unit, svc, wanted, used>>

AdmitStartAsking(p) ==
  /\ At(p, "check")
  /\ ~ IsRunning
  /\ Goto(p, "prompt")
  /\ UNCHANGED <<machine, files, unit, svc, wanted, used>>

AdmitStart(p) ==
  /\ At(p, "check")
  /\ ~ IsRunning
  /\ Goto(p, IF proc[p].by = "systemd" THEN "install" ELSE "prompt")
  /\ UNCHANGED <<machine, files, unit, svc, wanted, used>>

Confirm(p) ==
  /\ At(p, "prompt")
  /\ Goto(p, "install")
  /\ UNCHANGED <<machine, files, unit, svc, wanted, used>>

Decline(p) ==
  /\ At(p, "prompt")
  /\ Leave(p, TRUE)
  /\ UNCHANGED <<machine, files, unit, wanted, used>>

InstallAndEnable(p) ==
  /\ At(p, "install")
  /\ dir' = TRUE
  /\ unit' = "enabled"
  /\ Goto(p, "capture")
  /\ UNCHANGED <<machine, pidFile, backup, svc, wanted, used>>

\* The unit cannot be written, or systemctl fails after it was.
InstallFails(p) ==
  /\ At(p, "install")
  /\ Spend("fault")
  /\ dir' \in {dir, TRUE}
  /\ unit' \in {unit, IF unit = "absent" THEN "installed" ELSE unit}
  /\ Leave(p, FALSE)
  /\ UNCHANGED <<machine, pidFile, backup, wanted>>

CaptureCurrentState(p) ==
  /\ At(p, "capture")
  /\ proc' = [proc EXCEPT ![p].mem = settings, ![p].pc = "save"]
  /\ UNCHANGED <<machine, files, unit, svc, wanted, used>>

\* save() overwrites whatever backup there is.
Save(p) ==
  /\ At(p, "save")
  /\ dir
  /\ backup' = proc[p].mem
  /\ proc' = [proc EXCEPT ![p].mem = NoBackup, ![p].pc = "launch"]
  /\ UNCHANGED <<machine, dir, pidFile, unit, svc, wanted, used>>

\* good() is asked before the stream is flushed: on a full disk save() returns
\* true and leaves an empty file.
SaveOnFullDisk(p) ==
  /\ At(p, "save")
  /\ dir
  /\ Spend("diskfull")
  /\ backup' = EmptyFile
  /\ proc' = [proc EXCEPT ![p].mem = NoBackup, ![p].pc = "launch"]
  /\ UNCHANGED <<machine, dir, pidFile, unit, svc, wanted>>

SaveFails(p) ==
  /\ At(p, "save")
  /\ ~ dir
  /\ Leave(p, FALSE)
  /\ UNCHANGED <<machine, files, unit, wanted, used>>

\* Mutant of Daemonize: the pid file is written before the forks.
DaemonizeAfterPublishing(p, q) ==
  /\ At(p, "launch")
  /\ proc[p].by = "user"
  /\ At(q, "free")
  /\ proc' = [proc EXCEPT ![p] = Idle, ![q].pc = "arm"]
  /\ pidFile' = p
  /\ wanted' = TRUE
  /\ UNCHANGED <<machine, dir, backup, unit, svc, used>>

\* Two forks: the command has exited, the daemon goes on under a new pid.
Daemonize(p, q) ==
  /\ At(p, "launch")
  /\ proc[p].by = "user"
  /\ At(q, "free")
  /\ proc' = [proc EXCEPT ![p] = Idle, ![q].pc = "publish"]
  /\ wanted' = TRUE
  /\ UNCHANGED <<machine, files, unit, svc, used>>

DaemonizeFails(p) ==
  /\ At(p, "launch")
  /\ proc[p].by = "user"
  /\ Spend("fault")
  /\ Leave(p, FALSE)
  /\ UNCHANGED <<machine, files, unit, wanted>>

RunInForeground(p) ==
  /\ At(p, "launch")
  /\ proc[p].by = "systemd"
  /\ Goto(p, "publish")
  /\ UNCHANGED <<machine, files, unit, svc, wanted, used>>

-----------------------------------------------------------------------------
(* The daemon.                                                             *)

WritePidFile(p) ==
  /\ At(p, "publish")
  /\ dir
  /\ pidFile' = p
  /\ Goto(p, "arm")
  /\ UNCHANGED <<machine, dir, backup, unit, svc, wanted, used>>

\* As in save(), a full disk goes unnoticed and leaves nothing to read.
WritePidOnFullDisk(p) ==
  /\ At(p, "publish")
  /\ dir
  /\ Spend("diskfull")
  /\ pidFile' = NoPid
  /\ Goto(p, "arm")
  /\ UNCHANGED <<machine, dir, backup, unit, svc, wanted>>

\* The background daemon ignores the result of write_pid_file().
WritePidFails(p) ==
  /\ At(p, "publish")
  /\ ~ dir
  /\ \/ /\ proc[p].by = "user"
        /\ Goto(p, "arm")
        /\ UNCHANGED svc
     \/ /\ proc[p].by = "systemd"
        /\ Leave(p, FALSE)
  /\ UNCHANGED <<machine, files, unit, wanted, used>>

\* The engine is built, g_policy_engine set and the handler installed.
InstallHandlers(p) ==
  /\ At(p, "arm")
  /\ Goto(p, "apply")
  /\ UNCHANGED <<machine, files, unit, svc, wanted, used>>

\* The engine writes some settings; which, and to what value, is left open.
Tune(S) == settings' = [k \in Knobs |-> IF k \in S THEN "tuned" ELSE settings[k]]

ApplyInitialState(p) ==
  /\ At(p, "apply")
  /\ \E S \in SUBSET Knobs : Tune(S)
  /\ Goto(p, "loop")
  /\ UNCHANGED <<files, unit, svc, power, wanted, used>>

\* A tick: the policies decide what to write, and it sleeps.
Tick(p) ==
  /\ At(p, "loop")
  /\ ~ proc[p].stop
  /\ \E S \in SUBSET Knobs : Tune(S)
  /\ UNCHANGED <<proc, files, unit, svc, power, wanted, used>>

\* A tick under critical memory pressure also terminates the largest process,
\* whichever that is.
TickUnderPressure(p, r) ==
  /\ At(p, "loop")
  /\ ~ proc[p].stop
  /\ Alive(r)
  /\ Spend("critical")
  /\ \E S \in SUBSET Knobs : Tune(S)
  /\ proc' = Terminated(r)
  /\ svc' = ServiceAfterTerm(r)
  /\ UNCHANGED <<files, unit, power, wanted>>

\* Mutants of LeaveLoop: the settings are not restored; the flag is not honoured.
LeaveLoopUnrestored(p) ==
  /\ At(p, "loop")
  /\ proc[p].stop
  /\ Goto(p, "unpublish")
  /\ UNCHANGED <<machine, files, unit, svc, wanted, used>>

LeaveLoopForAnother(p) ==
  /\ At(p, "loop")
  /\ proc[p].stop
  /\ Goto(p, "apply")
  /\ UNCHANGED <<machine, files, unit, svc, wanted, used>>

LeaveLoop(p) ==
  /\ At(p, "loop")
  /\ proc[p].stop
  /\ Goto(p, "load")
  /\ UNCHANGED <<machine, files, unit, svc, wanted, used>>

\* load() of a file that is not there: nothing is restored.
LoadNothing(p) ==
  /\ At(p, "load")
  /\ backup = NoBackup
  /\ Goto(p, "unpublish")
  /\ UNCHANGED <<machine, files, unit, svc, wanted, used>>

Load(p) ==
  /\ At(p, "load")
  /\ backup # NoBackup
  /\ SnapshotParses \/ backup = EmptyFile
  /\ proc' = [proc EXCEPT ![p].mem = backup, ![p].at = 1, ![p].pc = "restore"]
  /\ UNCHANGED <<machine, files, unit, svc, wanted, used>>

\* std::stoi throws on the shifted tokens; nothing catches, the daemon aborts.
LoadThrows(p) ==
  /\ At(p, "load")
  /\ backup # NoBackup
  /\ ~ SnapshotParses
  /\ backup # EmptyFile
  /\ Leave(p, FALSE)
  /\ UNCHANGED <<machine, files, unit, wanted, used>>

\* Mutant of RestoreKnob: the last knob is forgotten.
RestoreKnobButLast(p) ==
  LET k == proc[p].at IN
  /\ At(p, "restore")
  /\ settings' = [settings EXCEPT ![k] = IF proc[p].mem[k] = "skip"
                                           THEN @ ELSE proc[p].mem[k]]
  /\ proc' = IF k >= NumKnobs - 1
               THEN [proc EXCEPT ![p].mem = NoBackup, ![p].at = 1,
                                 ![p].pc = "unpublish"]
               ELSE [proc EXCEPT ![p].at = k + 1]
  /\ UNCHANGED <<files, unit, svc, power, wanted, used>>

RestoreKnob(p) ==
  LET k == proc[p].at IN
  /\ At(p, "restore")
  /\ settings' = [settings EXCEPT ![k] = IF proc[p].mem[k] = "skip"
                                           THEN @ ELSE proc[p].mem[k]]
  /\ proc' = IF k = NumKnobs
               THEN [proc EXCEPT ![p].mem = NoBackup, ![p].at = 1,
                                 ![p].pc = "unpublish"]
               ELSE [proc EXCEPT ![p].at = k + 1]
  /\ UNCHANGED <<files, unit, svc, power, wanted, used>>

\* The file is removed whoever's pid it holds.
RemovePidFile(p) ==
  /\ At(p, "unpublish")
  /\ pidFile' = NoPid
  /\ Leave(p, TRUE)
  /\ UNCHANGED <<machine, dir, backup, unit, wanted, used>>

\* The result of std::remove is not asked: the daemon ends as if it had worked.
RemovePidFails(p) ==
  /\ At(p, "unpublish")
  /\ Spend("fault")
  /\ Leave(p, TRUE)
  /\ UNCHANGED <<machine, files, unit, wanted>>

-----------------------------------------------------------------------------
(* run_stop_command, and run_clean_command.                                *)

\* Mutant of RefuseStop: a signal that cannot be sent is tried for ever.
RefuseStopAtFirst(p) ==
  /\ At(p, "stop_check")
  /\ ~ IsRunning
  /\ Leave(p, FALSE)
  /\ UNCHANGED <<machine, files, unit, wanted, used>>

RefuseStop(p) ==
  /\ proc[p].pc \in {"stop_check", "stop_signal"}
  /\ ~ IsRunning
  /\ Leave(p, FALSE)
  /\ UNCHANGED <<machine, files, unit, wanted, used>>

AdmitStop(p) ==
  /\ At(p, "stop_check")
  /\ IsRunning
  /\ Goto(p, "stop_signal")
  /\ UNCHANGED <<machine, files, unit, svc, wanted, used>>

\* read_pid() again, then kill: the process may signal itself.
SendStopSignal(p) ==
  /\ At(p, "stop_signal")
  /\ IsRunning
  /\ proc' = IF pidFile = p
               THEN Terminated(p)
               ELSE [Terminated(pidFile) EXCEPT ![p].pc = "stop_disable"]
  /\ svc' = ServiceAfterTerm(pidFile)
  /\ UNCHANGED <<machine, files, unit, wanted, used>>

AfterDisable == IF unit = "enabled" THEN "installed" ELSE unit

\* Mutant of Disable: only ExecStop disables the unit.
DisableByService(p) ==
  /\ At(p, "stop_disable")
  /\ unit' = IF proc[p].by = "systemd" THEN AfterDisable ELSE unit
  /\ wanted' = (wanted /\ proc[p].by = "systemd")
  /\ Leave(p, TRUE)
  /\ UNCHANGED <<machine, files, used>>

Disable(p) ==
  /\ At(p, "stop_disable")
  /\ unit' = AfterDisable
  /\ wanted' = (wanted /\ proc[p].by = "systemd")
  /\ Leave(p, TRUE)
  /\ UNCHANGED <<machine, files, used>>

\* The result of systemctl is ignored.
DisableFails(p) ==
  /\ At(p, "stop_disable")
  /\ Spend("fault")
  /\ wanted' = (wanted /\ proc[p].by = "systemd")
  /\ Leave(p, TRUE)
  /\ UNCHANGED <<machine, files, unit>>

RefuseClean(p) ==
  /\ At(p, "clean_check")
  /\ IsRunning
  /\ Leave(p, FALSE)
  /\ UNCHANGED <<machine, files, unit, wanted, used>>

AdmitClean(p) ==
  /\ At(p, "clean_check")
  /\ ~ IsRunning
  /\ Goto(p, "clean_remove")
  /\ UNCHANGED <<machine, files, unit, svc, wanted, used>>

RemoveStateDirectory(p) ==
  /\ At(p, "clean_remove")
  /\ dir' = FALSE
  /\ pidFile' = NoPid
  /\ backup' = NoBackup
  /\ Goto(p, "clean_unit")
  /\ UNCHANGED <<machine, unit, svc, wanted, used>>

\* remove_all stops at the first entry it cannot remove.
RemoveDirectoryFails(p) ==
  /\ At(p, "clean_remove")
  /\ Spend("fault")
  /\ pidFile' \in {pidFile, NoPid}
  /\ backup' \in {backup, NoBackup}
  /\ Leave(p, FALSE)
  /\ UNCHANGED <<machine, dir, unit, wanted>>

RemoveUnit(p) ==
  /\ At(p, "clean_unit")
  /\ unit' = "absent"
  /\ wanted' = FALSE
  /\ Leave(p, TRUE)
  /\ UNCHANGED <<machine, files, used>>

\* The unit file cannot be removed, and whether it is still enabled depends on
\* what failed; or only the reload after its removal fails.
RemoveUnitFails(p) ==
  /\ At(p, "clean_unit")
  /\ Spend("fault")
  /\ unit' \in {unit, AfterDisable, "absent"}
  /\ wanted' = FALSE
  /\ Leave(p, FALSE)
  /\ UNCHANGED <<machine, files>>

-----------------------------------------------------------------------------
(* systemd, the machine, and other programs.                               *)

ExecStopRunning ==
  \E q \in Pids : proc[q].by = "systemd" /\ proc[q].pc \in StopSteps

SpawnExecStop(q) ==
  /\ svc = "execstop"
  /\ At(q, "free")
  /\ proc' = [proc EXCEPT ![q].pc = "stop_check", ![q].by = "systemd"]
  /\ svc' = "sigterm"
  /\ UNCHANGED <<machine, files, unit, wanted, used>>

\* After ExecStop, systemd signals the main process itself and waits for it.
SystemdTerm ==
  /\ svc = "sigterm"
  /\ ~ ExecStopRunning
  /\ \/ \E r \in Pids :
          /\ Main(r)
          /\ proc' = Terminated(r)
          /\ svc' = IF proc[r].pc \in Armed THEN "waiting" ELSE "inactive"
     \/ /\ \A r \in Pids : ~ Main(r)
        /\ svc' = "inactive"
        /\ UNCHANGED proc
  /\ UNCHANGED <<machine, files, unit, wanted, used>>

BeginShutdown ==
  /\ power = "up"
  /\ Spend("shutdown")
  /\ power' = "stopping"
  /\ svc' = IF svc = "active" THEN "execstop" ELSE svc
  /\ UNCHANGED <<proc, settings, files, unit, wanted>>

\* Processes outside the service are signalled when their session ends.
ShutdownTerm(r) ==
  /\ power = "stopping"
  /\ Ours(r)
  /\ proc[r].by = "user"
  /\ ~ proc[r].stop
  /\ proc' = Terminated(r)
  /\ svc' = ServiceAfterTerm(r)
  /\ UNCHANGED <<machine, files, unit, wanted, used>>

\* The settings live in memory: a restarted kernel has the original ones.
Restart ==
  /\ proc' = [p \in Pids |-> Idle]
  /\ settings' = Original
  /\ svc' = "inactive"
  /\ power' = "boot"
  /\ UNCHANGED <<files, unit, wanted>>

PowerOff ==
  /\ power = "stopping"
  /\ svc = "inactive"
  /\ \A p \in Pids : ~ Ours(p)
  /\ Restart
  /\ UNCHANGED used

PowerLoss ==
  /\ power # "boot"
  /\ Spend("power")
  /\ Restart

Boot ==
  /\ power = "boot"
  /\ power' = "up"
  /\ \/ /\ unit = "enabled"
        /\ \E p \in Pids :
             /\ At(p, "free")
             /\ proc' = [proc EXCEPT ![p].pc = "check", ![p].by = "systemd"]
        /\ svc' = "active"
     \/ /\ unit # "enabled"
        /\ UNCHANGED <<proc, svc>>
  /\ UNCHANGED <<settings, files, unit, wanted, used>>

\* SIGKILL, or an abort: the process is gone and nothing else happens.
Crash(p) ==
  /\ Ours(p)
  /\ Spend("crash")
  /\ Leave(p, FALSE)
  /\ UNCHANGED <<machine, files, unit, wanted>>

\* Some other program is given a free process id.
ForeignArrives(p) ==
  /\ power # "stopping"
  /\ At(p, "free")
  /\ Spend("foreign")
  /\ Goto(p, "foreign")
  /\ UNCHANGED <<machine, files, unit, svc, wanted>>

-----------------------------------------------------------------------------
StartStep(p) ==
  \/ RefuseStart(p) \/ AdmitStart(p)
  \/ InstallAndEnable(p) \/ InstallFails(p)
  \/ CaptureCurrentState(p)
  \/ Save(p) \/ SaveOnFullDisk(p) \/ SaveFails(p)
  \/ \E q \in Pids : Daemonize(p, q)
  \/ DaemonizeFails(p) \/ RunInForeground(p)

DaemonStep(p) ==
  \/ WritePidFile(p) \/ WritePidOnFullDisk(p) \/ WritePidFails(p)
  \/ InstallHandlers(p)
  \/ ApplyInitialState(p)
  \/ Tick(p)
  \/ \E r \in Pids : TickUnderPressure(p, r)
  \/ LeaveLoop(p)
  \/ LoadNothing(p) \/ Load(p) \/ LoadThrows(p)
  \/ RestoreKnob(p)
  \/ RemovePidFile(p) \/ RemovePidFails(p)

StopStep(p) ==
  \/ RefuseStop(p) \/ AdmitStop(p) \/ SendStopSignal(p)
  \/ Disable(p) \/ DisableFails(p)

CleanStep(p) ==
  \/ RefuseClean(p) \/ AdmitClean(p)
  \/ RemoveStateDirectory(p) \/ RemoveDirectoryFails(p)
  \/ RemoveUnit(p) \/ RemoveUnitFails(p)

UserStep(p) ==
  \/ \E command \in {"start", "stop", "clean"} : Issue(p, command)
  \/ Confirm(p)
  \/ Decline(p)

MachineStep ==
  \/ \E q \in Pids : SpawnExecStop(q)
  \/ SystemdTerm
  \/ BeginShutdown
  \/ \E r \in Pids : ShutdownTerm(r)
  \/ PowerOff
  \/ PowerLoss
  \/ Boot
  \/ \E p \in Pids : Crash(p) \/ ForeignArrives(p)

Next ==
  \/ \E p \in Pids : \/ StartStep(p) \/ DaemonStep(p)
                     \/ StopStep(p) \/ CleanStep(p)
                     \/ UserStep(p)
  \/ MachineStep

Spec == Init /\ [][Next]_vars

\* The kernel schedules every process, and systemd carries on with what it has
\* begun.  Nothing makes the user answer the prompt or issue a command.
Fairness ==
  /\ \A p \in Pids : WF_vars(StartStep(p) \/ DaemonStep(p) \/ StopStep(p) \/ CleanStep(p))
  /\ WF_vars(\E q \in Pids : SpawnExecStop(q))
  /\ WF_vars(SystemdTerm)
  /\ \A r \in Pids : WF_vars(ShutdownTerm(r))
  /\ WF_vars(PowerOff)
  /\ WF_vars(Boot)

FairSpec == Spec /\ Fairness

-----------------------------------------------------------------------------
(* Invariants.                                                             *)

\* Types; and what a process record holds at each step: the stop flag only
\* where request_stop() can be reached, a snapshot only between the capture and
\* the save and during the restore.
TypeOK ==
  /\ proc \in [Pids -> Process]
  /\ settings \in [Knobs -> Values]
  /\ dir \in BOOLEAN
  /\ pidFile \in Pids \cup {NoPid}
  /\ backup \in Contents \cup {NoBackup}
  /\ unit \in {"absent", "installed", "enabled"}
  /\ svc \in {"inactive", "active", "execstop", "sigterm", "waiting"}
  /\ power \in {"up", "stopping", "boot"}
  /\ wanted \in BOOLEAN
  /\ used \in [Events -> Nat]
  /\ \A p \in Pids : /\ proc[p].stop => proc[p].pc \in Armed
                     /\ proc[p].mem # NoBackup <=> proc[p].pc \in {"save", "restore"}
                     /\ proc[p].at <= NumKnobs

\* At most one process is past the already-running check of `start` or is the
\* daemon: nobody else captures, saves, tunes or restores at the same time, and
\* no `clean` removes the directory with the backup under it.
OneOwner ==
  /\ \A p, q \in Pids : proc[p].pc \in Owner /\ proc[q].pc \in Owner => p = q
  /\ \A p, q \in Pids : proc[p].pc \in {"clean_remove", "clean_unit"} =>
                          proc[q].pc \notin Owner

\* From the moment the daemon has written its pid until it removes the file,
\* bettercpu.pid names it, so `stop`, `start` and `clean` can see it.
PidFileNamesDaemon ==
  \A p \in Pids : proc[p].pc \in Published => pidFile = p

\* The backup holds the original value of every setting that is not at its
\* original value now: whatever happens next, nothing is lost.
NothingLost ==
  \A k \in Knobs : settings[k] # "orig" =>
                      backup # NoBackup /\ backup[k] = "orig"

\* Without a daemon that tunes or is still restoring, every setting has its
\* original value: no exit of the daemon leaves the system modified.
Restored ==
  (\A p \in Pids : proc[p].pc \notin {"loop", "load", "restore"})
    => settings = Original

\* When nothing is under way on a running machine and the user wants tuning,
\* the service is enabled, so that tuning resumes after the next boot.
WishKept ==
  wanted /\ power = "up" /\ ~ InFlight => unit = "enabled"

\* Tuning does not come back against the user's will: when nothing is under way
\* and the user does not want it, the unit is enabled only if a step has failed
\* or a command was cut short by the machine's end.
UnwantedStaysOff ==
  ~ wanted /\ power = "up" /\ ~ InFlight /\ unit = "enabled" =>
    \E e \in {"fault", "crash", "shutdown", "power"} : used[e] > 0

-----------------------------------------------------------------------------
(* What makes the invariants above inductive.                              *)

\* The commands that change or are about to change who owns the settings, and
\* the daemon that no one can see yet.
Claiming == CommandSteps \cup {"publish"} \cup CleanSteps

\* The steps between the creation of the state directory and the daemon's end.
NeedsDirectory == Owner \ {"prompt", "install"}

\* Commands that are issued one at a time never claim at the same time, the
\* directory stays as long as an owner needs it, and nothing of bettercpu outlives
\* a restart of the machine.
OneAtATime ==
  /\ OneOwner
  /\ PidFileNamesDaemon
  /\ \A p, q \in Pids : proc[p].pc \in Claiming /\ proc[q].pc \in Claiming => p = q
  /\ \A p \in Pids : proc[p].pc \in NeedsDirectory => dir
  /\ power = "boot" => svc = "inactive" /\ \A p \in Pids : ~ Ours(p)

\* The originals are in the snapshot before the save, in the backup until the
\* owner ends, and again in the daemon while it restores, knob after knob.
OriginalsKept ==
  /\ Restored
  /\ \A p \in Pids :
       /\ proc[p].pc \in {"launch"} \cup DaemonSteps => backup = Original
       /\ proc[p].pc \in {"save", "restore"} => proc[p].mem = Original
       /\ proc[p].pc = "restore" =>
            \A k \in Knobs : k < proc[p].at => settings[k] = "orig"

-----------------------------------------------------------------------------
(* Action properties.                                                      *)

\* Crashes alone lose nothing: where the settings are modified, the originals
\* leave the backup only when a process has crashed and, with no daemon left,
\* a later `start` saves the tuned values or `clean` removes the directory.
LostOnlyByCommand ==
  [][NothingLost /\ ~ NothingLost' =>
       /\ used["crash"] > 0
       /\ \A p \in Pids : proc[p].pc \notin DaemonSteps
       /\ \E p \in Pids : proc[p].pc \in {"save", "clean_remove"} /\ proc'[p] # proc[p]]_vars

\* A process that has begun to tune ends by itself, after restoring: no
\* SIGTERM from `stop`, systemd, shutdown or a tick cuts it short.  Only a crash,
\* a restart of the machine or a backup it cannot parse does.
GracefulExit ==
  [][\A p \in Pids :
       proc[p].pc \in Armed /\ ~ proc'[p].pc \in Armed =>
         \/ proc[p].pc = "unpublish"
         \/ used'["crash"] > used["crash"]
         \/ power' = "boot"
         \/ proc[p].pc = "load" /\ ~ SnapshotParses]_vars

-----------------------------------------------------------------------------
(* Liveness, under Fairness.                                               *)

\* A daemon that has been told to stop finishes restoring and exits.
StopTakesEffect ==
  \A p \in Pids : proc[p].stop ~> At(p, "free")

\* A shutdown completes: ExecStop, SIGTERM and the daemon's own restoring do
\* not wait for one another forever.
ShutdownCompletes == power = "stopping" ~> power = "boot"

Resumed == unit # "enabled" \/ \E p \in Pids : At(p, "loop")

\* After a boot with the service enabled that finds no pid file left behind the
\* daemon tunes again, unless the user disables the service or the machine is
\* shut down before.
CleanBootResumes ==
  power = "boot" /\ unit = "enabled" /\ pidFile = NoPid ~>
    Resumed \/ power = "stopping"

-----------------------------------------------------------------------------
(* The promise: a session is held by the daemon that bettercpu.pid names.  *)

SessionHolder ==
  IF \E p \in Pids : pidFile = p /\ proc[p].pc \in Published THEN pidFile ELSE NoPid

Session == INSTANCE TuningSession WITH
  Holders <- Pids, Nobody <- NoPid,
  holder <- SessionHolder, modified <- (settings # Original)

\* The commands and the daemon implement the tuning session.
ImplementsSession == Session!Spec
=============================================================================
