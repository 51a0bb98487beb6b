# A model of bettercpu

bettercpu is a command-line tool whose `start` command becomes a root daemon
that tunes kernel settings (cpufreq, block devices, virtual memory) and whose
`stop` and `clean` commands end it. This directory holds TLA+ specifications of
it, TLC configurations that check them on small instances, and TLAPS proofs of
the properties that should hold on every instance. Paths below are relative to
the root of the sources (`core/src/policy_engine.cpp`, `cli/src/main.cpp`, ...).

## 1. The system

| Part | Code | State it keeps | Operations |
|---|---|---|---|
| Commands | `cli/src/main.cpp` | none of their own | `start` (113-208), `stop` (210-233), `clean` (252-280), `status` (235-250), `p` (578-644) |
| DaemonControl | `core/src/daemon_control.cpp` | `/var/lib/bettercpu/bettercpu.pid` | `is_running`, `write_pid_file`, `remove_pid_file`, `send_stop_signal`, `daemonize` |
| StateBackup | `core/src/state_backup.cpp` | `/var/lib/bettercpu/state_backup.dat` | `save`, `load` |
| SystemdPersistence | `core/src/systemd_persistence.cpp` | the unit file, and whether it is enabled | `install_and_enable`, `disable`, `remove` |
| PolicyEngine | `core/src/policy_engine.cpp` | what it has applied (ceilings, governors, EPP values, schedulers), `stop_requested_` | `apply_initial_state`, `tick`, `run`, `request_stop` |
| Governor, Sensors, MemGuard, IoStorage, Topology | `core/src/*.cpp` | none: they read and write sysfs and procfs | readings and writes of one file each |
| ProcessManager | `core/src/process_manager.cpp` | none between two calls | `collect_programs`, `kill_program`, `kill_process` |

The commands are separate processes. They meet only in shared state: the two
files of the state directory, the unit file, the kernel settings, and signals.
`start` checks the pid file, asks the user, installs the unit, captures the
settings, saves them, forks twice, writes the pid file, and only then installs
the handler of SIGTERM and begins to tune; after SIGTERM the daemon leaves its
loop, loads the backup, writes every value back and removes the pid file.
systemd runs `start` without prompt and fork at boot, and `stop` as ExecStop.

What is hard about it:

* *ids that age*: an id of `p` is a position in a listing that is gone when `p -k`
  makes another one;
* *interleaving*: every check (`is_running`) is separated from the act it
  guards by prompts, forks and file operations of other processes;
* *signals*: SIGTERM kills the daemon before the handler is installed and sets a
  flag after it, and comes from `stop`, from systemd, from shutdown, and from
  the daemon's own memory policy;
* *crashes and restarts*: the pid file and the backup survive the daemon and
  the machine, the settings survive the daemon but not the machine;
* *failing steps*: a full disk, a write that sysfs rejects, a unit that cannot
  be enabled, results that nobody looks at;
* *stale knowledge*: the engine trusts its copy of what it has applied, readings
  may be missing, a pid may belong to another program;
* *numbers*: steps of a twentieth with a floor, steps of five with a floor;
* *formats*: the backup is a text of tokens, in which an empty value vanishes.

What makes each part correct, and where it is stated:

* commands and daemon: one owner of the settings, a pid file that names it, an
  original value that is never lost, an exit that leaves nothing modified
  (`Lifecycle`, promised by `TuningSession`);
* backup: what is loaded is what was captured (`BackupRestore`);
* thermal policy: ceilings stay in range, fall step by step, come back exactly
  when it is cool (`ThermalCap`, promised by `StepWise`);
* memory policy: sysctls stay in range and are restored (`MemoryPolicy`), and no
  process that was clearly larger is spared for the one terminated (`MemoryScan`);
* load and I/O policy: what the engine believes applied is applied, except where
  a core or device has failed since, and values follow load and queues
  (`DevicePolicy`);
* `p`: what is terminated is what the user chose, and all of it (`ProcessList`).

## 2. The modules

### TuningSession and Lifecycle

`TuningSession.tla` is the promise: at most one session is open, settings
change only inside a session, and a session closes only when nothing is left
modified. `Lifecycle.tla` is the program.

A process is a record `proc[p]`: the step it has reached (`pc`), who started it
(`by`), `stop_requested_` (`stop`), the settings it holds in memory (`mem`:
`backup_state` or `saved_state`), and the next knob of the restore (`at`). Every
action is one system call or one group of calls that nothing else can come
between as far as the shared state goes. The steps of `run_start_command` are
`check`, `prompt`, `install`, `capture`, `save`, `launch`; those of the daemon
`publish` (pid file), `arm` (handlers), `apply`, `loop`, `load`, `restore`,
`unpublish`. `stop` is `stop_check`, `stop_signal`, `stop_disable`; `clean` is
`clean_check`, `clean_remove`, `clean_unit`. Refusals and failures of a step are
actions beside it (`RefuseStart`, `InstallFails`, `SaveFails`, `WritePidFails`,
`DisableFails`, ...).

`settings` holds a value of each of `NumKnobs` knobs: original, tuned, or zero.
A tick may tune any set of knobs; what it computes is the subject of the policy
modules. `dir`, `pidFile`, `backup` are the state directory and its files;
`unit` and `svc` are the unit file and systemd's view of the service; `power` is
the state of the machine. `wanted` is a history variable: did the user last ask
for tuning. Outside events (commands, failures, crashes, shutdowns, other
programs that take a free pid) are counted in `used` and bounded by `Limit`.

Three behaviours of the environment are modelled from how the code uses them.
systemd runs ExecStop when the service is stopped and also after the main
process has exited cleanly, then signals what is left of the service and waits
for it. A shutdown stops the service and signals all other processes. A restarted
kernel has the original settings.

`SnapshotParses` and `EmptyFile` summarise the backup's format: `load()` throws
(`SnapshotParses = FALSE`) or reads back what `save()` wrote, and an empty file
reads as zeros. That is coarser than the format: values may also be shifted, or
left out, without an exception. `BackupRestore` shows when each happens, and a
knob of `Lifecycle` stands for a setting that is neither shifted nor left out.

A step that fails is a `fault`. The failures that nobody looks at are among
them: `std::remove` of the pid file (`RemovePidFails`, after which the pid of a
process that has ended stays), and the parts of `SystemdPersistence::remove`
(`RemoveUnitFails`: the unit file may stay, enabled or not, or be gone with only the
reload after it failing).

### BackupRestore

One life of the backup, with the tokens themselves, one action per line of the
text: `CaptureCurrentState`; `SaveSysctls`, `SaveCore`, `SaveDeviceCount`,
`SaveDevice`, `Saved`; `Tune`; `LoadSysctls`, `LoadCore` or `LoadThrows`,
`LoadDeviceCount`, `LoadDevice`, `Loaded`; `Restore`. `left` is what the loop of
`save()` or `load()` has not come to, `stream` how many tokens `load()` has read and
whether its stream is still good. An empty string (`Empty`) leaves no token
(`Token`); a value is extracted only when all before it were, and a number only from
a token in `Numbers` (`Extracts`): after that numbers are zero and words empty
(`Value`). `std::stoi` throws on an EPP token that is neither `none` nor a number
(`EppThrows`). `TunedSchedulers` is what the I/O policy may have set by then:
`none` or `mq-deadline` on a device whose name begins with `nvme`, `mq-deadline` on
a rotational one, nothing on any other, and on no device a scheduler that the
machine does not have. Values and tokens are strings, and `Numerals` are those for 0, 1, 2
and so on, for the counts and the ids of cores. A restore writes what the kernel
accepts: nothing for a core without cpufreq, a device that does not exist, or an
unknown scheduler.

`Machine` says which settings a machine may have: a core without a governor has no
EPP file either, block devices are entries of a directory, so that no two have the
same name, and none has the name of a scheduler. There are more `Numerals` than
cores or devices. `TokenAssumption` says that no governor, scheduler or number is
the empty string, and that different counts are different tokens.

### ThermalCap

`evaluate_thermal_policy` with the zones read one after the other and the cores
capped one after the other, while temperatures, sensors and drivers change.
`ceiling` is the kernel's `scaling_max_freq`, `original` and `current` the
engine's two maps. A sensor reads, is `gone` (its files do not open: the zone is
left out) or `garbled` (the read fails: `temp_millidegrees` is not initialised
and may be anything). A driver accepts, is `gone` (the file does not open) or
`rejects`: `write_value` asks `good()` before the stream is flushed, so the
engine believes a rejected write. Two history variables: `actual` records the
temperature of each zone at the time the tick came to it, `rejected` the cores
whose last write was rejected. One core stands for one cpufreq policy.

`StepWise.tla` is the promise, an abstract controller without sensors, drivers,
ticks and copies: it comes to one verdict on the whole machine at a time (over,
between or cool), and under a verdict each ceiling moves at most once, down by at
most a twentieth or up to the original. `Verdict` and `Pending` map the policy to
it: there is a verdict while the tick goes through the cores. Its ceilings are the
ones `Asked` for, the engine's copies, so that it is implemented whatever fails; how
the kernel's ceilings differ from them is the subject of `Informed`.

### MemoryPolicy and MemoryScan

`MemoryPolicy.tla` is `evaluate_memory_policy` with every read and write of a file
as a step: the pressure, the cache pressure, the two readings of `dirty_ratio` and
its write, or a termination, which may hit the daemon; before it the capture,
after it the restore of the two sysctls. `WriteRatio` is the kernel: a value out of
range is rejected, a new ratio replaces `dirty_bytes`. An administrator may write
between any two steps. `vm.vfs_cache_pressure` is not followed above `MaxVfs`.

`MemoryScan.tla` is that termination: `OpenProc`, `ReadStatus` of one pid after the
other, the sort (`TopMemoryConsumer`) and the signal (`RequestTermination`). At any
moment between them a process starts, also under a pid that has just become free,
grows, shrinks or exits, and the signal goes to whoever has the pid by then, or to
nobody. `least` and `most` are history variables: between which sizes each pid has
been since the walk began. They say what the code can promise, because no reading
is newer than the walk: a process that was larger, all the time, than the victim's pid
ever was is not spared (`LargerNotSpared`). To be the largest at every single moment
is not enough: two processes may take turns at being small when they are read. That
is why the liveness property, `LargestSignalled`, is about a process that stays above
a size to which no other gets.

### DevicePolicy

`apply_initial_state`, `evaluate_load_policy` and `evaluate_io_policy` of tick
after tick, one core or device per step. `applied` is `applied_epp_` and
`applied_schedulers_`, `level` the activity level, `target` the EPP value of the
tick, `todo` what the loop has not come to, `hinting` the device between its
scheduler and its latency targets. The load is a range between the thresholds
(`LoadRanges`, one of them for a machine whose cores cannot be counted) and may
change between the two readings of a tick; a queue is long or short. What the
tick finds of memory pressure and temperatures is any choice in
`ClassifyActivity`. A core or device goes away (files do not open), comes back
with any value, or rejects writes, which `set_epp` and `set_scheduler` report as
done. `doubtful` is a history variable: what came back, or rejected a write,
after the last write it accepted. The latency targets are written into
`queue/iosched`, which holds the parameters of the scheduler in force: under
`none` there are none, and the files do not open (`latency` collects the devices
that got them). Governors are left out: each is written once,
before the first tick, through the same kind of cache.

### ProcessList

`bettercpu p`, then `p -k` with any id. `collect_programs` is `ListPids` (all
first readings), `ReadAgain` per process, and `Sort`; `std::sort` may leave equal
elements in any order (`Sorted`). `listed` remembers what the listing showed
under each id, `aim` what the typed id meant in it, `sure` whether a tie could
have put it elsewhere, `calm` whether anything but the commands has happened
since. The commands use the CPU as well: each has in its own listing any number of
ticks (`Fork`), since `collect_programs` runs between its own two readings. It is
therefore not enough for an id that no other program had the same usage: the CPU of
the commands may move bettercpu's own program past it. `Untied` asks that the usage
lies outside of what that program may have without the command and with it
(`OwnUse`). A process is told from a later one with its pid by its number of birth
(`born`), which the program does not know. Both commands are processes
themselves, appear in their own samples, and are named like the daemon. `Ids` is
what `parse_program_id` and `parse_process_id` make of a token, the empty
sequence what they refuse; numbers above `MaxSize` stand for those at which
`std::stoul` throws. `Total` is a program's usage, the sum over its processes, counted
tick by tick. Pids are finite and an index of any listing is a number `std::stoul`
can return (`ListAssumption`): a pid has 22 bits, an unsigned long has 64.

## 3. What TLC checks

Processes, knobs, zones and devices are few because every property is about one
pair of them at a time; the event bounds allow each event to meet each other one.

| Run | Instance | What it shows |
|---|---|---|
| `careful` | 3 pids, 2 knobs, 2 starts, 1 of each other event, no crash, no full disk, commands one at a time | `NothingLost`, `Restored`; `UnwantedStaysOff`: only a failed step or the machine's end leaves the service enabled after a stop; and `ImplementsSession`: the program implements `TuningSession` |
| `crashes` | the same with a crash, no shutdown | `OneOwner` (which includes that no clean removes the backup under an owner) and `PidFileNamesDaemon` hold also when processes die and leave files behind; `LostOnlyByCommand`: a crash alone loses nothing, a `start` or `clean` after it may |
| `chaos` | every event once but other programs, commands overlapping, backups that do not parse | `TypeOK`; `GracefulExit`: SIGTERM never cuts a tuning daemon short |
| `live` | fair, one start, one stop, two shutdowns (the second finds the service running), one critical tick | `StopTakesEffect`, `ShutdownCompletes`, `CleanBootResumes` |
| `backup` | 1-2 cores of 4 kinds, up to 3 of 5 devices in any order, tuned in any way their kinds and queues allow | `RoundTrip`, `AbortsOnlyWithoutGovernor`; `RestoredButForGaps`: where `load()` does not throw, only a named EPP value and the devices from the first one without a scheduler on are not restored |
| `thermal` | fair, 2 cores (ceilings 400 and 401), 2 zones, one fault of any kind, of a sensor or a driver | `TypeOK`, `CapInRange`, `Informed`, `LiftedOnlyWhenCool`, `ImplementsStepWise`; under fairness `Recovers`, `Throttles`, and `RejectionEnds`: a core that has rejected a write falls into step again when the machine has become hot and cool once more |
| `memory` | fair, ratios 3, 12, 20 or a byte limit, an administrator who writes at most twice | `TypeOK`, `RatioPositive`, `RatioRestored`, `RatioSettles` |
| `memory_scan` | fair, 3 pids, one the daemon's, sizes 0 and 1, any number of processes that start, change and exit | `LargerNotSpared`, `LargestSignalled` |
| `devices` | fair, a core, an NVMe and a rotational device, 3 schedulers, all 5 load ranges, 1 fault | `TypeOK`, `CacheTrue`; `HintLost`: no device that took the scheduler it was given gets the latency targets; under fairness `EppFollowsLoad`, `SchedulerFollowsQueue`, and `DoubtEnds`: a stale record lasts until the wish has changed |
| `processes` | 3 pids, 3 names (one is bettercpu's), CPU 0 or 1, ids and ranges of 0, 1 and 3, 2 events | `TypeOK`, `ListsEveryone`, `KillsWhatWasListed`, `WholeProgram`, `ReportTrue` |

Three pids are the fewest with which a command, the daemon it forks and a second
command or another program exist together. Two knobs are the fewest with a
partly done restore; one of them is a sysctl, the other not, which tells an empty
backup apart. From a ceiling of 400 steps of a twentieth reach the floor after
14 of them, the fewest there can be, and the last is cut to the floor; 401 has a half
that is rounded. One fault at a time is enough for two cores and zones that do not
look at each other, and what a healed one leaves behind stays in `rejected` or
in the engine's copies. Ratios of 20, 12 and 3 end a descent on five, pass below it, and start below it.
Entries of the engine's record are independent of each other, so one core and one
device of each kind that is written show every order of writes and faults; one
fault makes a record stale, and the next fault would meet the same state. With
`kyber` the machine has a scheduler that the engine never chooses and that alone
has latency targets. In `processes` two processes of one program and the command,
or two programs and the command, exist at a time; the largest number typed is
beyond every id and throws. Two events are the fewest that give a pid to another
process (it ends, another begins) between two samples.

In `memory_scan` two sizes tell larger from smaller and equal; the victim, the one it
is compared with and the daemon are the three pids.

Deadlock is not checked in `Lifecycle`, `BackupRestore`, `MemoryPolicy` and
`ProcessList`: they may really come to rest, when every event has been used up, the
settings are restored, or the daemon or the command has ended. `ThermalCap`,
`MemoryScan` and `DevicePolicy` never stop and are checked.

The inductive invariants `OneAtATime` and `OriginalsKept`, with which `OneOwner`,
`PidFileNamesDaemon` and `Restored` are proved, and `FallsStepwise`, which follows
from `Informed` and `ImplementsStepWise`, have theorems and no run.

The symmetry of pids is used in safety runs only; no invariant or step names one of
them.

### Where the code departs from its documentation

The first two runs end in a counterexample; the properties of the third state what
the code does instead. The quotations are in `PROJECT.json`. Line numbers are those of
the repository's README.

| Run | What happens |
|---|---|
| `shutdown_disables` (`WishKept`) | line 29 promises tuning after a reboot; ExecStop is `stop`, which disables the unit: the service does not start after the next shutdown |
| `no_scheduler` (`Restored`) | line 130 promises that every value is restored; a device without a scheduler shifts the pairs after it, and `nvme0n1` stays at the `mq-deadline` of its busy queue |
| `devices` (`SchedulerFollowsQueue`) | line 114 gives NVMe devices `none`, rotational ones and SATA SSDs `mq-deadline`, under moderate load or more; the engine acts from a light load on, gives an NVMe device with more than four requests in flight `mq-deadline`, a rotational one its scheduler once, and a SATA SSD none |
| `devices` (`HintLost`) | line 120 has latency targets written to NVMe devices under `none`; the files for them exist under another scheduler only, so a device gets them only when it has not taken `none` |

The models contain other behaviour that one may not expect. No run is spent on
it, but the assumptions of the passing runs and of the theorems name it:

* A daemon that dies while tuning leaves the tuned values in the kernel; the next
  `start` captures them and overwrites the only copy of the originals
  (`StateBackup::exists` is never asked), and `clean` removes it. `NothingLost`
  therefore assumes that nothing crashes; `LostOnlyByCommand` says that these two
  are the only ways.
* A write that the driver rejects counts as done (`write_value`, `governor.cpp:26`)
  and is not repeated: a core that has rejected the one that lifts the cap keeps the
  low ceiling on a cool machine, and one that has rejected steps takes them all at once
  with the next. What is said of the kernel's ceilings, except for their range, leaves
  out a core as long as it is `rejected`; `RejectionEnds` says what ends that.
* The records of EPP values and schedulers go stale in the same way, and also when
  a core or device goes and comes back with its default: nothing is written until
  the load or the queue asks for another value. `CacheTrue` excludes what is in
  doubt, `DoubtEnds` says when the doubt ends.
* Ids of `p` are stable on a quiet machine only, and not among programs of equal
  usage, such as all idle ones, nor next to bettercpu's own program, whose usage is not
  the same in the two listings. `p -k` on bettercpu's own program signals the
  command itself, in the middle of the loop if it comes first. A number that
  `std::stoul` cannot hold ends the command with an exception.
* `stop` refuses after a crash and so leaves the service enabled
  (`UnwantedStaysOff` allows it).
* With overlapping commands (`Overlap`), a second `start` passes its check while
  the first is at its prompt, captures tuned values, and its restore leaves them;
  `clean` removes the directory between the daemon's fork and its pid file.
* SIGTERM between the pid file and the handler kills the daemon and leaves the
  file; so does a `std::remove` that fails. A later `stop` then signals the program
  that has the pid now. After a power loss, or a shutdown that comes in that moment, the program may be the next
  boot's daemon itself, and `start` refuses: `CleanBootResumes` is about a boot
  that finds no pid file.
* On a full disk (`diskfull`) `save()` returns true for a file that stays empty.
* A named EPP is not saved and stays overwritten; a core without governor shifts
  its line, `std::stoi` throws and nothing is restored. `RestoredButForGaps` and
  `AbortsOnlyWithoutGovernor` say that among the settings of `BackupState` these are
  the only gaps beside `no_scheduler`. Two more settings are in no backup at all: the
  limit in bytes that a written ratio clears (below), and the latency targets
  (`HintLost`).
* A hot zone that cannot be opened in one tick counts as recovered
  (`LiftedOnlyWhenCool` asks only for the zones that can be read).
* Writing the ratio clears `dirty_bytes`; a ratio below five is raised to five; a
  foreign write between the two readings of the ratio makes the daemon write zero, or a
  negative number, which the kernel rejects; and the ten-second average is still
  critical in the ticks after a termination, so that several processes may be
  terminated.
* The signal of the memory policy goes to whoever has the pid when it is sent.

### Fairness

`Lifecycle!Fairness` gives weak fairness to each process (the kernel schedules
it), to systemd's own steps and to the end of a shutdown and a boot. The user is
not fair: the prompt may stay unanswered, no command has to come. `StartStep`,
`DaemonStep`, `StopStep` and `CleanStep` are one fairness condition per process,
since a process is sequential. Failures, crashes and other programs are never
bound to happen, and systemd's own timeouts, which would kill what does not end,
are not relied on. The `FairSpec` of `ThermalCap`, `MemoryScan`, `MemoryPolicy` and
`DevicePolicy` assumes only that the daemon's thread runs and its sleeps end (in
`MemoryPolicy` also that a daemon that has been signalled leaves its loop), and
nothing of temperatures, loads, queues, devices and other processes: the liveness
properties are implications from what eventually stays true of them.

## 4. What is proved

All proofs are for every number of pids, knobs, events, cores, zones, ceilings,
devices, processes and sizes; TLC's instances only guided them.

`LifecycleProofs.tla`

* `TypeCorrect`: types, and what a process record may hold at each step.
* `OneAtATimeHolds`, `OneOwnerHolds`, assuming `OneAtATimeUse`: commands are not issued while another is under way, and the
  disk is never full. `OneOwner` is not inductive: it needs that the pid file
  names every published daemon, that at most one process is on its way to
  becoming an owner, that `clean` is past its check only without an owner, that
  the directory exists as long as an owner needs it, and that nothing survives a
  restart. Together these are `OneAtATime`, which no crash breaks: a stale pid
  file can only make commands refuse.
* `PidFileNamesDaemonHolds`, from the same invariant.
* `OriginalsKeptHolds`, `NothingLostHolds`, `RestoredHolds`, assuming `CarefulUse` (no crash, and
  a backup that parses as well): the originals are in the snapshot until the
  save, in the backup until the daemon ends, and in its memory while it restores,
  with the prefix already written at its original values. Crashes must be
  excluded: a `start` after a crash loses the originals.
* `SessionImplemented`: under `CarefulUse` the initial states are initial states
  of `TuningSession`, and every step is a step of it or a stutter, by the
  refinement `holder <- SessionHolder`, `modified <- settings # Original`. A pid
  written is `Open`, ticks and restored knobs are `Adjust`, the removal of the pid
  file is `Close`.
* `GracefulExitHolds`, without any assumption on use: a daemon past its handler
  ends only from `unpublish`, in a crash, in a restart of the machine, or where
  its backup does not parse.

`LifecycleMishaps.tla`, what only mishaps bring about; assuming `OneAtATimeUse`

* `UnwantedStaysOffHolds`: as long as no step has failed, nothing has crashed and
  the machine has not gone down, the user runs every process and one command at a
  time (`Uneventful`), and an enabled unit is wanted or some `start` past its
  installation is still pending; nothing ends that one, because the only daemon
  that could signal it would be a second owner. Mishaps are never forgotten.
* `LostOnlyByCommandHolds`, assuming also that a backup parses: crashes are allowed.
  `Traced` says that a setting that is not original in the backup is not original in
  the kernel while an owner relies on the backup, so that neither tuning nor
  restoring loses anything that was not lost before. Until the first crash
  `OriginalsKept` holds (`Unharmed`), so no command can lose anything either.

`ThermalCapProofs.tla`

All of them hold for all faults of sensors and drivers.

* `TypeCorrect` and `CapInRangeHolds` are inductive together with `CopiesInRange`:
  an unsigned step stays a natural number because the copy is between half the
  original and the original.
* `InformedHolds`, `LiftedOnlyWhenCoolHolds`, `FallsStepwiseHolds`: a ceiling moves
  only by an accepted write of a target that differs from the copy, and there, unless
  the core has rejected its last write, the copy is the ceiling, and what was read of a
  zone that could be read is its temperature.
* `StepWiseImplemented`: the policy implements `StepWise`. `CapFollows` shows that
  what is asked of one core is a move its verdict allows; the rest of a tick is a
  stutter, its end is `Forget`.

`MemoryPolicyProofs.tla`

* `TypeCorrect` holds however an administrator writes.
* `RatioPositiveHolds`, `RatioRestoredHolds` speak of a machine whose limit is a
  ratio that nobody else has written so far (`RatioUndisturbed`): there the second
  reading of the ratio finds what the first compared (`LimitsKept`).

`MemoryScanProofs.tla`

* `TypeCorrect` and `LargerNotSparedHolds`, for any pids and sizes, however processes
  start, change and exit between any two steps. What was read of a pid lies between the
  least and the most that pid has had (`ReadingsBetween`), which later changes can only
  move apart, and the victim's reading is the highest (`VictimRead`).

`DevicePolicyProofs.tla`

* `TypeCorrect`, `CacheTrueHolds`, `HintLostHolds`, for any cores, devices,
  schedulers and faults. Inductive is `Inv`: types, `CacheTrue`, and `HintSound`,
  which says that a device about to be given latency targets is in doubt, has gone,
  or has the scheduler `none`. What one cached write does to setting, record and
  doubts is stated once for cores and once for devices (`EppStep`,
  `SchedulerStep`).

`ProcessListProofs.tla`

* `TypeCorrect`, `ListingComplete`, `WholeProgramSignalled`, `ReportIsTrue`, for any
  number of processes, however they come, go, work and take each other's pids. The
  programs of a listing are a partition of the samples by name, at most one sample
  per pid (`ProgramsInv`), and what still has to be signalled of a program is what
  has neither been signalled nor ended (`KillInv`).
* `SignalsWhatWasListed`: the two listings are made by two commands, each of which is
  in its own samples, and `std::sort` may leave ties in any order in both. `Rank`
  says that the place of a member with a key of its own is one more than the number
  of members with a larger key, in every sorted order. Removing one command from a
  listing and adding the other changes the usage of bettercpu's own program alone, and
  an `Untied` program is either above that usage in both listings or below it in both
  (`SwapRank`). `Foreseen` says of the time between the start of
  `p -k` and its look-up that whatever it lists shows the same under the id,
  `Settled` that it has.

`BackupRestoreProofs.tla`

* `AbortIsOfMissingGovernor`, `RestoresButForGaps`, `LoadReturnsWhatWasSaved`, for any
  number of cores and devices with any settings, and any tuning. No induction over
  the text is needed, because both loops are loops of actions. Inductive is `IInv`:
  core `i` has the tokens `5i + 1` to `5i + 5` as long as every core before it has a
  governor (`CoresWritten`), a device the two tokens up to its `DeviceEnd` as long as
  it and every device before it have a scheduler, and its name does not come again
  after them (`DevicesWritten`). `load()` therefore stands at the line of the core or
  device it has come to (`Loading`), reads what was captured, and throws at the
  first core without governor, whose fifth token is not a number. After the first
  device without a scheduler nothing is known of the pairs but that none has the name
  of an earlier device, so that no restored scheduler is overwritten. `Retuned` says
  that tuning creates and removes no file.

Only model-checked: everything about liveness (`StopTakesEffect`,
`ShutdownCompletes`, `CleanBootResumes`, `Recovers`, `Throttles`, `RejectionEnds`,
`RatioSettles`, `LargestSignalled`, `EppFollowsLoad`, `SchedulerFollowsQueue`, `DoubtEnds`), since TLAPS does not reason
about fairness here. The two properties of the runs that end in a counterexample do
not hold.

## 5. What is not modelled

* The length of a sleep, and the policies of one tick together: they meet only in
  the activity level, which `DevicePolicy` chooses freely; `ThermalCap`,
  `MemoryPolicy` with `MemoryScan`, and `DevicePolicy` write disjoint settings. In `Lifecycle` a tick
  takes one step.
* `status`, help, colours and the layout of a listing: they print and change
  nothing. Build and packaging scripts: no run-time behaviour.
* Of Topology the ids, siblings and capacities of cores, which nothing reads; of
  IoStorage and Sensors what has no caller.
* The names of programs beyond being equal or not: the kernel cuts them to fifteen
  bytes, so that two programs may be one to `p`.
* The root check: every command is issued by root.
* Which file of sysfs is which: a setting is a knob in `Lifecycle`, a named field
  in the other modules. Cores that go on- or offline between capture and restore.
* Overlapping commands and a full disk beyond `TypeOK` and `GracefulExit`: what goes
  wrong then is described above, and no property of the other runs speaks of it.

## 6. Plan

In order of importance; 1 to 9 exist.

1. `TuningSession`, `Lifecycle`, `MCLifecycle`: the commands, the daemon, systemd.
2. `LifecycleProofs`.
3. `ThermalCap`, `MCThermalCap`, `ThermalCapProofs`.
4. `BackupRestore`, `MCBackupRestore`, `BackupRestoreProofs`.
5. `MemoryPolicy`, `MCMemoryPolicy`, `MemoryPolicyProofs`; `MemoryScan`,
   `MCMemoryScan`, `MemoryScanProofs`.
6. `DevicePolicy`, `MCDevicePolicy`, `DevicePolicyProofs`.
7. `ProcessList`, `MCProcessList`, `ProcessListProofs`.
8. `StepWise` and its implementation by `ThermalCap`.
9. `LifecycleMishaps`: proofs of `UnwantedStaysOff` and `LostOnlyByCommand`.
10. The policies in one tick with the activity level and the sleep, so that the
    time until a stop takes effect can be bounded.
