----------------------------- MODULE BackupRestore -----------------------------
(***************************************************************************)
(* One life of the backup: `start` captures the settings and saves them as *)
(* a text of tokens, the daemon tunes, and at its exit the tokens are read *)
(* back and written to the kernel.                                         *)
(*                                                                         *)
(* Tokens and values are strings.  What matters of them is whether a token *)
(* extracts as a number, and that an empty string leaves no token at all.  *)
(* save() writes and load() reads line by line, and so do the actions.     *)
(***************************************************************************)
EXTENDS Integers, Sequences, FiniteSetsExt

CONSTANTS
  Machines,    \* the settings a machine may have before `start`: see Machine
  Numbers,     \* the tokens that extract as a number
  Numerals,    \* those for 0, 1, 2 and so on, as far as ids and counts go
  Governors,   \* the governors a core with cpufreq accepts
  Schedulers,  \* the schedulers a device with a scheduler accepts
  Nvme,        \* the device names that begin with nvme
  Rotational   \* the names of the devices whose queue/rotational is 1

\* The string of a value that could not be read.
Empty == ""

Sysctls == {"swappiness", "vfs_cache_pressure", "dirty_ratio", "dirty_background_ratio"}

Cores == [governor : Governors \cup {Empty}, min : Numbers, max : Numbers, epp : STRING]
Devices == [name : STRING, scheduler : Schedulers \cup {Empty}]

\* A core without cpufreq has no governor, zero frequencies and no EPP; the EPP
\* of a core is a number, a name, or "absent".  A device that has no scheduler
\* (device mapper, zram) has the empty one.  Devices are the entries of a
\* directory: no two have the same name, and none that of a scheduler.
Machine(m) ==
  /\ m \in [sysctl : [Sysctls -> Numbers], cores : Seq(Cores), devices : Seq(Devices)]
  /\ Len(m.cores) < Len(Numerals) /\ Len(m.devices) < Len(Numerals)
  /\ \A i \in DOMAIN m.cores :
       m.cores[i].governor = Empty => m.cores[i].epp = "absent"
  /\ \A i \in DOMAIN m.devices :
       /\ m.devices[i].name \notin Schedulers \cup {Empty}
       /\ \A j \in DOMAIN m.devices : m.devices[i].name = m.devices[j].name => i = j

ASSUME MachineAssumption == \A m \in Machines : Machine(m)

ASSUME TokenAssumption ==
  /\ Numbers \subseteq STRING
  /\ Empty \notin Numbers /\ "none" \notin Numbers /\ "absent" \notin Numbers
  /\ Governors \subseteq STRING /\ Empty \notin Governors
  /\ Schedulers \subseteq STRING /\ Empty \notin Schedulers
  /\ Numerals \in Seq(Numbers) /\ Len(Numerals) > 0 /\ Numerals[1] = "0"
  /\ \A i, j \in DOMAIN Numerals : Numerals[i] = Numerals[j] => i = j

VARIABLES
  kernel,    \* the settings in force
  before,    \* history: the settings before `start`
  memory,    \* the SystemStateBackup in memory: captured, or loaded so far
  file,      \* the tokens of state_backup.dat
  stream,    \* of load(): how many tokens it has read, and is it still good
  left,      \* the lines that the loop of save() or load() has not come to
  phase      \* where start and its daemon are

vars == <<kernel, before, memory, file, stream, left, phase>>

Init ==
  /\ kernel \in Machines
  /\ before = kernel
  /\ memory = <<>>
  /\ file = <<>>
  /\ stream = [read |-> 0, ok |-> TRUE]
  /\ left = 0
  /\ phase = "capture"

-----------------------------------------------------------------------------
(* capture_current_state and save().                                       *)

\* A count, or the id of a core, as a token.
Numeral(n) == Numerals[n + 1]
Count(token) == CHOOSE n \in 0..(Len(Numerals) - 1) : Numeral(n) = token

\* current_epp(): only a number is kept.
CurrentEpp(core) == IF core.epp \in Numbers THEN core.epp ELSE "none"

Snapshot(id, core) ==
  [id |-> Numeral(id), governor |-> core.governor,
   min |-> core.min, max |-> core.max, epp |-> CurrentEpp(core)]

CaptureCurrentState ==
  /\ phase = "capture"
  /\ memory' = [sysctl  |-> kernel.sysctl,
                cores   |-> [i \in DOMAIN kernel.cores |-> Snapshot(i - 1, kernel.cores[i])],
                devices |-> kernel.devices]
  /\ phase' = "save"
  /\ UNCHANGED <<kernel, before, file, stream, left>>

\* Writing an empty string leaves nothing that could be read back.
Token(text) == IF text = Empty THEN <<>> ELSE <<text>>

\* Mutants of CoreLine: the frequencies in the other order; no EPP, no token.
CoreLineMaxFirst(core) ==
  <<core.id>> \o Token(core.governor) \o <<core.max, core.min, core.epp>>

CoreLineNoNone(core) ==
  <<core.id>> \o Token(core.governor) \o <<core.min, core.max>>
    \o (IF core.epp = "none" THEN <<>> ELSE <<core.epp>>)

CoreLine(core) ==
  <<core.id>> \o Token(core.governor) \o <<core.min, core.max, core.epp>>

DeviceLine(device) == <<device.name>> \o Token(device.scheduler)

SaveSysctls ==
  /\ phase = "save"
  /\ file' = <<memory.sysctl["swappiness"], memory.sysctl["vfs_cache_pressure"],
               memory.sysctl["dirty_ratio"], memory.sysctl["dirty_background_ratio"],
               Numeral(Len(memory.cores))>>
  /\ left' = Len(memory.cores)
  /\ phase' = "save_cores"
  /\ UNCHANGED <<kernel, before, memory, stream>>

SaveCore ==
  /\ phase = "save_cores" /\ left > 0
  /\ file' = file \o CoreLine(memory.cores[Len(memory.cores) - left + 1])
  /\ left' = left - 1
  /\ UNCHANGED <<kernel, before, memory, stream, phase>>

SaveDeviceCount ==
  /\ phase = "save_cores" /\ left = 0
  /\ file' = Append(file, Numeral(Len(memory.devices)))
  /\ left' = Len(memory.devices)
  /\ phase' = "save_devices"
  /\ UNCHANGED <<kernel, before, memory, stream>>

SaveDevice ==
  /\ phase = "save_devices" /\ left > 0
  /\ file' = file \o DeviceLine(memory.devices[Len(memory.devices) - left + 1])
  /\ left' = left - 1
  /\ UNCHANGED <<kernel, before, memory, stream, phase>>

Saved ==
  /\ phase = "save_devices" /\ left = 0
  /\ memory' = <<>>
  /\ phase' = "tune"
  /\ UNCHANGED <<kernel, before, file, stream, left>>

-----------------------------------------------------------------------------
(* The daemon's tuning: each of these settings, where it exists, or not.   *)

Tunables == {"governor", "max", "epp", "vfs_cache_pressure", "dirty_ratio"}

TunedCore(core, S) ==
  IF core.governor = Empty THEN core
  ELSE [core EXCEPT !.governor = IF "governor" \in S THEN "schedutil" ELSE @,
                    !.max = IF "max" \in S THEN core.min ELSE @,
                    !.epp = IF "epp" \in S /\ @ # "absent" THEN "200" ELSE @]

\* NVMe devices get a scheduler for the length of their queue, rotational ones
\* one at the start, and the others none.
TunedSchedulers(device) ==
  {device.scheduler} \cup
    (IF device.scheduler = Empty THEN {}
     ELSE Schedulers \cap (IF device.name \in Nvme THEN {"none", "mq-deadline"}
                           ELSE IF device.name \in Rotational THEN {"mq-deadline"} ELSE {}))

TunedSettings(S, schedulers) ==
  [sysctl  |-> [s \in Sysctls |-> IF s \in S THEN "5" ELSE kernel.sysctl[s]],
   cores   |-> [i \in DOMAIN kernel.cores |-> TunedCore(kernel.cores[i], S)],
   devices |-> [i \in DOMAIN kernel.devices |->
                  [kernel.devices[i] EXCEPT !.scheduler = schedulers[i]]]]

Tune ==
  /\ phase = "tune"
  /\ \E S \in SUBSET Tunables :
       \E schedulers \in [DOMAIN kernel.devices -> Schedulers \cup {Empty}] :
         /\ \A i \in DOMAIN kernel.devices : schedulers[i] \in TunedSchedulers(kernel.devices[i])
         /\ kernel' = TunedSettings(S, schedulers)
  /\ phase' = "load"
  /\ UNCHANGED <<before, memory, file, stream, left>>

-----------------------------------------------------------------------------
(* load().  A value is extracted when all before it were: a stream that has *)
(* failed extracts nothing more, numbers are then zero, words empty.        *)

Extracts(kinds, n) ==
  /\ stream.ok /\ stream.read + n <= Len(file)
  /\ \A k \in 1..n : kinds[k] = "number" => file[stream.read + k] \in Numbers

Value(kinds, n) ==
  IF Extracts(kinds, n) THEN file[stream.read + n]
  ELSE IF kinds[n] = "number" THEN "0" ELSE Empty

Read(kinds) ==
  stream' = [read |-> stream.read + Len(kinds), ok |-> Extracts(kinds, Len(kinds))]

HeadKinds == <<"number", "number", "number", "number", "number">>
CoreKinds == <<"number", "word", "number", "number", "word">>
DeviceKinds == <<"word", "word">>

LoadSysctls ==
  /\ phase = "load"
  /\ memory' = [sysctl  |-> [s \in Sysctls |->
                   Value(HeadKinds, CASE s = "swappiness" -> 1
                                      [] s = "vfs_cache_pressure" -> 2
                                      [] s = "dirty_ratio" -> 3
                                      [] s = "dirty_background_ratio" -> 4)],
                cores   |-> <<>>,
                devices |-> <<>>]
  /\ left' = Count(Value(HeadKinds, 5))
  /\ Read(HeadKinds)
  /\ phase' = "load_cores"
  /\ UNCHANGED <<kernel, before, file>>

\* std::stoi throws at a token that is neither "none" nor a number.
EppToken == Value(CoreKinds, 5)
EppThrows == EppToken # "none" /\ EppToken \notin Numbers

LoadCore ==
  /\ phase = "load_cores" /\ left > 0
  /\ ~ EppThrows
  /\ memory' = [memory EXCEPT !.cores = Append(@,
                  [id |-> Value(CoreKinds, 1), governor |-> Value(CoreKinds, 2),
                   min |-> Value(CoreKinds, 3), max |-> Value(CoreKinds, 4), epp |-> EppToken])]
  /\ left' = left - 1
  /\ Read(CoreKinds)
  /\ UNCHANGED <<kernel, before, file, phase>>

\* Nothing catches the exception: the daemon aborts, the settings stay tuned.
LoadThrows ==
  /\ phase = "load_cores" /\ left > 0
  /\ EppThrows
  /\ phase' = "aborted"
  /\ UNCHANGED <<kernel, before, memory, file, stream, left>>

LoadDeviceCount ==
  /\ phase = "load_cores" /\ left = 0
  /\ left' = Count(Value(<<"number">>, 1))
  /\ Read(<<"number">>)
  /\ phase' = "load_devices"
  /\ UNCHANGED <<kernel, before, memory, file>>

LoadDevice ==
  /\ phase = "load_devices" /\ left > 0
  /\ memory' = [memory EXCEPT !.devices = Append(@,
                  [name |-> Value(DeviceKinds, 1), scheduler |-> Value(DeviceKinds, 2)])]
  /\ left' = left - 1
  /\ Read(DeviceKinds)
  /\ UNCHANGED <<kernel, before, file, phase>>

Loaded ==
  /\ phase = "load_devices" /\ left = 0
  /\ phase' = "restore"
  /\ UNCHANGED <<kernel, before, memory, file, stream, left>>

-----------------------------------------------------------------------------
(* The restore, line after line, so that the last one for a core or device  *)
(* stays.  A core without cpufreq and a name that is no device have no file *)
(* to write, and the kernel rejects values it does not know.                *)

RestoredCore(id, core) ==
  LET saved == {i \in DOMAIN memory.cores : memory.cores[i].id = Numeral(id)}
      s == memory.cores[Max(saved)] IN
  IF core.governor = Empty \/ saved = {} THEN core
  ELSE [core EXCEPT !.governor = IF s.governor \in Governors THEN s.governor ELSE @,
                    !.min = s.min,
                    !.max = s.max,
                    !.epp = IF s.epp = "none" \/ @ = "absent" THEN @ ELSE s.epp]

RestoredDevice(device) ==
  LET saved == {i \in DOMAIN memory.devices :
                  /\ memory.devices[i].name = device.name
                  /\ memory.devices[i].scheduler \in Schedulers} IN
  IF device.scheduler = Empty \/ saved = {} THEN device
  ELSE [device EXCEPT !.scheduler = memory.devices[Max(saved)].scheduler]

\* Mutant of Restore: a value of the wrong sysctl.
RestoreSwapped ==
  /\ phase = "restore"
  /\ kernel' = [sysctl  |-> [memory.sysctl EXCEPT
                               !["dirty_background_ratio"] = memory.sysctl["dirty_ratio"]],
                cores   |-> [i \in DOMAIN kernel.cores |-> RestoredCore(i - 1, kernel.cores[i])],
                devices |-> [i \in DOMAIN kernel.devices |-> RestoredDevice(kernel.devices[i])]]
  /\ phase' = "restored"
  /\ UNCHANGED <<before, memory, file, stream, left>>

Restore ==
  /\ phase = "restore"
  /\ kernel' = [sysctl  |-> memory.sysctl,
                cores   |-> [i \in DOMAIN kernel.cores |-> RestoredCore(i - 1, kernel.cores[i])],
                devices |-> [i \in DOMAIN kernel.devices |-> RestoredDevice(kernel.devices[i])]]
  /\ phase' = "restored"
  /\ UNCHANGED <<before, memory, file, stream, left>>

Next ==
  \/ CaptureCurrentState
  \/ SaveSysctls \/ SaveCore \/ SaveDeviceCount \/ SaveDevice \/ Saved
  \/ Tune
  \/ LoadSysctls \/ LoadCore \/ LoadThrows \/ LoadDeviceCount \/ LoadDevice \/ Loaded
  \/ Restore

Spec == Init /\ [][Next]_vars

-----------------------------------------------------------------------------
HasCpufreq(m) == \A i \in DOMAIN m.cores : m.cores[i].governor # Empty
HasSchedulers(m) == \A i \in DOMAIN m.devices : m.devices[i].scheduler # Empty
NamedEpp(core) == core.epp \notin Numbers \cup {"absent"}

\* Every exit of the daemon leaves every setting as it was before `start`.
Restored == phase \in {"restored", "aborted"} => kernel = before

\* The daemon aborts only where a core has no governor to save.
AbortsOnlyWithoutGovernor == phase = "aborted" => ~ HasCpufreq(before)

\* Whatever the machine, only two things fail to come back when load() returns:
\* an EPP that has a name, and the schedulers of devices that are listed after
\* one that has none.
RestoredButForGaps ==
  phase = "restored" =>
    /\ kernel.sysctl = before.sysctl
    /\ \A i \in DOMAIN before.cores :
         LET was == before.cores[i]
             is == kernel.cores[i]
         IN  /\ is.governor = was.governor /\ is.min = was.min /\ is.max = was.max
             /\ NamedEpp(was) \/ is.epp = was.epp
    /\ \A i \in DOMAIN before.devices :
         (\A j \in 1..i : before.devices[j].scheduler # Empty) =>
           kernel.devices[i] = before.devices[i]

\* What load() returns is what was captured, where every value has a token.
RoundTrip ==
  phase = "restore" /\ HasCpufreq(before) /\ HasSchedulers(before) =>
    /\ memory.sysctl = before.sysctl
    /\ memory.cores = [i \in DOMAIN before.cores |-> Snapshot(i - 1, before.cores[i])]
    /\ memory.devices = before.devices
=============================================================================
