----------------------------- MODULE DevicePolicy -----------------------------
(***************************************************************************)
(* The load policy and the I/O policy of the daemon, from apply_initial_-  *)
(* state through its ticks: EPP values of the cores and schedulers of the  *)
(* block devices, each with the engine's record of what it has applied,    *)
(* while load and queues change, writes are rejected, and cores and        *)
(* devices go and come back.                                               *)
(*                                                                         *)
(* What a tick finds of memory pressure and temperatures is an input here. *)
(***************************************************************************)
EXTENDS Naturals, FiniteSets

CONSTANTS
  Cores,        \* the cores that are online when the engine is built
  Devices,      \* the block devices of the machine, by name
  Kind,         \* what detect_kind finds of each: "nvme", "hdd" or "other"
  Schedulers,   \* the schedulers a device may have
  Loads,        \* the loads that occur
  MaxFaults,    \* how often a core or device goes away or rejects writes
  Nothing       \* no entry in the engine's record; no device at hand

\* The one-minute load per online core, between 0.05, 0.2 and 0.8; "uncounted"
\* where no core can be counted.
LoadRanges == {"uncounted", "none", "light", "medium", "heavy"}
\* kEppPerformance, kEppBalanced and kEppPowerSave.
Epps == {"performance", "balanced", "powersave"}
Levels == {"idle", "light", "moderate", "heavy"}

ASSUME DeviceAssumption ==
  /\ IsFiniteSet(Cores) /\ IsFiniteSet(Devices)
  /\ Cores \cap Devices = {}
  /\ Kind \in [Devices -> {"nvme", "hdd", "other"}]
  /\ {"none", "mq-deadline"} \subseteq Schedulers
  /\ Loads \subseteq LoadRanges
  /\ MaxFaults \in Nat
  /\ Nothing \notin Devices \cup Schedulers \cup Epps

VARIABLES
  load,       \* the range the load is in
  busy,       \* the devices with more than four requests in flight
  there,      \* the cores and devices whose files open
  rejecting,  \* those among the cores and devices whose writes fail
  epp,        \* energy_performance_preference of each core
  scheduler,  \* the scheduler of each device
  latency,    \* history: the devices whose latency targets have been written
  applied,    \* applied_epp_ and applied_schedulers_
  phase,      \* what the engine does next
  todo,       \* the cores or devices still to be handled
  level,      \* the activity level of this tick
  target,     \* target_epp
  hinting,    \* the device whose latency targets are written next
  doubtful,   \* history: cores and devices that came back, or rejected a write,
              \* after the last write they accepted
  faults      \* how many faults have happened

kernel == <<epp, scheduler, latency>>
world == <<load, busy, there, rejecting, faults>>
engine == <<applied, phase, todo, level, target, hinting>>
vars == <<load, busy, there, rejecting, epp, scheduler, latency, applied, phase,
          todo, level, target, hinting, doubtful, faults>>

Init ==
  /\ load \in Loads
  /\ busy = {}
  /\ there = Cores \cup Devices
  /\ rejecting = {}
  /\ epp \in [Cores -> Epps]
  /\ scheduler \in [Devices -> Schedulers]
  /\ latency = {}
  /\ applied = [x \in Cores \cup Devices |-> Nothing]
  /\ phase = "start"
  /\ todo = Devices
  /\ level = "idle"
  /\ target = "balanced"
  /\ hinting = Nothing
  /\ doubtful = {}
  /\ faults = 0

-----------------------------------------------------------------------------
(* The cached writes.                                                      *)

\* Mutant of Record: whether the file opened is not asked.
RecordUnasked(x, value) == [applied EXCEPT ![x] = value]

\* A write is skipped when it is recorded as applied, and recorded when the file
\* opened: good() is asked before the value reaches the kernel.
Record(x, value) ==
  IF x \in there THEN [applied EXCEPT ![x] = value] ELSE applied

Write(setting, x, value) ==
  IF applied[x] # value /\ x \in there \ rejecting
    THEN [setting EXCEPT ![x] = value] ELSE setting

Doubts(x, value) ==
  IF applied[x] = value \/ x \notin there THEN doubtful
  ELSE IF x \in rejecting THEN doubtful \cup {x} ELSE doubtful \ {x}

SetEppIfChanged(c, value) ==
  /\ epp' = Write(epp, c, value)
  /\ applied' = Record(c, value)
  /\ doubtful' = Doubts(c, value)

\* Mutant of SetSchedulerIfChanged: a device without an entry is passed over.
SetSchedulerIfKnown(d, value) ==
  /\ scheduler' = IF applied[d] = Nothing THEN scheduler ELSE Write(scheduler, d, value)
  /\ applied' = IF applied[d] = Nothing THEN applied ELSE Record(d, value)
  /\ doubtful' = IF applied[d] = Nothing THEN doubtful ELSE Doubts(d, value)

SetSchedulerIfChanged(d, value) ==
  /\ scheduler' = Write(scheduler, d, value)
  /\ applied' = Record(d, value)
  /\ doubtful' = Doubts(d, value)

-----------------------------------------------------------------------------
(* The engine.                                                             *)

\* An NVMe device is known by its name, a rotational one by a file of its own.
DetectKind(d) == IF Kind[d] = "hdd" /\ d \notin there THEN "other" ELSE Kind[d]

\* One device of apply_initial_state; only NVMe and rotational ones are set.
ApplyInitialState(d) ==
  /\ phase = "start"
  /\ d \in todo
  /\ CASE DetectKind(d) = "nvme" -> SetSchedulerIfChanged(d, "none")
       [] DetectKind(d) = "hdd" -> SetSchedulerIfChanged(d, "mq-deadline")
       [] OTHER -> UNCHANGED <<scheduler, applied, doubtful>>
  /\ todo' = todo \ {d}
  /\ UNCHANGED <<world, epp, latency, phase, level, target, hinting>>

Started ==
  /\ phase = "start"
  /\ todo = {}
  /\ phase' = "classify"
  /\ UNCHANGED <<world, kernel, applied, todo, level, target, hinting, doubtful>>

\* The load counts as none where the cores cannot be counted.
ClassifyActivity ==
  /\ phase = "classify"
  /\ \E urgent, rising \in BOOLEAN :
       level' = IF urgent THEN "heavy"
                ELSE IF rising \/ load = "heavy" THEN "moderate"
                ELSE IF load \in {"light", "medium"} THEN "light" ELSE "idle"
  /\ phase' = "load"
  /\ UNCHANGED <<world, kernel, applied, todo, target, hinting, doubtful>>

\* What the load asks for in a tick that is not idle.
Wanted(range) ==
  CASE range = "heavy" -> "performance"
    [] range = "medium" -> "balanced"
    [] range \in {"light", "none"} -> "powersave"

\* Mutant of TargetEpp: an activity level other than idle never saves power.
TargetEppSwapped ==
  IF level = "idle" THEN "powersave"
  ELSE IF load = "heavy" THEN "performance" ELSE "balanced"

TargetEpp == IF level = "idle" THEN "powersave" ELSE Wanted(load)

\* online_cpu_count is not zero.
CoresCounted == load # "uncounted"

\* The load is read a second time, and may have changed.
EvaluateLoadPolicy ==
  /\ phase = "load"
  /\ IF CoresCounted
       THEN phase' = "cores" /\ todo' = Cores /\ target' = TargetEpp
       ELSE phase' = "io" /\ UNCHANGED <<todo, target>>
  /\ UNCHANGED <<world, kernel, applied, level, hinting, doubtful>>

\* Mutant of SetEpp: any entry counts as the value asked for.
SetEppOnce(c) ==
  /\ phase = "cores"
  /\ c \in todo
  /\ IF applied[c] = Nothing THEN SetEppIfChanged(c, target)
                             ELSE UNCHANGED <<epp, applied, doubtful>>
  /\ todo' = todo \ {c}
  /\ UNCHANGED <<world, scheduler, latency, phase, level, target, hinting>>

SetEpp(c) ==
  /\ phase = "cores"
  /\ c \in todo
  /\ SetEppIfChanged(c, target)
  /\ todo' = todo \ {c}
  /\ UNCHANGED <<world, scheduler, latency, phase, level, target, hinting>>

\* Mutant of CoresDone: the loop ends at the first core.
CoresDoneEarly ==
  /\ phase = "cores"
  /\ phase' = "io"
  /\ UNCHANGED <<world, kernel, applied, todo, level, target, hinting, doubtful>>

CoresDone ==
  /\ phase = "cores"
  /\ todo = {}
  /\ phase' = "io"
  /\ UNCHANGED <<world, kernel, applied, todo, level, target, hinting, doubtful>>

ListBlockDevices == Devices \cap there

\* Idle ticks leave the devices alone.
EvaluateIoPolicy ==
  /\ phase = "io"
  /\ IF level = "idle"
       THEN phase' = "sleep" /\ UNCHANGED todo
       ELSE phase' = "devices" /\ todo' = {d \in ListBlockDevices : DetectKind(d) = "nvme"}
  /\ UNCHANGED <<world, kernel, applied, level, target, hinting, doubtful>>

\* A device that has been unplugged since it was listed has no statistics, so
\* that nothing seems to be in flight.
InFlight(d) == d \in busy \cap there

\* Mutant of SetScheduler: a short queue is left to the scheduler there is.
SetSchedulerWhenLong(d) ==
  /\ phase = "devices"
  /\ d \in todo
  /\ hinting = Nothing
  /\ IF InFlight(d)
       THEN SetSchedulerIfChanged(d, "mq-deadline") /\ todo' = todo \ {d} /\ UNCHANGED hinting
       ELSE hinting' = d /\ UNCHANGED <<scheduler, applied, doubtful, todo>>
  /\ UNCHANGED <<world, epp, latency, phase, level, target>>

SetScheduler(d) ==
  /\ phase = "devices"
  /\ d \in todo
  /\ hinting = Nothing
  /\ SetSchedulerIfChanged(d, IF InFlight(d) THEN "mq-deadline" ELSE "none")
  /\ IF InFlight(d)
       THEN todo' = todo \ {d} /\ UNCHANGED hinting
       ELSE hinting' = d /\ UNCHANGED todo
  /\ UNCHANGED <<world, epp, latency, phase, level, target>>

\* The two files exist under kyber only; whether they opened is not looked at.
SetNvmeLatencyTarget ==
  /\ phase = "devices"
  /\ hinting # Nothing
  /\ latency' = IF hinting \in there /\ scheduler[hinting] = "kyber"
                  THEN latency \cup {hinting} ELSE latency
  /\ todo' = todo \ {hinting}
  /\ hinting' = Nothing
  /\ UNCHANGED <<world, epp, scheduler, applied, phase, level, target, doubtful>>

DevicesDone ==
  /\ phase = "devices"
  /\ todo = {}
  /\ phase' = "sleep"
  /\ UNCHANGED <<world, kernel, applied, todo, level, target, hinting, doubtful>>

WakeUp ==
  /\ phase = "sleep"
  /\ phase' = "classify"
  /\ UNCHANGED <<world, kernel, applied, todo, level, target, hinting, doubtful>>

-----------------------------------------------------------------------------
(* The machine.                                                            *)

LoadChanges ==
  /\ load' \in Loads \ {load}
  /\ UNCHANGED <<busy, there, rejecting, faults, kernel, engine, doubtful>>

QueueChanges(d) ==
  /\ busy' = IF d \in busy THEN busy \ {d} ELSE busy \cup {d}
  /\ UNCHANGED <<load, there, rejecting, faults, kernel, engine, doubtful>>

\* A core goes offline or a device is unplugged, or its writes start to fail.
Fails(x) ==
  /\ faults < MaxFaults
  /\ x \in there \ rejecting
  /\ faults' = faults + 1
  /\ \/ there' = there \ {x} /\ UNCHANGED rejecting
     \/ rejecting' = rejecting \cup {x} /\ UNCHANGED there
  /\ UNCHANGED <<load, busy, kernel, engine, doubtful>>

\* It is back, under the same name, with whatever the kernel sets then.
Heals(x) ==
  /\ x \notin there \ rejecting
  /\ there' = there \cup {x}
  /\ rejecting' = rejecting \ {x}
  /\ \/ x \in Cores /\ UNCHANGED scheduler /\ \E v \in Epps : epp' = [epp EXCEPT ![x] = v]
     \/ x \in Devices /\ UNCHANGED epp /\ \E s \in Schedulers : scheduler' = [scheduler EXCEPT ![x] = s]
  /\ doubtful' = doubtful \cup {x}
  /\ UNCHANGED <<load, busy, faults, latency, engine>>

-----------------------------------------------------------------------------
DaemonStep ==
  \/ \E d \in Devices : ApplyInitialState(d) \/ SetScheduler(d)
  \/ \E c \in Cores : SetEpp(c)
  \/ Started \/ ClassifyActivity \/ EvaluateLoadPolicy \/ CoresDone
  \/ EvaluateIoPolicy \/ SetNvmeLatencyTarget \/ DevicesDone \/ WakeUp

MachineStep ==
  \/ LoadChanges
  \/ \E d \in Devices : QueueChanges(d)
  \/ \E x \in Cores \cup Devices : Fails(x) \/ Heals(x)

Next == DaemonStep \/ MachineStep

Spec == Init /\ [][Next]_vars

\* The daemon's thread is scheduled and its sleeps end; nothing is assumed of
\* loads, queues, cores and devices.
FairSpec == Spec /\ WF_vars(DaemonStep)

-----------------------------------------------------------------------------
TypeOK ==
  /\ load \in Loads
  /\ busy \subseteq Devices
  /\ there \subseteq Cores \cup Devices
  /\ rejecting \subseteq Cores \cup Devices
  /\ epp \in [Cores -> Epps]
  /\ scheduler \in [Devices -> Schedulers]
  /\ latency \subseteq Devices
  /\ applied \in [Cores \cup Devices -> Epps \cup Schedulers \cup {Nothing}]
  /\ phase \in {"start", "classify", "load", "cores", "io", "devices", "sleep"}
  /\ todo \subseteq (IF phase = "cores" THEN Cores ELSE Devices)
  /\ level \in Levels
  /\ target \in Epps
  /\ hinting \in Devices \cup {Nothing}
  /\ doubtful \subseteq Cores \cup Devices
  /\ faults \in 0..MaxFaults

\* What the engine believes applied is what the kernel has, except for cores and
\* devices that came back, or rejected a write, since the last one they accepted.
CacheTrue ==
  /\ \A c \in Cores \ doubtful : applied[c] \in {Nothing, epp[c]}
  /\ \A d \in Devices \ doubtful : applied[d] \in {Nothing, scheduler[d]}

\* The latency targets written under "none" are lost: the files for them exist
\* under another scheduler only, so that a device gets them only while it has not
\* taken the scheduler it was given.  src/README.md:119-120 says that they are
\* written; no backup holds them.
HintLost ==
  [][\A d \in latency' \ latency : Kind[d] = "nvme" /\ d \in doubtful]_vars

Works(x) == x \in there \ (rejecting \cup doubtful)

\* Where the load stays in one range, the cores settle at its EPP value, though
\* the two readings of a tick, or an idle tick before, may have seen another.
EppFollowsLoad ==
  \A c \in Cores : \A range \in Loads \ {"uncounted"} :
    <>[](Works(c) /\ load = range) => <>[](epp[c] = Wanted(range))

\* From a light load upwards an NVMe device whose queue stays long settles at
\* mq-deadline, and one whose queue stays short at none.  src/README.md:114 has
\* none for every NVMe device, and from a moderate load upwards.
SchedulerFollowsQueue ==
  \A d \in {x \in Devices : Kind[x] = "nvme"} : \A long \in BOOLEAN :
    <>[](Works(d) /\ load \in {"light", "medium", "heavy"} /\ (d \in busy <=> long))
      => <>[](scheduler[d] = IF long THEN "mq-deadline" ELSE "none")

\* A core that is back for good is in doubt only until the load has asked for
\* two different values: the record goes stale, and nothing else ends that.
DoubtEnds ==
  \A c \in Cores :
    /\ <>[](c \in there \ rejecting)
    /\ []<>(phase = "cores" /\ target = "performance")
    /\ []<>(phase = "cores" /\ target = "powersave")
    => <>[](c \notin doubtful)
=============================================================================
