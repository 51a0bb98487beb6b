-------------------------- MODULE DevicePolicyProofs --------------------------
(***************************************************************************)
(* Proofs about DevicePolicy, for any number of cores, devices, schedulers *)
(* and faults: types, the engine's record of what it has applied, and the  *)
(* latency targets.                                                        *)
(***************************************************************************)
EXTENDS DevicePolicy, TLAPS

USE DeviceAssumption

-----------------------------------------------------------------------------
(* What one cached write does to a setting, the record and the doubts.     *)

LEMMA EppStep ==
  ASSUME TypeOK, CacheTrue, NEW c \in Cores, NEW value \in Epps, SetEppIfChanged(c, value)
  PROVE  /\ epp' \in [Cores -> Epps]
         /\ applied' \in [Cores \cup Devices -> Epps \cup Schedulers \cup {Nothing}]
         /\ doubtful' \subseteq Cores \cup Devices
         /\ \A x \in Cores \ doubtful' : applied'[x] \in {Nothing, epp'[x]}
         /\ \A d \in Devices : applied'[d] = applied[d] /\ (d \in doubtful' <=> d \in doubtful)
<1>1. CASE applied[c] = value \/ c \notin there
  <2>1. epp' = epp /\ doubtful' = doubtful
    BY <1>1 DEF SetEppIfChanged, Write, Doubts
  <2>2. applied' = applied
    BY <1>1 DEF SetEppIfChanged, Record, TypeOK
  <2> QED BY <2>1, <2>2 DEF TypeOK, CacheTrue
<1>2. CASE ~ (applied[c] = value \/ c \notin there)
  <2>1. applied' = [applied EXCEPT ![c] = value]
    BY <1>2 DEF SetEppIfChanged, Record
  <2>2. CASE c \in rejecting
    <3>1. epp' = epp /\ doubtful' = doubtful \cup {c}
      BY <1>2, <2>2 DEF SetEppIfChanged, Write, Doubts
    <3> QED BY <2>1, <3>1 DEF TypeOK, CacheTrue
  <2>3. CASE c \notin rejecting
    <3>1. epp' = [epp EXCEPT ![c] = value] /\ doubtful' = doubtful \ {c}
      BY <1>2, <2>3 DEF SetEppIfChanged, Write, Doubts
    <3> QED BY <2>1, <3>1 DEF TypeOK, CacheTrue
  <2> QED BY <2>2, <2>3
<1> QED BY <1>1, <1>2

LEMMA SchedulerStep ==
  ASSUME TypeOK, CacheTrue, NEW d \in Devices, NEW value \in Schedulers, SetSchedulerIfChanged(d, value)
  PROVE  /\ scheduler' \in [Devices -> Schedulers]
         /\ applied' \in [Cores \cup Devices -> Epps \cup Schedulers \cup {Nothing}]
         /\ doubtful' \subseteq Cores \cup Devices
         /\ \A x \in Devices \ doubtful' : applied'[x] \in {Nothing, scheduler'[x]}
         /\ \A c \in Cores : applied'[c] = applied[c] /\ (c \in doubtful' <=> c \in doubtful)
         /\ d \in there => d \in doubtful' \/ scheduler'[d] = value
<1>1. CASE applied[d] = value \/ d \notin there
  <2>1. scheduler' = scheduler /\ doubtful' = doubtful
    BY <1>1 DEF SetSchedulerIfChanged, Write, Doubts
  <2>2. applied' = applied
    BY <1>1 DEF SetSchedulerIfChanged, Record, TypeOK
  <2> QED BY <1>1, <2>1, <2>2 DEF TypeOK, CacheTrue
<1>2. CASE ~ (applied[d] = value \/ d \notin there)
  <2>1. applied' = [applied EXCEPT ![d] = value]
    BY <1>2 DEF SetSchedulerIfChanged, Record
  <2>2. CASE d \in rejecting
    <3>1. scheduler' = scheduler /\ doubtful' = doubtful \cup {d}
      BY <1>2, <2>2 DEF SetSchedulerIfChanged, Write, Doubts
    <3> QED BY <2>1, <3>1 DEF TypeOK, CacheTrue
  <2>3. CASE d \notin rejecting
    <3>1. scheduler' = [scheduler EXCEPT ![d] = value] /\ doubtful' = doubtful \ {d}
      BY <1>2, <2>3 DEF SetSchedulerIfChanged, Write, Doubts
    <3> QED BY <2>1, <3>1 DEF TypeOK, CacheTrue
  <2> QED BY <2>2, <2>3
<1> QED BY <1>1, <1>2

-----------------------------------------------------------------------------
(* The inductive invariant.  The engine hints only at NVMe devices, in the *)
(* pass over the devices, after a scheduler that is "none" unless the      *)
(* device has failed.                                                      *)

HintSound ==
  /\ phase = "devices" => \A d \in todo : Kind[d] = "nvme"
  /\ hinting # Nothing =>
       /\ phase = "devices"
       /\ hinting \in todo
       /\ hinting \in there => hinting \in doubtful \/ scheduler[hinting] = "none"

Inv == TypeOK /\ CacheTrue /\ HintSound

LEMMA InitInv == Init => Inv
BY DEF Init, Inv, TypeOK, CacheTrue, HintSound, Levels, Epps

LEMMA DaemonStepInv == Inv /\ DaemonStep => Inv'
<1> SUFFICES ASSUME Inv, DaemonStep PROVE Inv'
  OBVIOUS
<1> USE DEF Inv
<1>1. ASSUME NEW d \in Devices, ApplyInitialState(d) PROVE Inv'
  <2> USE <1>1 DEF ApplyInitialState, world
  <2>0. hinting = Nothing
    BY DEF HintSound
  <2>1. CASE DetectKind(d) \in {"nvme", "hdd"}
    <3>1. PICK v \in {"none", "mq-deadline"} : SetSchedulerIfChanged(d, v)
      BY <2>1
    <3>2. v \in Schedulers
      OBVIOUS
    <3> HIDE <1>1 DEF ApplyInitialState, world
    <3>3. /\ UNCHANGED <<load, busy, there, rejecting, faults, epp, latency, phase, level, target, hinting>>
          /\ todo' = todo \ {d} /\ phase = "start"
      BY <1>1 DEF ApplyInitialState, world
    <3>4. TypeOK' /\ CacheTrue'
      BY <3>1, <3>2, <3>3, SchedulerStep DEF TypeOK, CacheTrue
    <3>5. HintSound'
      BY <3>3, <2>0 DEF HintSound
    <3> QED BY <3>4, <3>5
  <2>2. CASE DetectKind(d) = "other"
    <3>1. UNCHANGED <<scheduler, applied, doubtful>>
      BY <2>2
    <3>2. TypeOK' /\ CacheTrue'
      BY <3>1 DEF TypeOK, CacheTrue
    <3>3. HintSound'
      BY <2>0 DEF HintSound
    <3> QED BY <3>2, <3>3
  <2>3. DetectKind(d) \in {"nvme", "hdd", "other"}
    BY DEF DetectKind
  <2> QED BY <2>1, <2>2, <2>3
<1>2. ASSUME NEW d \in Devices, SetScheduler(d) PROVE Inv'
  <2> DEFINE v == IF InFlight(d) THEN "mq-deadline" ELSE "none"
  <2>1. /\ phase = "devices" /\ d \in todo /\ hinting = Nothing
        /\ SetSchedulerIfChanged(d, v)
        /\ UNCHANGED <<load, busy, there, rejecting, faults, epp, latency, phase, level, target>>
    BY <1>2 DEF SetScheduler, world
  <2>2. CASE InFlight(d)
    <3>1. todo' = todo \ {d} /\ UNCHANGED hinting
      BY <1>2, <2>2 DEF SetScheduler
    <3>2. TypeOK' /\ CacheTrue'
      BY <2>1, <3>1, SchedulerStep DEF TypeOK, CacheTrue
    <3>3. HintSound'
      BY <2>1, <3>1 DEF HintSound
    <3> QED BY <3>2, <3>3
  <2>3. CASE ~ InFlight(d)
    <3>1. hinting' = d /\ UNCHANGED todo
      BY <1>2, <2>3 DEF SetScheduler
    <3>2. TypeOK' /\ CacheTrue'
      BY <2>1, <3>1, SchedulerStep DEF TypeOK, CacheTrue
    <3>3. v = "none"
      BY <2>3
    <3>4. d \in there => d \in doubtful' \/ scheduler'[d] = "none"
      BY <2>1, <3>3, SchedulerStep
    <3>5. HintSound'
      BY <2>1, <3>1, <3>4 DEF HintSound
    <3> QED BY <3>2, <3>5
  <2> QED BY <2>2, <2>3
<1>3. ASSUME NEW c \in Cores, SetEpp(c) PROVE Inv'
  <2>1. /\ phase = "cores" /\ c \in todo /\ SetEppIfChanged(c, target)
        /\ todo' = todo \ {c}
        /\ UNCHANGED <<load, busy, there, rejecting, faults, scheduler, latency, phase, level, target, hinting>>
    BY <1>3 DEF SetEpp, world
  <2>2. target \in Epps
    BY DEF TypeOK
  <2>3. TypeOK' /\ CacheTrue'
    BY <2>1, <2>2, EppStep DEF TypeOK, CacheTrue
  <2>4. HintSound'
    BY <2>1 DEF HintSound
  <2> QED BY <2>3, <2>4
<1>4. CASE Started
  BY <1>4 DEF Started, world, kernel, TypeOK, CacheTrue, HintSound
<1>5. CASE ClassifyActivity
  BY <1>5 DEF ClassifyActivity, world, kernel, TypeOK, CacheTrue, HintSound, Levels
<1>6. CASE EvaluateLoadPolicy
  <2>1. CASE load = "uncounted"
    BY <1>6, <2>1 DEF EvaluateLoadPolicy, CoresCounted, world, kernel, TypeOK, CacheTrue, HintSound
  <2>2. CASE load # "uncounted"
    <3>1. TargetEpp \in Epps
      BY <2>2 DEF TargetEpp, Wanted, Epps, TypeOK, LoadRanges
    <3> QED BY <1>6, <2>2, <3>1 DEF EvaluateLoadPolicy, CoresCounted, world, kernel, TypeOK, CacheTrue, HintSound
  <2> QED BY <2>1, <2>2
<1>7. CASE CoresDone
  BY <1>7 DEF CoresDone, world, kernel, TypeOK, CacheTrue, HintSound
<1>8. CASE EvaluateIoPolicy
  BY <1>8 DEF EvaluateIoPolicy, ListBlockDevices, DetectKind, world, kernel, TypeOK, CacheTrue, HintSound
<1>9. CASE SetNvmeLatencyTarget
  BY <1>9 DEF SetNvmeLatencyTarget, world, TypeOK, CacheTrue, HintSound
<1>10. CASE DevicesDone
  BY <1>10 DEF DevicesDone, world, kernel, TypeOK, CacheTrue, HintSound
<1>11. CASE WakeUp
  BY <1>11 DEF WakeUp, world, kernel, TypeOK, CacheTrue, HintSound
<1> QED
  BY <1>1, <1>2, <1>3, <1>4, <1>5, <1>6, <1>7, <1>8, <1>9, <1>10, <1>11 DEF DaemonStep

LEMMA MachineStepInv == Inv /\ MachineStep => Inv'
<1> SUFFICES ASSUME Inv, MachineStep PROVE Inv'
  OBVIOUS
<1> USE DEF Inv
<1>1. CASE LoadChanges
  BY <1>1 DEF LoadChanges, kernel, engine, TypeOK, CacheTrue, HintSound
<1>2. ASSUME NEW d \in Devices, QueueChanges(d) PROVE Inv'
  BY <1>2 DEF QueueChanges, kernel, engine, TypeOK, CacheTrue, HintSound
<1>3. ASSUME NEW x \in Cores \cup Devices, Fails(x) PROVE Inv'
  BY <1>3 DEF Fails, kernel, engine, TypeOK, CacheTrue, HintSound
<1>4. ASSUME NEW x \in Cores \cup Devices, Heals(x) PROVE Inv'
  <2>1. TypeOK'
    BY <1>4 DEF Heals, engine, TypeOK
  <2>2. CacheTrue'
    BY <1>4 DEF Heals, engine, TypeOK, CacheTrue
  <2>3. HintSound'
    BY <1>4 DEF Heals, engine, TypeOK, HintSound
  <2> QED BY <2>1, <2>2, <2>3
<1> QED BY <1>1, <1>2, <1>3, <1>4 DEF MachineStep

LEMMA StepInv == Inv /\ [Next]_vars => Inv'
<1>1. ASSUME Inv, UNCHANGED vars PROVE Inv'
  BY <1>1 DEF vars, Inv, TypeOK, CacheTrue, HintSound
<1> QED BY <1>1, DaemonStepInv, MachineStepInv DEF Next

\* Together the three are inductive: what the engine does next, where it applied
\* a scheduler and what the kernel has explain each other.
LEMMA InvHolds == Spec => []Inv
BY InitInv, StepInv, PTL DEF Spec

-----------------------------------------------------------------------------
\* Every variable has its type, for any cores, devices and schedulers.
THEOREM TypeCorrect == Spec => []TypeOK
<1>1. Inv => TypeOK
  BY DEF Inv
<1> QED BY <1>1, InvHolds, PTL

\* set_epp_if_changed and set_scheduler_if_changed: what the engine believes
\* applied is what the kernel has, however cores and devices come and go, except
\* for those that have failed since.
THEOREM CacheTrueHolds == Spec => []CacheTrue
<1>1. Inv => CacheTrue
  BY DEF Inv
<1> QED BY <1>1, InvHolds, PTL

LEMMA HintStep ==
  Inv /\ [Next]_vars =>
    [\A d \in latency' \ latency : Kind[d] = "nvme" /\ d \in doubtful]_vars
<1> SUFFICES ASSUME Inv, Next, NEW d \in latency' \ latency
             PROVE  Kind[d] = "nvme" /\ d \in doubtful
  OBVIOUS
<1>1. CASE SetNvmeLatencyTarget
  <2>1. d = hinting /\ d \in there /\ scheduler[d] = "kyber" /\ hinting # Nothing
    BY <1>1 DEF SetNvmeLatencyTarget
  <2> QED BY <2>1 DEF Inv, HintSound
<1>2. CASE DaemonStep /\ ~ SetNvmeLatencyTarget
  BY <1>2 DEF DaemonStep, ApplyInitialState, SetScheduler, SetEpp, Started, ClassifyActivity,
              EvaluateLoadPolicy, CoresDone, EvaluateIoPolicy, DevicesDone, WakeUp, kernel
<1>3. CASE MachineStep
  BY <1>3 DEF MachineStep, LoadChanges, QueueChanges, Fails, Heals, kernel
<1> QED BY <1>1, <1>2, <1>3 DEF Next

\* evaluate_io_policy: the latency targets are lost on every NVMe device that has
\* not failed, where src/README.md:119-120 says that they are written.
THEOREM HintLostHolds == Spec => HintLost
BY InvHolds, HintStep, PTL DEF Spec, HintLost
=============================================================================
