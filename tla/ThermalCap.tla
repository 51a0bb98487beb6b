------------------------------ MODULE ThermalCap ------------------------------
(***************************************************************************)
(* The thermal policy of the daemon: every tick reads the thermal zones    *)
(* one after the other and then caps, keeps or lifts the maximum frequency *)
(* of one core after the other, while temperatures, sensors and cpufreq    *)
(* drivers change at any moment.                                           *)
(*                                                                         *)
(* The policy keeps its own copy of each core's ceiling and trusts it: the *)
(* kernel's value is read only once, when the daemon starts.               *)
(***************************************************************************)
EXTENDS Integers, FiniteSets

CONSTANTS
  Cores,         \* the cores that are online when the engine is built
  Zones,         \* the thermal zones under /sys/class/thermal
  Ceilings,      \* scaling_max_freq of each core before the daemon starts
  SensorFaults,  \* how a zone may fail: "gone" (no file), "garbled" (read error)
  DriverFaults,  \* how a core may fail: "gone" (no file), "rejects" (write error)
  MaxFaults      \* how many faults happen in a behaviour

\* At most kThermalRecoveryMillidegrees, at most kThermalPassiveDefaultMilli-
\* degrees, or more than that.
Temperatures == {"cool", "warm", "hot"}

ASSUME ThermalAssumption ==
  /\ IsFiniteSet(Cores)
  /\ IsFiniteSet(Zones)
  /\ Ceilings \in [Cores -> Nat]
  /\ SensorFaults \subseteq {"gone", "garbled"}
  /\ DriverFaults \subseteq {"gone", "rejects"}
  /\ MaxFaults \in Nat

VARIABLES
  temp,      \* the temperature of each zone
  sensor,    \* can each zone be read: "reads", "gone" or "garbled"
  driver,    \* does each core's cpufreq driver work: "accepts", "gone", "rejects"
  ceiling,   \* scaling_max_freq of each core, in the kernel
  original,  \* original_max_freq_khz_
  current,   \* current_max_freq_khz_
  phase,     \* what the daemon does: "start", "zones" (reading) or "cores" (capping)
  todo,      \* the zones, or the cores, still to be handled in this tick
  readings,  \* what this tick has read of each zone, "none" if it has no reading
  actual,    \* history: the temperature of each zone when this tick came to it,
             \* "unknown" if it could not be read then
  rejected,  \* history: the cores whose last write was rejected
  faults     \* how many faults have happened

world == <<temp, sensor, driver, faults>>
engine == <<original, current, phase, todo, readings, actual>>
vars == <<temp, sensor, driver, ceiling, original, current, phase, todo,
          readings, actual, rejected, faults>>

Init ==
  /\ temp \in [Zones -> Temperatures]
  /\ sensor = [z \in Zones |-> "reads"]
  /\ driver = [c \in Cores |-> "accepts"]
  /\ ceiling = Ceilings
  /\ original = [c \in Cores |-> 0]
  /\ current = [c \in Cores |-> 0]
  /\ phase = "start"
  /\ todo = {}
  /\ readings = [z \in Zones |-> "none"]
  /\ actual = [z \in Zones |-> "cool"]
  /\ rejected = {}
  /\ faults = 0

-----------------------------------------------------------------------------
(* The daemon.                                                             *)

\* The ceiling of a core that cannot be read is taken to be zero.
ApplyInitialState ==
  LET found == [c \in Cores |-> IF driver[c] = "gone" THEN 0 ELSE ceiling[c]] IN
  /\ phase = "start"
  /\ original' = found
  /\ current' = found
  /\ phase' = "zones"
  /\ todo' = Zones
  /\ UNCHANGED <<world, ceiling, readings, actual, rejected>>

\* A zone that is gone gives no reading; a read error leaves the temperature of
\* the reading uninitialised.
ReadZone(z) ==
  /\ phase = "zones"
  /\ z \in todo
  /\ \E r \in Temperatures \cup {"none"} :
       /\ sensor[z] = "reads" => r = temp[z]
       /\ sensor[z] = "gone" <=> r = "none"
       /\ readings' = [readings EXCEPT ![z] = r]
  /\ actual' = [actual EXCEPT ![z] = IF sensor[z] = "reads" THEN temp[z] ELSE "unknown"]
  /\ todo' = todo \ {z}
  /\ UNCHANGED <<world, ceiling, original, current, phase, rejected>>

ZonesRead ==
  /\ phase = "zones"
  /\ todo = {}
  /\ phase' = "cores"
  /\ todo' = Cores
  /\ UNCHANGED <<world, ceiling, original, current, readings, actual, rejected>>

OverThreshold == \E z \in Zones : readings[z] = "hot"
HasRecovered == \A z \in Zones : readings[z] \in {"cool", "none"}

\* One step down, to the floor of half the original at the lowest.
Reduced(c) ==
  LET reducedMax == current[c] - (current[c] \div 20)
      floorMax == original[c] \div 2
  IN  IF reducedMax < floorMax THEN floorMax ELSE reducedMax

\* Mutants of Target: the step is a share of the original and has no floor; no
\* floor; one step to the floor; no hysteresis; only when every zone is hot; a
\* cap is never lifted.
TargetByOriginal(c) ==
  IF OverThreshold THEN current[c] - (original[c] \div 20)
  ELSE IF HasRecovered THEN original[c] ELSE current[c]

TargetUnfloored(c) ==
  IF OverThreshold THEN current[c] - (current[c] \div 20)
  ELSE IF HasRecovered THEN original[c] ELSE current[c]

TargetAtOnce(c) ==
  IF OverThreshold THEN original[c] \div 2
  ELSE IF HasRecovered THEN original[c] ELSE current[c]

TargetWithoutHysteresis(c) ==
  IF OverThreshold THEN Reduced(c) ELSE original[c]

TargetAllHot(c) ==
  IF \A z \in Zones : readings[z] = "hot" THEN Reduced(c)
  ELSE IF HasRecovered THEN original[c] ELSE current[c]

TargetUnlifted(c) ==
  IF OverThreshold THEN Reduced(c) ELSE current[c]

\* The copy is never above the original (CopiesInRange), so that a recovered core
\* whose copy is not below it stays as it is.
Target(c) ==
  IF OverThreshold THEN Reduced(c)
  ELSE IF HasRecovered THEN original[c] ELSE current[c]

\* The cores whose last write was rejected, after a write to c or none.
Rejections(c, writes) ==
  IF ~ writes \/ driver[c] = "gone" THEN rejected
  ELSE IF driver[c] = "rejects" THEN rejected \cup {c} ELSE rejected \ {c}

\* Mutant of CapCore: the copy is updated although the file did not open.
CapCoreUnasked(c) ==
  /\ phase = "cores"
  /\ c \in todo
  /\ ceiling' = IF driver[c] = "accepts"
                  THEN [ceiling EXCEPT ![c] = Target(c)] ELSE ceiling
  /\ current' = [current EXCEPT ![c] = Target(c)]
  /\ rejected' = Rejections(c, Target(c) # current[c])
  /\ todo' = todo \ {c}
  /\ UNCHANGED <<world, original, phase, readings, actual>>

\* good() is asked before the write reaches the driver, so a rejected write
\* updates the copy all the same; only a file that does not open leaves it.
CapCore(c) ==
  LET writes == Target(c) # current[c] IN
  /\ phase = "cores"
  /\ c \in todo
  /\ ceiling' = IF writes /\ driver[c] = "accepts"
                  THEN [ceiling EXCEPT ![c] = Target(c)] ELSE ceiling
  /\ current' = IF writes /\ driver[c] # "gone"
                  THEN [current EXCEPT ![c] = Target(c)] ELSE current
  /\ rejected' = Rejections(c, writes)
  /\ todo' = todo \ {c}
  /\ UNCHANGED <<world, original, phase, readings, actual>>

\* The rest of the tick and its sleep, to the next tick's first reading.
TickEnds ==
  /\ phase = "cores"
  /\ todo = {}
  /\ phase' = "zones"
  /\ todo' = Zones
  /\ readings' = [z \in Zones |-> "none"]
  /\ actual' = [z \in Zones |-> "cool"]
  /\ UNCHANGED <<world, ceiling, original, current, rejected>>

-----------------------------------------------------------------------------
(* The machine.                                                            *)

TemperatureChanges(z) ==
  /\ \E t \in Temperatures \ {temp[z]} : temp' = [temp EXCEPT ![z] = t]
  /\ UNCHANGED <<sensor, driver, faults, ceiling, engine, rejected>>

SensorFails(z) ==
  /\ faults < MaxFaults
  /\ faults' = faults + 1
  /\ \E s \in SensorFaults : sensor' = [sensor EXCEPT ![z] = s]
  /\ UNCHANGED <<temp, driver, ceiling, engine, rejected>>

SensorHeals(z) ==
  /\ sensor[z] # "reads"
  /\ sensor' = [sensor EXCEPT ![z] = "reads"]
  /\ UNCHANGED <<temp, driver, faults, ceiling, engine, rejected>>

DriverFails(c) ==
  /\ faults < MaxFaults
  /\ faults' = faults + 1
  /\ \E d \in DriverFaults : driver' = [driver EXCEPT ![c] = d]
  /\ UNCHANGED <<temp, sensor, ceiling, engine, rejected>>

DriverHeals(c) ==
  /\ driver[c] # "accepts"
  /\ driver' = [driver EXCEPT ![c] = "accepts"]
  /\ UNCHANGED <<temp, sensor, faults, ceiling, engine, rejected>>

-----------------------------------------------------------------------------
DaemonStep ==
  \/ ApplyInitialState
  \/ \E z \in Zones : ReadZone(z)
  \/ ZonesRead
  \/ \E c \in Cores : CapCore(c)
  \/ TickEnds

MachineStep ==
  \/ \E z \in Zones : TemperatureChanges(z) \/ SensorFails(z) \/ SensorHeals(z)
  \/ \E c \in Cores : DriverFails(c) \/ DriverHeals(c)

Next == DaemonStep \/ MachineStep

Spec == Init /\ [][Next]_vars

\* The daemon's thread is scheduled and its sleeps end; nothing is assumed of
\* temperatures, sensors and drivers.
FairSpec == Spec /\ WF_vars(DaemonStep)

-----------------------------------------------------------------------------
TypeOK ==
  /\ temp \in [Zones -> Temperatures]
  /\ sensor \in [Zones -> {"reads", "gone", "garbled"}]
  /\ driver \in [Cores -> {"accepts", "gone", "rejects"}]
  /\ ceiling \in [Cores -> Nat]
  /\ original \in [Cores -> Nat]
  /\ current \in [Cores -> Nat]
  /\ phase \in {"start", "zones", "cores"}
  /\ todo \subseteq (IF phase = "cores" THEN Cores ELSE Zones)
  /\ readings \in [Zones -> Temperatures \cup {"none"}]
  /\ actual \in [Zones -> Temperatures \cup {"unknown"}]
  /\ rejected \subseteq Cores
  /\ faults \in 0..MaxFaults

\* However sensors and drivers fail, no core is ever held below half of the
\* ceiling it had, or given more than it had.
CapInRange ==
  \A c \in Cores : ceiling[c] \in (Ceilings[c] \div 2) .. Ceilings[c]

\* The copies the policy works on stay in the range of the ceiling they copy.
CopiesInRange ==
  \A c \in Cores :
    /\ original[c] \in {0, Ceilings[c]}
    /\ current[c] \in (original[c] \div 2) .. original[c]

\* The engine's copy of a ceiling it could read is the kernel's value, unless the
\* last write was rejected, and what this tick has read of a zone that could be
\* read is what the zone had.
Informed ==
  /\ \A c \in Cores \ rejected : original[c] # 0 => current[c] = ceiling[c]
  /\ \A z \in Zones :
       phase = "cores" \/ (phase = "zones" /\ z \notin todo)
         => readings[z] = actual[z] \/ actual[z] = "unknown"

-----------------------------------------------------------------------------
\* A cap is lifted only in a tick that came to every zone it could read when that
\* was below the hysteresis point, unless the core has rejected its last write.
LiftedOnlyWhenCool ==
  [][\A c \in Cores \ rejected : ceiling'[c] > ceiling[c] =>
       \A z \in Zones : actual[z] \in {"cool", "unknown"}]_vars

\* A ceiling falls by a twentieth at a time, never in a single large step, unless
\* the core has rejected its last write.
FallsStepwise ==
  [][\A c \in Cores \ rejected : ceiling'[c] < ceiling[c] =>
       ceiling[c] - ceiling'[c] <= ceiling[c] \div 20]_vars

\* When every zone has become cool for good, and what failed works again, every
\* core gets its original ceiling back, unless it has rejected just that write.
Recovers ==
  <>[](/\ \A z \in Zones : temp[z] = "cool" /\ sensor[z] = "reads"
       /\ \A c \in Cores : driver[c] = "accepts")
    => <>[](\A c \in Cores \ rejected : ceiling[c] = Ceilings[c])

\* One zone that stays hot brings every core whose ceiling was read down to half
\* of it, whatever the other zones do, unless it has rejected the last step.
Throttles ==
  (/\ \E z \in Zones : <>[](temp[z] = "hot" /\ sensor[z] = "reads")
   /\ <>[](\A c \in Cores : driver[c] = "accepts"))
    => <>[](\A c \in Cores \ rejected : original[c] # 0 => ceiling[c] = Ceilings[c] \div 2)

-----------------------------------------------------------------------------
(* The promise: one verdict for all cores, followed step by step.          *)

Verdict ==
  IF phase # "cores" THEN "none"
  ELSE IF OverThreshold THEN "over"
  ELSE IF HasRecovered THEN "cool" ELSE "between"

\* A rejected write leaves a core out of step with the engine's copy, and nothing
\* looks at it again; but a machine that goes on getting hot and cool ends that.
RejectionEnds ==
  /\ <>[](\A c \in Cores : driver[c] = "accepts")
  /\ []<>(Verdict = "over") /\ []<>(Verdict = "cool")
  => <>[](rejected = {})

\* The ceilings the policy asks for: none of its own for a core it could not read.
Asked == [c \in Cores |-> IF original[c] = 0 THEN Ceilings[c] ELSE current[c]]

Pending == IF phase = "cores" THEN todo ELSE {}

Promise == INSTANCE StepWise
  WITH ceiling <- Asked, verdict <- Verdict, pending <- Pending

\* What the policy asks for implements StepWise: no core moves twice in a tick or
\* against the verdict that the others follow, though its readings were taken one
\* by one, its sensors may fail and its files may not open.
ImplementsStepWise == Promise!Spec
=============================================================================
