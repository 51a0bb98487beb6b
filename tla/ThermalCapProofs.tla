--------------------------- MODULE ThermalCapProofs ---------------------------
(***************************************************************************)
(* Proofs about the thermal policy, for any cores, zones, ceilings and     *)
(* number of faults of any kind.                                           *)
(***************************************************************************)
EXTENDS ThermalCap, TLAPS

-----------------------------------------------------------------------------
(* Arithmetic of one step.                                                 *)

\* Half of a number, and a twentieth of it, are natural numbers not above it.
LEMMA Shares ==
  ASSUME NEW n \in Nat
  PROVE  /\ n \div 2 \in 0..n
         /\ n \div 20 \in 0..n
  OBVIOUS

\* A step down from a copy in range is a number in range, and goes down by a
\* twentieth at most.
LEMMA ReducedInRange ==
  ASSUME NEW c \in Cores, TypeOK, CopiesInRange
  PROVE  /\ Reduced(c) \in (original[c] \div 2) .. original[c]
         /\ Reduced(c) <= current[c]
         /\ current[c] - Reduced(c) <= current[c] \div 20
  <1>1. original[c] \in Nat /\ current[c] \in Nat
    BY DEF TypeOK
  <1>2. current[c] \in (original[c] \div 2) .. original[c]
    BY DEF CopiesInRange
  <1>3. /\ original[c] \div 2 \in 0..original[c]
        /\ current[c] \div 20 \in 0..current[c]
    BY <1>1, Shares
  <1>. DEFINE lower == current[c] - (current[c] \div 20)
              floor == original[c] \div 2
  <1>4. Reduced(c) = IF lower < floor THEN floor ELSE lower
    BY DEF Reduced
  <1>5. lower \in Int /\ floor \in Int /\ lower <= current[c] /\ current[c] - lower = current[c] \div 20
    BY <1>1, <1>3
  <1>6. floor <= current[c] /\ current[c] <= original[c]
    BY <1>1, <1>2, <1>3
  <1>. HIDE DEF lower
  <1>7. CASE lower < floor
    <2>1. Reduced(c) = floor
      BY <1>4, <1>7
    <2>. QED BY <1>1, <1>3, <1>5, <1>6, <1>7, <2>1
  <1>8. CASE ~ (lower < floor)
    <2>1. Reduced(c) = lower
      BY <1>4, <1>8
    <2>. QED BY <1>1, <1>3, <1>5, <1>6, <1>8, <2>1
  <1>. QED BY <1>7, <1>8

\* Whatever was read, the target of a copy in range is in range.
LEMMA TargetInRange ==
  ASSUME NEW c \in Cores, TypeOK, CopiesInRange
  PROVE  Target(c) \in (original[c] \div 2) .. original[c]
  <1>1. original[c] \in Nat /\ current[c] \in (original[c] \div 2) .. original[c]
    BY DEF TypeOK, CopiesInRange
  <1>2. original[c] \in (original[c] \div 2) .. original[c]
    BY <1>1, Shares
  <1>. QED BY <1>1, <1>2, ReducedInRange DEF Target

\* A smaller number that is not further away than a share is below by one at least
\* and by the share at most.
LEMMA StepBelow ==
  ASSUME NEW n \in Nat, NEW share \in Nat, NEW m \in Nat,
         m # n, m <= n, n - m <= share
  PROVE  m \in (n - share) .. (n - 1)
  OBVIOUS

LEMMA TargetNatural ==
  ASSUME NEW c \in Cores, TypeOK, CopiesInRange
  PROVE  Target(c) \in Nat
  <1>1. original[c] \in Nat
    BY DEF TypeOK
  <1>2. original[c] \div 2 \in Nat
    BY <1>1, Shares
  <1>. QED BY <1>1, <1>2, TargetInRange

-----------------------------------------------------------------------------
(* Types and ranges: the two are inductive together, because an unsigned   *)
(* ceiling stays a natural number only as long as the copies are in range. *)

RangeInv == TypeOK /\ CopiesInRange /\ CapInRange

LEMMA RangeInit == Init => RangeInv
  <1>. SUFFICES ASSUME Init PROVE RangeInv
    OBVIOUS
  <1>. USE ThermalAssumption DEF Init
  <1>1. TypeOK
    BY DEF TypeOK, Temperatures
  <1>2. CopiesInRange
    BY DEF CopiesInRange
  <1>3. CapInRange
    <2>. SUFFICES ASSUME NEW c \in Cores PROVE ceiling[c] \in (Ceilings[c] \div 2) .. Ceilings[c]
      BY DEF CapInRange
    <2>1. Ceilings[c] \in Nat /\ ceiling[c] = Ceilings[c]
      OBVIOUS
    <2>. QED BY <2>1, Shares
  <1>. QED BY <1>1, <1>2, <1>3 DEF RangeInv

\* Before the start the ceilings are those the machine came with.
StartInv == phase = "start" => ceiling = Ceilings

LEMMA StartInductive == Init => StartInv
  BY DEF Init, StartInv

LEMMA StartStep == TypeOK /\ StartInv /\ [Next]_vars => StartInv'
  <1>. SUFFICES ASSUME TypeOK, StartInv, [Next]_vars PROVE StartInv'
    OBVIOUS
  <1>. USE DEF StartInv
  <1>1. CASE ApplyInitialState
    BY <1>1 DEF ApplyInitialState
  <1>2. CASE \E z \in Zones : ReadZone(z)
    BY <1>2 DEF ReadZone
  <1>3. CASE ZonesRead
    BY <1>3 DEF ZonesRead
  <1>4. CASE \E c \in Cores : CapCore(c)
    BY <1>4 DEF CapCore
  <1>5. CASE TickEnds
    BY <1>5 DEF TickEnds
  <1>6. CASE MachineStep
    BY <1>6 DEF MachineStep, TemperatureChanges, SensorFails, SensorHeals,
                DriverFails, DriverHeals, engine
  <1>7. CASE UNCHANGED vars
    BY <1>7 DEF vars
  <1>. QED BY <1>1, <1>2, <1>3, <1>4, <1>5, <1>6, <1>7 DEF Next, DaemonStep

LEMMA RangeApply ==
  ASSUME RangeInv, StartInv, ApplyInitialState
  PROVE  RangeInv'
  <1>. USE ThermalAssumption DEF RangeInv, ApplyInitialState, world
  <1>1. ceiling = Ceilings
    BY DEF StartInv
  <1>2. TypeOK'
    BY <1>1 DEF TypeOK
  <1>3. CopiesInRange'
    <2>. SUFFICES ASSUME NEW c \in Cores
                  PROVE  /\ original'[c] \in {0, Ceilings[c]}
                         /\ current'[c] \in (original'[c] \div 2) .. original'[c]
      BY DEF CopiesInRange
    <2>1. original'[c] \in {0, Ceilings[c]} /\ current'[c] = original'[c]
      BY <1>1
    <2>2. original'[c] \in Nat
      BY <2>1
    <2>. QED BY <2>1, <2>2, Shares
  <1>4. CapInRange'
    BY DEF CapInRange
  <1>. QED BY <1>2, <1>3, <1>4

LEMMA RangeCap ==
  ASSUME RangeInv, NEW c \in Cores, CapCore(c)
  PROVE  RangeInv'
  <1>. USE ThermalAssumption DEF RangeInv, world
  <1>1. Target(c) \in Nat /\ Target(c) \in (original[c] \div 2) .. original[c]
    BY TargetInRange, TargetNatural
  <1>2. /\ ceiling' \in {ceiling, [ceiling EXCEPT ![c] = Target(c)]}
        /\ current' \in {current, [current EXCEPT ![c] = Target(c)]}
        /\ ceiling' # ceiling => Target(c) # current[c]
    BY DEF CapCore
  <1>a. rejected' \subseteq Cores
    BY DEF CapCore, Rejections, TypeOK
  <1>3. TypeOK'
    BY <1>1, <1>2, <1>a DEF TypeOK, CapCore
  <1>4. CopiesInRange'
    BY <1>1, <1>2 DEF CopiesInRange, CapCore, TypeOK
  <1>5. CapInRange'
    <2>1. original[c] \in {0, Ceilings[c]} /\ current[c] \in (original[c] \div 2) .. original[c]
      BY DEF CopiesInRange
    <2>2. original[c] = 0 => Target(c) = current[c]
      <3>1. 0 \div 2 = 0
        OBVIOUS
      <3>. QED BY <1>1, <2>1, <3>1
    <2>3. CASE ceiling' = ceiling
      BY <2>3 DEF CapInRange
    <2>4. CASE ceiling' # ceiling
      <3>1. Target(c) \in (Ceilings[c] \div 2) .. Ceilings[c]
        BY <1>1, <1>2, <2>1, <2>2, <2>4
      <3>2. ceiling' = [ceiling EXCEPT ![c] = Target(c)]
        BY <1>2, <2>4
      <3>. QED BY <3>1, <3>2 DEF CapInRange, TypeOK
    <2>. QED BY <2>3, <2>4
  <1>. QED BY <1>3, <1>4, <1>5

LEMMA RangeStep == RangeInv /\ StartInv /\ [Next]_vars => RangeInv'
  <1>. SUFFICES ASSUME RangeInv, StartInv, [Next]_vars PROVE RangeInv'
    OBVIOUS
  <1>. USE ThermalAssumption
  <1>1. CASE ApplyInitialState
    BY <1>1, RangeApply
  <1>2. CASE \E c \in Cores : CapCore(c)
    BY <1>2, RangeCap
  <1>3. CASE \E z \in Zones : ReadZone(z)
    BY <1>3 DEF RangeInv, TypeOK, CopiesInRange, CapInRange, ReadZone, world, Temperatures
  <1>4. CASE ZonesRead
    BY <1>4 DEF RangeInv, TypeOK, CopiesInRange, CapInRange, ZonesRead, world
  <1>5. CASE TickEnds
    BY <1>5 DEF RangeInv, TypeOK, CopiesInRange, CapInRange, TickEnds, world, Temperatures
  <1>6. CASE MachineStep
    <2>1. UNCHANGED <<ceiling, engine, rejected>>
      BY <1>6 DEF MachineStep, TemperatureChanges, SensorFails, SensorHeals,
                  DriverFails, DriverHeals
    <2>2. temp' \in [Zones -> Temperatures]
      BY <1>6 DEF MachineStep, TemperatureChanges, SensorFails, SensorHeals,
                  DriverFails, DriverHeals, RangeInv, TypeOK
    <2>3. sensor' \in [Zones -> {"reads", "gone", "garbled"}]
      BY <1>6 DEF MachineStep, TemperatureChanges, SensorFails, SensorHeals,
                  DriverFails, DriverHeals, RangeInv, TypeOK
    <2>4. driver' \in [Cores -> {"accepts", "gone", "rejects"}]
      BY <1>6 DEF MachineStep, TemperatureChanges, SensorFails, SensorHeals,
                  DriverFails, DriverHeals, RangeInv, TypeOK
    <2>5. faults' \in 0..MaxFaults
      BY <1>6 DEF MachineStep, TemperatureChanges, SensorFails, SensorHeals,
                  DriverFails, DriverHeals, RangeInv, TypeOK
    <2>. QED BY <2>1, <2>2, <2>3, <2>4, <2>5
             DEF RangeInv, TypeOK, CopiesInRange, CapInRange, engine
  <1>7. CASE UNCHANGED vars
    BY <1>7 DEF vars, RangeInv, TypeOK, CopiesInRange, CapInRange
  <1>. QED BY <1>1, <1>2, <1>3, <1>4, <1>5, <1>6, <1>7 DEF Next, DaemonStep

LEMMA RangeAlways == Spec => [](RangeInv /\ StartInv)
  <1>1. RangeInv => TypeOK
    BY DEF RangeInv
  <1>. QED BY <1>1, RangeInit, StartInductive, RangeStep, StartStep, PTL DEF Spec

\* The variables keep their types: in particular the unsigned arithmetic of the
\* step never wraps below zero.
THEOREM TypeCorrect == Spec => []TypeOK
  BY RangeAlways, PTL DEF RangeInv

\* However sensors and drivers fail, every ceiling stays between half of what it
\* was before the daemon started and what it was.
THEOREM CapInRangeHolds == Spec => []CapInRange
  BY RangeAlways, PTL DEF RangeInv

-----------------------------------------------------------------------------
(* What the engine knows.                                                  *)

LEMMA InformedInit == Init => Informed
  BY DEF Init, Informed

LEMMA InformedApply ==
  ASSUME RangeInv, Informed, ApplyInitialState
  PROVE  Informed'
  <1>1. \A c \in Cores : original'[c] # 0 => current'[c] = ceiling'[c]
    BY DEF ApplyInitialState, world
  <1>2. phase' = "zones" /\ todo' = Zones
    BY DEF ApplyInitialState
  <1>. QED BY <1>1, <1>2 DEF Informed

LEMMA InformedRead ==
  ASSUME RangeInv, Informed, NEW z \in Zones, ReadZone(z)
  PROVE  Informed'
  <1>1. readings'[z] = actual'[z] \/ actual'[z] = "unknown"
    BY DEF ReadZone, RangeInv, TypeOK
  <1>2. \A y \in Zones \ {z} : readings'[y] = readings[y] /\ actual'[y] = actual[y]
    BY DEF ReadZone, RangeInv, TypeOK
  <1>3. /\ todo' = todo \ {z}
        /\ phase = "zones"
        /\ UNCHANGED <<ceiling, original, current, phase, rejected>>
    BY DEF ReadZone
  <1>. QED BY <1>1, <1>2, <1>3 DEF Informed

\* A copy follows its write where the file opens, and the core is then in step, or
\* known to have rejected the write.
LEMMA InformedCap ==
  ASSUME RangeInv, Informed, NEW c \in Cores, CapCore(c)
  PROVE  Informed'
  <1>1. driver[c] \in {"accepts", "gone", "rejects"}
    BY DEF RangeInv, TypeOK
  <1>2. UNCHANGED <<original, phase, readings, actual>> /\ phase = "cores"
    BY DEF CapCore
  <1>3. CASE driver[c] = "accepts" /\ Target(c) # current[c]
    <2>1. /\ ceiling' = [ceiling EXCEPT ![c] = Target(c)]
          /\ current' = [current EXCEPT ![c] = Target(c)]
          /\ rejected' = rejected \ {c}
      BY <1>3 DEF CapCore, Rejections
    <2>. QED BY <1>2, <2>1 DEF Informed, RangeInv, TypeOK
  <1>4. CASE driver[c] = "rejects" /\ Target(c) # current[c]
    <2>1. /\ ceiling' = ceiling
          /\ current' = [current EXCEPT ![c] = Target(c)]
          /\ rejected' = rejected \cup {c}
      BY <1>4 DEF CapCore, Rejections
    <2>. QED BY <1>2, <2>1 DEF Informed, RangeInv, TypeOK
  <1>5. CASE driver[c] = "gone" \/ Target(c) = current[c]
    <2>1. ceiling' = ceiling /\ current' = current /\ rejected' = rejected
      BY <1>5 DEF CapCore, Rejections
    <2>. QED BY <1>2, <2>1 DEF Informed
  <1>. QED BY <1>1, <1>3, <1>4, <1>5

LEMMA InformedStep ==
  ASSUME RangeInv, Informed, [Next]_vars
  PROVE  Informed'
  <1>1. CASE ApplyInitialState
    BY <1>1, InformedApply
  <1>2. CASE \E z \in Zones : ReadZone(z)
    BY <1>2, InformedRead
  <1>3. CASE ZonesRead
    BY <1>3 DEF ZonesRead, Informed
  <1>4. CASE \E c \in Cores : CapCore(c)
    BY <1>4, InformedCap
  <1>5. CASE TickEnds
    BY <1>5 DEF TickEnds, Informed
  <1>6. CASE MachineStep
    BY <1>6 DEF MachineStep, TemperatureChanges, SensorFails, SensorHeals,
                DriverFails, DriverHeals, engine, Informed
  <1>7. CASE UNCHANGED vars
    BY <1>7 DEF vars, Informed
  <1>. QED BY <1>1, <1>2, <1>3, <1>4, <1>5, <1>6, <1>7 DEF Next, DaemonStep

\* The engine's copies are the kernel's values except for cores that rejected the
\* last write, and its readings those of the zones that could be read when it came
\* to them.
THEOREM InformedHolds == Spec => []Informed
  <1>1. RangeInv /\ Informed /\ [Next]_vars => Informed'
    BY InformedStep
  <1>. QED BY <1>1, InformedInit, RangeAlways, PTL DEF Spec

\* A core whose copy or original is zero has neither to lose.
LEMMA ZeroStays ==
  ASSUME RangeInv, NEW c \in Cores, original[c] = 0
  PROVE  Target(c) = current[c]
  <1>1. /\ Target(c) \in (original[c] \div 2) .. original[c]
        /\ current[c] \in (original[c] \div 2) .. original[c]
    BY TargetInRange DEF RangeInv, CopiesInRange
  <1>2. 0 \div 2 = 0
    OBVIOUS
  <1>. QED BY <1>1, <1>2

\* Only a write that is accepted, and that the target calls for, moves a ceiling.
LEMMA OnlyCapMoves ==
  ASSUME RangeInv, Informed, [Next]_vars, NEW c \in Cores \ rejected, ceiling'[c] # ceiling[c]
  PROVE  /\ phase = "cores"
         /\ ceiling'[c] = Target(c)
         /\ current[c] = ceiling[c]
  <1>1. PICK d \in Cores : CapCore(d)
    BY DEF Next, DaemonStep, MachineStep, ApplyInitialState, ReadZone, ZonesRead,
           TickEnds, TemperatureChanges, SensorFails, SensorHeals, DriverFails,
           DriverHeals, vars
  <1>2. /\ ceiling' = [ceiling EXCEPT ![d] = Target(d)]
        /\ Target(d) # current[d]
        /\ phase = "cores"
    BY <1>1 DEF CapCore
  <1>3. d = c /\ ceiling'[c] = Target(c)
    BY <1>2 DEF RangeInv, TypeOK
  <1>4. original[c] # 0
    BY <1>2, <1>3, ZeroStays
  <1>. QED BY <1>2, <1>3, <1>4 DEF Informed

LEMMA LiftStep ==
  ASSUME RangeInv, Informed, [Next]_vars
  PROVE  \A c \in Cores \ rejected : ceiling'[c] > ceiling[c] =>
           \A z \in Zones : actual[z] \in {"cool", "unknown"}
  <1>. SUFFICES ASSUME NEW c \in Cores \ rejected, ceiling'[c] > ceiling[c], NEW z \in Zones
                PROVE  actual[z] \in {"cool", "unknown"}
    OBVIOUS
  <1>1. ceiling[c] \in Nat
    BY DEF RangeInv, TypeOK
  <1>2. ceiling'[c] # ceiling[c]
    BY <1>1
  <1>3. phase = "cores" /\ ceiling'[c] = Target(c) /\ current[c] = ceiling[c]
    BY <1>2, OnlyCapMoves
  <1>4. Target(c) > current[c]
    BY <1>3
  <1>5. ~ OverThreshold
    <2>. SUFFICES ASSUME OverThreshold PROVE FALSE
      OBVIOUS
    <2>1. Target(c) = Reduced(c)
      BY DEF Target
    <2>2. Reduced(c) <= current[c]
      BY ReducedInRange DEF RangeInv
    <2>3. Target(c) \in Nat /\ current[c] \in Nat
      BY TargetNatural DEF RangeInv, TypeOK
    <2>. QED BY <1>4, <2>1, <2>2, <2>3
  <1>6. HasRecovered
    <2>. SUFFICES ASSUME ~ HasRecovered PROVE FALSE
      OBVIOUS
    <2>1. Target(c) = current[c]
      BY <1>5 DEF Target
    <2>. QED BY <1>1, <1>3, <1>4, <2>1
  <1>7. /\ readings[z] = actual[z] \/ actual[z] = "unknown"
        /\ actual[z] \in Temperatures \cup {"unknown"}
    BY <1>3 DEF Informed, RangeInv, TypeOK
  <1>. QED BY <1>6, <1>7 DEF HasRecovered, Temperatures

LEMMA FallStep ==
  ASSUME RangeInv, Informed, [Next]_vars
  PROVE  \A c \in Cores \ rejected : ceiling'[c] < ceiling[c] =>
           ceiling[c] - ceiling'[c] <= ceiling[c] \div 20
  <1>. SUFFICES ASSUME NEW c \in Cores \ rejected, ceiling'[c] < ceiling[c]
                PROVE  ceiling[c] - ceiling'[c] <= ceiling[c] \div 20
    OBVIOUS
  <1>1. ceiling[c] \in Nat
    BY DEF RangeInv, TypeOK
  <1>2. ceiling'[c] # ceiling[c]
    BY <1>1
  <1>3. ceiling'[c] = Target(c) /\ current[c] = ceiling[c]
    BY <1>2, OnlyCapMoves
  <1>4. original[c] \in Nat /\ current[c] \in (original[c] \div 2) .. original[c]
    BY DEF RangeInv, TypeOK, CopiesInRange
  <1>5. Target(c) = Reduced(c)
    <2>. SUFFICES ASSUME Target(c) # Reduced(c) PROVE FALSE
      OBVIOUS
    <2>1. Target(c) = original[c] \/ Target(c) = current[c]
      BY DEF Target
    <2>. QED BY <1>1, <1>3, <1>4, <2>1
  <1>6. current[c] - Reduced(c) <= current[c] \div 20
    BY ReducedInRange DEF RangeInv
  <1>. QED BY <1>3, <1>5, <1>6

\* A cap is lifted only in a tick that found every zone it could read cool.
THEOREM LiftedOnlyWhenCoolHolds == Spec => LiftedOnlyWhenCool
  <1>1. RangeInv /\ Informed /\ [Next]_vars =>
          [\A c \in Cores \ rejected : ceiling'[c] > ceiling[c] =>
             \A z \in Zones : actual[z] \in {"cool", "unknown"}]_vars
    BY LiftStep
  <1>. QED BY <1>1, InformedHolds, RangeAlways, PTL DEF Spec, LiftedOnlyWhenCool

\* A ceiling falls by at most a twentieth of its value at a time.
THEOREM FallsStepwiseHolds == Spec => FallsStepwise
  <1>1. RangeInv /\ Informed /\ [Next]_vars =>
          [\A c \in Cores \ rejected : ceiling'[c] < ceiling[c] =>
             ceiling[c] - ceiling'[c] <= ceiling[c] \div 20]_vars
    BY FallStep
  <1>. QED BY <1>1, InformedHolds, RangeAlways, PTL DEF Spec, FallsStepwise

-----------------------------------------------------------------------------
(* The policy implements its promise, StepWise.                            *)

\* Where the cores are capped the verdict and the readings stay, and what is asked
\* of a core is its copy.
LEMMA CapFollows ==
  ASSUME RangeInv, NEW c \in Cores, CapCore(c)
  PROVE  Promise!Follow(c)
  <1>1. phase = "cores" /\ phase' = "cores" /\ c \in todo /\ todo' = todo \ {c} /\ readings' = readings
    BY DEF CapCore
  <1>2. Verdict' = Verdict
    BY <1>1 DEF Verdict, OverThreshold, HasRecovered
  <1>3. c \in Pending /\ Pending' = Pending \ {c}
    BY <1>1 DEF Pending
  <1>4. original' = original
    BY DEF CapCore
  <1>5. CASE current' = current
    <2>1. Asked' = Asked
      BY <1>4, <1>5 DEF Asked
    <2>. QED BY <1>2, <1>3, <2>1 DEF Promise!Follow
  <1>6. CASE current' # current
    <2>1. current' = [current EXCEPT ![c] = Target(c)] /\ Target(c) # current[c]
      BY <1>6 DEF CapCore
    <2>2. original[c] # 0 /\ original[c] = Ceilings[c] /\ Ceilings[c] \in Nat
      BY <2>1, ZeroStays, ThermalAssumption DEF RangeInv, CopiesInRange
    <2>3. Asked[c] = current[c] /\ current[c] \in Nat
      BY <2>2 DEF Asked, RangeInv, TypeOK
    <2>4. Asked' = [Asked EXCEPT ![c] = Target(c)]
      BY <1>4, <2>1, <2>2 DEF Asked, RangeInv, TypeOK
    <2>5. CASE OverThreshold
      <3>1. Target(c) = Reduced(c) /\ Verdict = "over"
        BY <1>1, <2>5 DEF Target, Verdict
      <3>2. /\ Reduced(c) \in (Ceilings[c] \div 2) .. Ceilings[c]
            /\ Reduced(c) <= Asked[c]
            /\ Asked[c] - Reduced(c) <= Asked[c] \div 20
        BY <2>2, <2>3, ReducedInRange DEF RangeInv
      <3>3. Target(c) \in Nat /\ Asked[c] \div 20 \in 0..Asked[c] /\ Ceilings[c] \div 2 \in 0..Ceilings[c]
        BY <2>2, <2>3, TargetNatural, Shares DEF RangeInv
      <3>4. /\ Target(c) \in (Asked[c] - (Asked[c] \div 20)) .. (Asked[c] - 1)
            /\ Target(c) >= Ceilings[c] \div 2
        <4>1. Target(c) # Asked[c] /\ Target(c) <= Asked[c] /\ Asked[c] - Target(c) <= Asked[c] \div 20
          BY <2>1, <2>3, <3>1, <3>2
        <4>2. Asked[c] \in Nat /\ Asked[c] \div 20 \in Nat
          BY <2>3, <3>3
        <4>3. Target(c) >= Ceilings[c] \div 2
          BY <3>1, <3>2, <3>3
        <4> QED BY <3>3, <4>1, <4>2, <4>3, StepBelow
      <3>5. Promise!Lower(c)
        BY <2>4, <3>1, <3>4 DEF Promise!Lower
      <3> QED BY <1>2, <1>3, <3>5 DEF Promise!Follow
    <2>6. CASE ~ OverThreshold
      <3>1. HasRecovered
        BY <2>1, <2>6 DEF Target
      <3>2. Target(c) = Ceilings[c] /\ Verdict = "cool"
        BY <1>1, <2>2, <2>6, <3>1 DEF Target, Verdict
      <3>3. Promise!Lift(c)
        BY <2>4, <3>2 DEF Promise!Lift
      <3> QED BY <1>2, <1>3, <3>3 DEF Promise!Follow
    <2> QED BY <2>5, <2>6
  <1> QED BY <1>5, <1>6

\* Reading the ceilings at the start asks for nothing.
LEMMA ApplyAsks ==
  ASSUME RangeInv, StartInv, ApplyInitialState
  PROVE  Asked' = Ceilings
  <1>1. ceiling = Ceilings /\ Ceilings \in [Cores -> Nat]
    BY ThermalAssumption DEF StartInv, ApplyInitialState
  <1>2. \A c \in Cores : original'[c] \in {0, Ceilings[c]} /\ current'[c] = original'[c]
    BY <1>1 DEF ApplyInitialState
  <1>3. Asked' = [c \in Cores |-> Ceilings[c]]
    BY <1>2 DEF Asked
  <1>. QED BY <1>1, <1>3

\* Before it, nothing has been asked for either.
NothingAsked == phase = "start" => Asked = Ceilings

LEMMA NothingAskedInit == Init => NothingAsked
  BY ThermalAssumption DEF Init, NothingAsked, Asked

LEMMA NothingAskedStep == NothingAsked /\ [Next]_vars => NothingAsked'
  <1>. SUFFICES ASSUME NothingAsked, [Next]_vars PROVE NothingAsked'
    OBVIOUS
  <1>1. CASE DaemonStep
    BY <1>1 DEF DaemonStep, ApplyInitialState, ReadZone, ZonesRead, CapCore, TickEnds,
                NothingAsked
  <1>2. CASE MachineStep \/ UNCHANGED vars
    <2>1. UNCHANGED <<phase, original, current>>
      BY <1>2 DEF MachineStep, TemperatureChanges, SensorFails, SensorHeals, DriverFails,
                  DriverHeals, engine, vars
    <2>. QED BY <2>1 DEF NothingAsked, Asked
  <1>. QED BY <1>1, <1>2 DEF Next

LEMMA PromiseStep ==
  ASSUME RangeInv, StartInv, NothingAsked, [Next]_vars
  PROVE  [Promise!Next]_(Promise!vars)
  <1> USE DEF Promise!vars
  <1>0. CASE ApplyInitialState
    <2>1. Asked' = Asked
      BY <1>0, ApplyAsks DEF NothingAsked, ApplyInitialState
    <2> QED BY <1>0, <2>1 DEF ApplyInitialState, Verdict, Pending
  <1>1. CASE \E z \in Zones : ReadZone(z)
    BY <1>1 DEF ReadZone, Verdict, Pending, Asked
  <1>2. CASE ZonesRead
    <2>1. Verdict = "none" /\ Verdict' \in {"over", "between", "cool"}
      BY <1>2 DEF ZonesRead, Verdict
    <2>2. Pending' = Cores /\ Asked' = Asked
      BY <1>2 DEF ZonesRead, Pending, Asked
    <2> QED BY <2>1, <2>2 DEF Promise!Next, Promise!Decide
  <1>3. ASSUME NEW c \in Cores, CapCore(c) PROVE [Promise!Next]_(Promise!vars)
    BY <1>3, CapFollows DEF Promise!Next
  <1>4. CASE TickEnds
    <2>1. /\ Pending = {} /\ Pending' = {}
          /\ Verdict' = "none" /\ Asked' = Asked
      BY <1>4 DEF TickEnds, Pending, Verdict, Asked
    <2> QED BY <2>1 DEF Promise!Next, Promise!Forget
  <1>5. CASE MachineStep \/ UNCHANGED vars
    <2>1. UNCHANGED <<original, current, phase, todo, readings>>
      BY <1>5 DEF MachineStep, TemperatureChanges, SensorFails, SensorHeals, DriverFails,
                  DriverHeals, engine, vars
    <2> QED BY <2>1 DEF Verdict, Pending, OverThreshold, HasRecovered, Asked
  <1> QED BY <1>0, <1>1, <1>2, <1>3, <1>4, <1>5 DEF Next, DaemonStep

\* Every tick of the policy is one verdict under which it asks each core at most
\* once to move, by a twentieth or back to where it was.
THEOREM StepWiseImplemented == Spec => ImplementsStepWise
  <1>1. Init => Promise!Init
    <2> SUFFICES ASSUME Init PROVE Promise!Init
      OBVIOUS
    <2>1. Asked = Ceilings
      BY NothingAskedInit DEF NothingAsked, Init
    <2> QED BY <2>1 DEF Init, Promise!Init, Verdict, Pending
  <1>2. RangeInv /\ StartInv /\ NothingAsked /\ [Next]_vars => [Promise!Next]_(Promise!vars)
    BY PromiseStep
  <1>3. Spec => []NothingAsked
    BY NothingAskedInit, NothingAskedStep, PTL DEF Spec
  <1> QED BY <1>1, <1>2, <1>3, RangeAlways, PTL
      DEF Spec, ImplementsStepWise, Promise!Spec
=============================================================================
