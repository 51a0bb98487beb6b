-------------------------- MODULE MemoryPolicyProofs --------------------------
(***************************************************************************)
(* Proofs about the memory policy, for any initial ratios.  Types hold     *)
(* whatever an administrator writes; what is said of the dirty ratio holds *)
(* until then.                                                             *)
(***************************************************************************)
EXTENDS MemoryPolicy, TLAPS

-----------------------------------------------------------------------------
(* Types.                                                                  *)

LEMMA WriteKeepsType ==
  ASSUME TypeOK, NEW r, WriteRatio(r)
  PROVE  ratio' \in 0..100 /\ bytes' \in BOOLEAN
  BY DEF TypeOK, WriteRatio

LEMMA TypeInit == Init => TypeOK
  <1>. SUFFICES ASSUME Init PROVE TypeOK
    OBVIOUS
  <1>1. bytes \in BOOLEAN /\ ratio \in 0..100
    <2>1. bytes \in BOOLEAN
      BY MemoryAssumption DEF Init
    <2>2. ratio = 0 \/ ratio \in Ratios
      <3>1. IF bytes THEN ratio = 0 ELSE ratio \in Ratios
        BY DEF Init
      <3>2. CASE bytes
        BY <3>1, <3>2
      <3>3. CASE ~ bytes
        BY <3>1, <3>3
      <3>. QED BY <3>2, <3>3
    <2>3. ratio \in Ratios => ratio \in 1..100
      BY MemoryAssumption
    <2>4. \A r \in 1..100 : r \in 0..100
      OBVIOUS
    <2>5. 0 \in 0..100
      OBVIOUS
    <2>6. ratio \in 0..100
      BY <2>2, <2>3, <2>4, <2>5, Zenon
    <2>. QED BY <2>1, <2>6
  <1>. USE MemoryAssumption DEF Init, InitialVfs
  <1>2. first \in [vfs : 0..MaxVfs, ratio : 0..100, bytes : BOOLEAN]
    BY <1>1
  <1>3. signalled \in BOOLEAN
    BY Zenon
  <1>. QED BY <1>1, <1>2, <1>3 DEF TypeOK

LEMMA TypeStep == TypeOK /\ [Next]_vars => TypeOK'
  <1>. SUFFICES ASSUME TypeOK, [Next]_vars PROVE TypeOK'
    OBVIOUS
  <1>. USE MemoryAssumption DEF InitialVfs, sysctls
  <1>1. CASE CaptureCurrentState
    BY <1>1 DEF TypeOK, CaptureCurrentState
  <1>2. CASE ReadPressure
    BY <1>2 DEF TypeOK, ReadPressure
  <1>3. CASE ReadVfs
    BY <1>3 DEF TypeOK, ReadVfs
  <1>4. CASE WriteVfs
    <2>1. seen \in Int
      BY DEF TypeOK
    <2>2. seen >= 0 \/ seen + 20 >= 0
      BY <2>1 DEF TypeOK
    <2>3. vfs' \in 0..MaxVfs
      BY <1>4, <2>1, <2>2 DEF TypeOK, WriteVfs
    <2>. QED BY <1>4, <2>3 DEF TypeOK, WriteVfs
  <1>5. CASE ReadRatio
    BY <1>5 DEF TypeOK, ReadRatio
  <1>6. CASE ReadRatioAgain
    BY <1>6 DEF TypeOK, ReadRatioAgain
  <1>7. CASE SetDirtyRatio
    BY <1>7, WriteKeepsType DEF TypeOK, SetDirtyRatio
  <1>9. CASE RequestTermination
    BY <1>9 DEF TypeOK, RequestTermination
  <1>10. CASE StopRequested
    BY <1>10 DEF TypeOK, StopRequested
  <1>11. CASE RestoreVfs
    BY <1>11 DEF TypeOK, RestoreVfs
  <1>12. CASE RestoreRatio
    BY <1>12, WriteKeepsType DEF TypeOK, RestoreRatio
  <1>13. CASE PressureChanges
    BY <1>13 DEF TypeOK, PressureChanges
  <1>15. CASE AdminWritesRatio
    BY <1>15, WriteKeepsType DEF TypeOK, AdminWritesRatio
  <1>16. CASE UNCHANGED vars
    BY <1>16 DEF TypeOK, vars
  <1>. QED BY <1>1, <1>2, <1>3, <1>4, <1>5, <1>6, <1>7, <1>9, <1>10, <1>11,
              <1>12, <1>13, <1>15, <1>16 DEF Next, PolicyStep, MachineStep

\* The variables keep their types: what is read, computed and written stays in
\* the range of the sysctls, or just below it where the kernel rejects it.
THEOREM TypeCorrect == Spec => []TypeOK
  BY TypeInit, TypeStep, PTL DEF Spec

-----------------------------------------------------------------------------
(* The dirty ratio.                                                        *)

LEMMA LimitsInit == Init => LimitsKept
  <1>. SUFFICES ASSUME Init, RatioUndisturbed PROVE LimitsKept
    BY DEF LimitsKept
  <1>. USE DEF RatioUndisturbed
  <1>1. ~ bytes /\ ratio \in Ratios /\ first.ratio = ratio /\ first.vfs = vfs
    BY DEF Init
  <1>2. ratio >= 1
    BY <1>1, MemoryAssumption
  <1>. QED BY <1>1, <1>2 DEF Init, LimitsKept

LEMMA LimitsStep == TypeOK /\ LimitsKept /\ [Next]_vars => LimitsKept'
  <1>. SUFFICES ASSUME TypeOK, LimitsKept, [Next]_vars PROVE LimitsKept'
    OBVIOUS
  \* An administrator only ever adds to the count of writes.
  <1>0. CASE ~ RatioUndisturbed'
    BY <1>0 DEF LimitsKept
  <1>. SUFFICES ASSUME RatioUndisturbed' PROVE LimitsKept'
    BY <1>0
  <1>a. first' = first /\ writes = 0 /\ writes' = 0
    BY MemoryAssumption DEF RatioUndisturbed, TypeOK,
           Next, PolicyStep, MachineStep, CaptureCurrentState, ReadPressure, ReadVfs,
           WriteVfs, ReadRatio, ReadRatioAgain, SetDirtyRatio,
           RequestTermination, StopRequested, RestoreVfs, RestoreRatio,
           PressureChanges, AdminWritesRatio, vars
  <1>b. RatioUndisturbed
    BY <1>a DEF RatioUndisturbed
  <1>. USE <1>b DEF sysctls, RatioUndisturbed
  <1>1. CASE CaptureCurrentState
    BY <1>1 DEF LimitsKept, CaptureCurrentState
  <1>2. CASE ReadPressure
    BY <1>2 DEF LimitsKept, ReadPressure
  <1>3. CASE ReadVfs
    BY <1>3 DEF LimitsKept, ReadVfs
  <1>4. CASE WriteVfs
    BY <1>4 DEF LimitsKept, WriteVfs
  <1>5. CASE ReadRatio
    BY <1>5 DEF LimitsKept, ReadRatio
  <1>6. CASE ReadRatioAgain
    <2>1. ratio > 5 /\ ratio \in 0..100
      BY <1>6 DEF LimitsKept, ReadRatioAgain, TypeOK
    <2>. QED BY <1>6, <2>1 DEF LimitsKept, ReadRatioAgain
  <1>7. CASE SetDirtyRatio
    <2>1. seen \in 1..95
      BY <1>7 DEF LimitsKept, SetDirtyRatio
    <2>2. ratio' >= 1 /\ ~ bytes'
      BY <1>7, <2>1 DEF LimitsKept, SetDirtyRatio, WriteRatio
    <2>. QED BY <1>7, <2>2 DEF LimitsKept, SetDirtyRatio
  <1>9. CASE RequestTermination
    BY <1>9 DEF LimitsKept, RequestTermination
  <1>10. CASE StopRequested
    BY <1>10 DEF LimitsKept, StopRequested
  <1>11. CASE RestoreVfs
    BY <1>11 DEF LimitsKept, RestoreVfs
  <1>12. CASE RestoreRatio
    <2>1. saved.ratio = first.ratio /\ first.ratio >= 1 /\ saved.ratio \in 0..100
      BY <1>12 DEF LimitsKept, RestoreRatio, TypeOK
    <2>2. ratio' = first.ratio /\ ~ bytes'
      BY <1>12, <2>1 DEF LimitsKept, RestoreRatio, WriteRatio
    <2>. QED BY <1>12, <2>1, <2>2 DEF LimitsKept, RestoreRatio
  <1>13. CASE PressureChanges
    BY <1>13 DEF LimitsKept, PressureChanges
  <1>15. CASE AdminWritesRatio
    BY <1>15, <1>a DEF AdminWritesRatio
  <1>16. CASE UNCHANGED vars
    BY <1>16 DEF LimitsKept, vars
  <1>. QED BY <1>1, <1>2, <1>3, <1>4, <1>5, <1>6, <1>7, <1>9, <1>10, <1>11,
              <1>12, <1>13, <1>15, <1>16 DEF Next, PolicyStep, MachineStep

\* The policy never takes the ratio to zero, however long pressure rises.
THEOREM RatioPositiveHolds == Spec => []RatioPositive
  <1>1. LimitsKept => RatioPositive
    BY DEF LimitsKept, RatioPositive
  <1>. QED BY <1>1, LimitsInit, LimitsStep, TypeCorrect, PTL DEF Spec

\* A stop brings back both sysctls where the dirty limit is a ratio.
THEOREM RatioRestoredHolds == Spec => []RatioRestored
  <1>1. LimitsKept => RatioRestored
    BY DEF LimitsKept, RatioRestored
  <1>. QED BY <1>1, LimitsInit, LimitsStep, TypeCorrect, PTL DEF Spec

=============================================================================
