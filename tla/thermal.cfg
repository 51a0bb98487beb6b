SPECIFICATION FairSpec
CONSTANTS
  Cores = {c1, c2}
  Zones = {z1, z2}
  Ceilings <- TwoCeilings
  SensorFaults = {"gone", "garbled"}
  DriverFaults = {"gone", "rejects"}
  MaxFaults = 1
  c1 = c1
  c2 = c2
  z1 = z1
  z2 = z2
INVARIANTS
  TypeOK
  CapInRange
  Informed
PROPERTIES
  LiftedOnlyWhenCool
  ImplementsStepWise
  Recovers
  Throttles
  RejectionEnds
