SPECIFICATION Spec
CONSTANTS
  Pids = {p1, p2, p3}
  NoPid = NoPid
  NoBackup = NoBackup
  NumKnobs = 2
  VmKnobs <- MCVmKnobs
  SnapshotParses = FALSE
  Overlap = TRUE
  Limit <- ChaosLimit
  p1 = p1
  p2 = p2
  p3 = p3
SYMMETRY Symmetry
INVARIANTS
  TypeOK
PROPERTIES
  GracefulExit
CHECK_DEADLOCK FALSE
