SPECIFICATION Spec
CONSTANTS
  Pids = {p1, p2, p3}
  NoPid = NoPid
  NoBackup = NoBackup
  NumKnobs = 2
  VmKnobs <- MCVmKnobs
  SnapshotParses = TRUE
  Overlap = FALSE
  Limit <- ShutdownsLimit
  p1 = p1
  p2 = p2
  p3 = p3
INVARIANTS
  WishKept
CHECK_DEADLOCK FALSE
