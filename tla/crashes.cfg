SPECIFICATION Spec
CONSTANTS
  Pids = {p1, p2, p3}
  NoPid = NoPid
  NoBackup = NoBackup
  NumKnobs = 2
  VmKnobs <- MCVmKnobs
  SnapshotParses = TRUE
  Overlap = FALSE
  Limit <- CrashLimit
  p1 = p1
  p2 = p2
  p3 = p3
SYMMETRY Symmetry
INVARIANTS
  OneOwner
  PidFileNamesDaemon
PROPERTIES
  LostOnlyByCommand
CHECK_DEADLOCK FALSE
