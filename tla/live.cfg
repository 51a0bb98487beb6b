SPECIFICATION FairSpec
CONSTANTS
  Pids = {p1, p2, p3}
  NoPid = NoPid
  NoBackup = NoBackup
  NumKnobs = 2
  VmKnobs <- MCVmKnobs
  SnapshotParses = TRUE
  Overlap = FALSE
  Limit <- LiveLimit
  p1 = p1
  p2 = p2
  p3 = p3
PROPERTIES
  StopTakesEffect
  ShutdownCompletes
  CleanBootResumes
CHECK_DEADLOCK FALSE
