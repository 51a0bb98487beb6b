SPECIFICATION FairSpec
CONSTANTS
  c = c
  n = n
  h = h
  Cores = {c}
  Devices = {n, h}
  Kind <- MCKind
  Schedulers = {"none", "mq-deadline", "kyber"}
  Loads = {"uncounted", "none", "light", "medium", "heavy"}
  MaxFaults = 1
  Nothing = Nothing
INVARIANTS
  TypeOK
  CacheTrue
PROPERTIES
  HintLost
  EppFollowsLoad
  SchedulerFollowsQueue
  DoubtEnds
