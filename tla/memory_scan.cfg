SPECIFICATION FairSpec
CONSTANTS
  d = d
  p = p
  q = q
  Pids = {d, p, q}
  Daemon = d
  MaxRss = 1
INVARIANTS
  LargerNotSpared
PROPERTIES
  LargestSignalled
