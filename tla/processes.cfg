SPECIFICATION Spec
CONSTANTS
  Pids = {p1, p2, p3}
  NoPid = NoPid
  Names = {"bettercpu", "editor", "shell"}
  Own = "bettercpu"
  MaxUse = 1
  Numbers = {0, 1, 3}
  MaxSize = 2
  MaxEvents = 2
SYMMETRY Symmetry
INVARIANTS
  TypeOK
  ListsEveryone
  KillsWhatWasListed
  WholeProgram
  ReportTrue
CHECK_DEADLOCK FALSE
