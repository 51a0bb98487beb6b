SPECIFICATION Spec
CONSTANTS
  Machines <- AnyMachine
  Numbers <- MCNumbers
  Numerals <- MCNumerals
  Governors <- MCGovernors
  Schedulers <- MCSchedulers
  Nvme <- MCNvme
  Rotational <- MCRotational
INVARIANTS
  AbortsOnlyWithoutGovernor
  RestoredButForGaps
  RoundTrip
CHECK_DEADLOCK FALSE
