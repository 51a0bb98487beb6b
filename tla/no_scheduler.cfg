SPECIFICATION Spec
CONSTANTS
  Machines <- MappedMachine
  Numbers <- MCNumbers
  Numerals <- MCNumerals
  Governors <- MCGovernors
  Schedulers <- MCSchedulers
  Nvme <- MCNvme
  Rotational <- MCRotational
INVARIANTS
  Restored
CHECK_DEADLOCK FALSE
