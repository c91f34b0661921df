CONSTANTS
  NPROC = 3
  CPUs = {c1}
  NoOne = NoOne
SPECIFICATION FairSpec
CHECK_DEADLOCK FALSE
PROPERTIES WaitReturns
