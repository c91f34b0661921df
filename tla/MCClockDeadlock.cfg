CONSTANTS
  NPROC = 2
  UINT = 4
  MAXTICKS = 1
  MAXLAG = 2
  NoOne = NoOne
SPECIFICATION FairSpec
CHECK_DEADLOCK FALSE
PROPERTIES AcquireReturns
