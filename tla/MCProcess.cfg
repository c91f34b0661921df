CONSTANTS
  MAX_THREAD = 3
  FirstTids = {1, 2}
  MAXTID = 4
  Tasks = {t1, t2}
  FirstTask = t1
  NFRAMES = 24
  PGSIZE = 2
  SPAN = 2
  MAXVA = 8
  WRAP = 64
  Programs <- MCPrograms
  MAXSZ = 3
  MAXK = 12
  MAXMEMOPS = 3
SPECIFICATION ProcessSpec
CHECK_DEADLOCK FALSE
INVARIANTS OwnRegisters NoLostJoin
INVARIANTS FramesConserved CopyinIsExact
PROPERTIES SavesToLivePage ThreadRuns IsAddressSpaces
