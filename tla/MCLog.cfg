CONSTANTS
  Procs = {p1, p2}
  Blocks = {b1, b2, b3}
  Vals = {v1, v2}
  NoVal = NoVal
  LOGSIZE = 4
  MAXOPBLOCKS = 2
  OpBlocks = 1
SPECIFICATION FairSpec
INVARIANTS LogHasRoom
PROPERTIES CrashAtomic SleeperWakes
