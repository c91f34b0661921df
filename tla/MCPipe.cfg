CONSTANTS
  Writers = {w1, w2}
  Readers = {r1}
  Bytes = {a, b}
  PIPESIZE = 2
  UINT = 4
  MAXN = 2
  Killable = {r1}
  NoOne = NoOne
SPECIFICATION FairSpec
CHECK_DEADLOCK FALSE
INVARIANTS FreedIsUnreachable
PROPERTIES IsByteQueue SleeperReturns
