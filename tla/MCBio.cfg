CONSTANTS
  BioProcs = {p1, p2, p3}
  Blocks = {x, y, z, w}
  Vals = {v0, v1}
  NBUF = 3
  NUM = 7
  IDX = 7
  START = 5
  MAXIO = 6
  WIDE = 3
  None = None
SPECIFICATION BioSpec
SYMMETRY Symmetry
VIEW View
INVARIANTS ReadsLatest SleepHasReason
