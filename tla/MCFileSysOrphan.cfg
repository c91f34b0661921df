CONSTANTS
  Procs = {p1, p2}
  Calls <- MCCalls
  NINODES = 3
  NINODE = 3
  Blocks = {1, 2}
  NFILE = 1
  NOFILE = 1
  DPB = 3
  MAXFILE = 1
  MAXCALLS = 4
  NoOne = NoOne
SPECIFICATION Spec
SYMMETRY Symmetry
VIEW View
INVARIANTS NoOrphan
