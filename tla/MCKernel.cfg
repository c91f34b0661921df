CONSTANTS
  c1 = c1
  c2 = c2
  NPROC = 3
  CPUs = {c1, c2}
  NoOne = NoOne
  Harts = {h1, h2, h3}
  Locks = {1, 2}
  NoHart = NoHart
  HEAP = 2
  LIMIT = 12
  NALLOC = 4
  MAXUNITS = 5
  Words <- MCWords
  MAXARGS = 3
  Typed <- MCTyped
  Missing = {"gone"}
  Copying = {"cat"}
  NSHPROC = 10
  NFD = 8
  MAXLINES = 1
  MAXREFUSED = 2
  NMETA = 3
  FSSIZE = 24
  BSIZE = 3
  NDIRECT = 1
  NINDIRECT = 3
  NINODES = 4
  MAXBYTES = 12
SPECIFICATION KernelSpec
SYMMETRY Symmetry
VIEW View
INVARIANTS OneCpuPerProcess ParentIsAlive NoLostExit ForkResultIsChild
INVARIANTS MutualExclusion HeapIsTiled ProgramsAreWired CommandsEnd ImageReadsBack
