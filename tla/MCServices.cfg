CONSTANTS
  Procs = {p1, p2, p3}
  Readers = {s1, s2}
  Openers = {o}
  REPORT_BUFFER_SIZE = 2
  NFILE = 3
  NINODE = 2
  MAXOPS = 3
  MAXBUSY = 2
  MAXBOOT = 1
  NoOne = NoOne
  ConsReaders = {r1, r2}
  ConsWriters = {w1, w2}
  Keys = {"a", "nl", "eof", "kill", "bs", "ctl"}
  INPUT_BUF_SIZE = 3
  UART_TX_BUF_SIZE = 2
  UINT = 6
  FIFO = 4
  RXFIFO = 2
  MAXREAD = 2
  MAXCALLS = 3
  Cpus = {c1, c2}
  NTASK = 3
  Quotas = {1}
  Deadlines = {1, 2}
  INFTICKS = 9
  NoCpu = NoCpu
  MAXTICK = 1
  MAXDUTY = 2
SPECIFICATION ServicesSpec
SYMMETRY Symmetry
VIEW View
CHECK_DEADLOCK FALSE
INVARIANTS SysrepShowsLatest ConsoleSleepers OutputInOrder ChoiceIsHeld
PROPERTIES ReportsKept IsLineEditor LeastUsedRuns
