\* Two threads whose stack walks allocate and free too, on a socket that buffers
\* one record; traces may be too long and the GUI may disconnect.  The target
\* stops when its operations are used up.
SPECIFICATION FairSpec
CONSTANTS
  Threads = {t1, t2}
  NoThread = NoThread
  Addrs = {p}
  Null = Null
  Fits = {TRUE, FALSE}
  MaxEvents = 3
  MaxDepth = 2
  SocketRoom = 1
INVARIANTS
  BufferIntact
  FreeFollowsItsMalloc
  ReportingRestored
  LastReportTrue
PROPERTIES
  EveryCallReturns
CHECK_DEADLOCK FALSE
