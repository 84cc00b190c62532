\* Two connections; the handler threads and the event thread in every interleaving,
\* and a connect at any moment, with work of the connection before left over or not.
SPECIFICATION Spec
CONSTANTS
  Addrs = {p, q}
  MaxSessions = 2
  MaxRecords = 3
  HistoryCap = 2
SYMMETRY Symmetry
INVARIANTS
  ListsMatchTree
  ChunksMatchRecords
  
CHECK_DEADLOCK FALSE
