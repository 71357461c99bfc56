\* Two threads, two full flushes, both triggers of the flush policy.
SPECIFICATION Spec
CONSTANTS
  t1 = t1
  t2 = t2
  d1 = d1
  d2 = d2
  d3 = d3
  Threads <- ThreadSet
  Dwpts <- DwptSet
  Flusher = f
  Closer = c
  None = None
  MaxGen = 2
  MaxCalls = 3
  MaxFails = 1
  MaxBufferedDocs = 2
  DocRam = 1
  RamBuffer = 2
  Granularity = 1
  HardLimit = 1
  DeleteRam = {2}
  Programs = {"fullFlush", "flushOne", "delete"}
  CheckPending = TRUE
SYMMETRY Symm
INVARIANTS
  Accounting
  NothingLost
  MarkPhase
  GapSuffices
  FullFlushComplete
PROPERTY
  NewQueueBlocked
