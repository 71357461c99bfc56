\* A full flush, a delete-all and a rollback race two indexing threads; one
\* document in flight is enough to stall them.
SPECIFICATION FairSpec
CONSTANTS
  t1 = t1
  t2 = t2
  d1 = d1
  d2 = d2
  d3 = d3
  Threads <- ThreadSet
  Dwpts <- DwptSet2
  Flusher = f
  Closer = c
  None = None
  MaxGen = 1
  MaxCalls = 2
  MaxFails = 1
  MaxBufferedDocs = 0
  DocRam = 3
  RamBuffer = 1
  Granularity = 1
  HardLimit = 1
  DeleteRam = {0}
  Programs = {"fullFlush", "deleteAll", "rollback"}
  CheckPending = TRUE

INVARIANT AbortLeavesNothing
PROPERTIES
  SweepsEnd
  StalledGoOn
CHECK_DEADLOCK FALSE
