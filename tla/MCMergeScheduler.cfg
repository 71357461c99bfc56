CONSTANTS
  p1 = p1
  p2 = p2
  None = None
  Producers <- ProducerSet
  MaxMerges = 3
  MaxCalls = 2
  MaxFaults = 1
  MaxNew = 2
  MinBig = 1
  Loads <- LoadSet
SPECIFICATION Spec
INVARIANTS
  PausedForSmaller
  ClosedIsQuiet
CHECK_DEADLOCK FALSE
PROPERTIES
  PendingMergesRun
  CallsReturn
