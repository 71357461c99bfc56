CONSTANTS
  Threads = {t1}
  Slices = {d1, d2}
  MaxGen = 1
  MaxIdx = 2
  MaxPending = 1
  MaxBlock = 1
  MaxLong = 5
SYMMETRY Symmetry
SPECIFICATION Spec
CHECK_DEADLOCK FALSE
INVARIANTS
  UpdateConsistency
  LaterPacketsAreNewer
  DeletesFrozenOnce
  SeqNoWindows
PROPERTY
  MaxCompletedMonotonic
