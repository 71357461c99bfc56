CONSTANTS
  t1 = t1
  t2 = t2
  t3 = t3
  None = None
  Threads <- ThreadSet
  MaxReaders = 2
  MaxIndex = 1
  MaxFaults = 1
SPECIFICATION Spec
SYMMETRY Symm
INVARIANTS
  RefCountsExact
  AcquireNeverStuck
PROPERTIES
  RefreshedIsSeen
CHECK_DEADLOCK FALSE
