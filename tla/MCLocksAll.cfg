\* Every method; the lock order of add_indexes closes a cycle.
CONSTANTS
  t1 = t1
  t2 = t2
  t3 = t3
  Threads <- Three
  Calls <- AllCalls
SPECIFICATION Spec
CHECK_DEADLOCK FALSE
SYMMETRY Symm
INVARIANTS
  NoCircularWait
