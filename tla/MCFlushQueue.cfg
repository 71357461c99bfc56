\* Three threads flush, delete and purge.
SPECIFICATION Spec
CONSTANTS
  t1 = t1
  t2 = t2
  t3 = t3
  Threads <- ThreadSet
  NoThread = NoThread
  MaxTickets = 3
INVARIANTS
  TicketsFound
  DueIsPublished
  ChangesFound
PROPERTY InOrder
SYMMETRY Symm
