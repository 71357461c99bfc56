\* Crashes and I/O errors between the steps of persist(), which may tear files that were not synced.
SPECIFICATION Spec
CONSTANTS
  MaxCommit = 2
  MaxFile = 4
  MaxHeld = 2
  MaxCrashes = 2
  MaxFails = 2
CHECK_DEADLOCK FALSE
INVARIANTS
  SnapshotsPersist
  DiskCoversMemory
