\* Crashes, I/O errors and snapshots: what survives in the directory.
SPECIFICATION Spec
CONSTANTS
  MaxSeg = 2
  MaxGen = 2
  MaxCrashes = 1
  MaxFails = 1
  MaxSnapshots = 1
  UseReaders = FALSE
  UseMerges = FALSE
VIEW View
CHECK_DEADLOCK FALSE
INVARIANTS
  CommitPointsSurvive
  AckedCommitsSurvive
  NextNamesAreFree
  SnapshotsKept
