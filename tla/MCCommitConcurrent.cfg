\* Merges, NRT readers and readers of the directory during commits.
SPECIFICATION Spec
CONSTANTS
  MaxSeg = 2
  MaxGen = 3
  MaxCrashes = 0
  MaxFails = 1
  MaxSnapshots = 0
  UseReaders = TRUE
  UseMerges = TRUE
VIEW View
CHECK_DEADLOCK FALSE
INVARIANTS
  CountsExact
  ReferencedFilesExist
  NothingLeaks
  UnchangedMeansCommitted
  ReaderFindsCommit
