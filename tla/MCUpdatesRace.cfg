\* Two merges around a retry.
SPECIFICATION Spec
CONSTANTS
  w1 = w1
  Dwpts <- DwptSet
  Kinds = {"dv"}
  CanAbort = FALSE
  MaxDocs = 2
  MaxDeletes = 0
  MaxUpdates = 1
  MaxMerges = 2
  MaxMergeWidth = 1
  MaxLoad = 3
INVARIANT UpdatesReach
