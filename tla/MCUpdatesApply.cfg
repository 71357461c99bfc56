\* Deletes and updates race merges.
SPECIFICATION Spec
CONSTANTS
  w1 = w1
  Dwpts <- DwptSet
  Kinds = {"term", "query", "dv"}
  CanAbort = TRUE
  MaxDocs = 2
  MaxDeletes = 1
  MaxUpdates = 1
  MaxMerges = 2
  MaxMergeWidth = 2
  MaxLoad = 3
INVARIANTS
  DeletesReach
  NewerUntouched
  LockedUpdatesReach
PROPERTY UpdatesStayVisible
