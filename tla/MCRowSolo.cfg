SPECIFICATION Spec
CONSTANTS
  c1 = c1
  c2 = c2
  a1 = a1
  a2 = a2
  None = None
  Context = {c1}
  Attr = {a1, a2}
  MaxValue = 3
  MaxRefs = 3
  Uses = {"fault", "refresh", "refault", "invalidate", "delete", "hasChanges", "release"}
  Clients = TRUE
  CountsRows = TRUE
  CommitFails = TRUE
INVARIANT SnapshotIsSeen
PROPERTY SavedIsStored
PROPERTY UpdatesBasedOnRow
PROPERTY RefusedOnlyWhenStale
CHECK_DEADLOCK FALSE
