SPECIFICATION Spec
CONSTANTS
  c1 = c1
  c2 = c2
  a1 = a1
  a2 = a2
  None = None
  Context = {c1, c2}
  Attr = {a1, a2}
  MaxValue = 2
  MaxRefs = 4
  Uses = {"fault", "refresh", "refault", "invalidate", "hasChanges", "release"}
  Clients = FALSE
  CountsRows = TRUE
  CommitFails = TRUE
INVARIANT CacheCoherent
INVARIANT ObjectsHoldSnapshot
PROPERTY UpdatesBasedOnRow
CHECK_DEADLOCK FALSE
