SPECIFICATION Spec
CONSTANTS
  c1 = c1
  c2 = c2
  a1 = a1
  a2 = a2
  None = None
  Context = {c1, c2}
  Attr = {a1, a2}
  MaxValue = 2
  MaxRefs = 3
  Uses = {"fault", "refresh", "refault", "invalidate", "revert", "delete", "hasChanges", "release", "releaseFault"}
  Clients = FALSE
  CountsRows = FALSE
  CommitFails = TRUE
INVARIANT TypeOK
INVARIANT Reachable
INVARIANT SnapshotCurrent
CHECK_DEADLOCK FALSE
