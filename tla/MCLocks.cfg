SPECIFICATION Spec
CONSTANTS
  t1 = t1
  t2 = t2
  c1 = c1
  c2 = c2
  c3 = c3
  None = None
  Coordinator = Coordinator
  Thread = {t1, t2}
  Context = {c1, c2, c3}
  ThreadOf <- TwoThreads
  Parent <- Nested
  NumStores = 2
  Uses = {"lock", "edit", "fetch", "fire", "refault", "invalidate", "save"}
  Faults = {}
INVARIANT TypeOK
INVARIANT UsedUnderLock
INVARIANT NoDeadlock
INVARIANT LocksBalanced
INVARIANT LockedChangesNoticed
