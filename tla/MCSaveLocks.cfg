SPECIFICATION Spec
CONSTANTS
  c1 = c1
  c2 = c2
  c3 = c3
  t1 = t1
  t2 = t2
  None = None
  Context = {c1, c2}
  Thread = {t1, t2}
  ThreadOf <- TwoThreads
  NumStores = 1
  MaxSaves = 1
  Faults = {}
  Callbacks = {}
  Readers = {}
INVARIANT LocksReleased
CHECK_DEADLOCK FALSE
