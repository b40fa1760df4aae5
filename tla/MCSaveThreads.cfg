SPECIFICATION Spec
CONSTANTS
  c1 = c1
  c2 = c2
  c3 = c3
  t1 = t1
  t2 = t2
  None = None
  Context = {c1, c2}
  Thread = {t1, t2}
  ThreadOf <- TwoThreads
  NumStores = 2
  MaxSaves = 2
  Faults = {"prepare", "record", "perform", "commit", "lostAnswer"}
  Callbacks = {}
  Readers = {t2}
INVARIANT AckedDurable
INVARIANT TransactionOwnership
INVARIANT FirstPhaseExclusive
INVARIANT NoResidue
INVARIANT KeysSettled
PROPERTY CommittedInOrder
PROPERTY RefusedStaysRefused
CHECK_DEADLOCK FALSE
