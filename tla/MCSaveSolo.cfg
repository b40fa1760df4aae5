SPECIFICATION FairSpec
CONSTANTS
  c1 = c1
  c2 = c2
  c3 = c3
  t1 = t1
  t2 = t2
  None = None
  Context = {c1, c2}
  Thread = {t1}
  ThreadOf <- OneThread
  NumStores = 2
  MaxSaves = 2
  Faults = {"prepare", "record", "perform", "commit"}
  Callbacks = {"keys", "operate", "announce"}
  Readers = {}
INVARIANT TypeOK
INVARIANT AckedDurable
INVARIANT SnapshotsCommitted
PROPERTY EverySaveReturns
CHECK_DEADLOCK FALSE
