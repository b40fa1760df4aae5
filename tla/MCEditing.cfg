SPECIFICATION FairSpec
CONSTANTS
  m1 = m1
  m2 = m2
  d1 = d1
  d2 = d2
  None = None
  Absent = Absent
  Master = {m1, m2}
  Detail = {d1}
  Stored = {m1, d1}
  Rule <- Mixed
  HookOps = {"edit", "insert", "delete"}
  Chained = FALSE
  Faults = {"invalid", "veto", "refuses", "raise", "present"}
INVARIANT TypeOK
INVARIANT ChangesTracked
INVARIANT ContextInv
INVARIANT NoDanglingReference
PROPERTY SavesAsUnit
PROPERTY EveryoneAsked
PROPERTY SaveReturns
