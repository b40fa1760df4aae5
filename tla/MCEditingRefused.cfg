SPECIFICATION Spec
CONSTANTS
  m1 = m1
  m2 = m2
  d1 = d1
  d2 = d2
  None = None
  Absent = Absent
  Master = {m1}
  Detail = {d1}
  Stored = {m1, d1}
  Rule <- Nullify
  HookOps = {"edit", "insert", "delete"}
  Chained = FALSE
  Faults = {"invalid"}
INVARIANT RefusedOnlyInValidation
