SPECIFICATION Spec
CONSTANTS
  m1 = m1
  m2 = m2
  d1 = d1
  d2 = d2
  None = None
  Absent = Absent
  Fault = Fault
  Unknown = Unknown
  Master = {m1, m2}
  Detail = {d1}
  Stored = {m1, d1}
  Uses = {"unlink"}
PROPERTY SavesAsUnit
