SPECIFICATION Spec
CONSTANTS
  Absent = Absent
  Empty = Empty
  Torn = Torn
  Savers = {s1}
  Values = {v1, v2, v3}
  NoValue = NoValue
  RemovesTmp = TRUE
  IOErrors = TRUE
PROPERTY RegisterSpec
CHECK_DEADLOCK TRUE
