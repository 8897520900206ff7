SPECIFICATION Spec
CONSTANTS
  Session = {s1, s2}
  MaxRow = 2
  Figure = {f1, f2}
  Absent = Absent
  MaxTime = 2
  MaxWrites = 3
INVARIANTS
  AsOfIsThen
  PageAddsUp
PROPERTIES
  PastStands
CHECK_DEADLOCK FALSE
