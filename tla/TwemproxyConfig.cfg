SPECIFICATION FairSpec
CONSTANTS
  Pods = {p1, p2}
  Data = {x, y}
  FirstTarget = x
  Absent = absent
  Scenarios <- FewEvents
INVARIANT AnnotatedHasFile
PROPERTY Converges
PROPERTY ReturnsInTime
CHECK_DEADLOCK FALSE
