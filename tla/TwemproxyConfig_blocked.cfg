SPECIFICATION FairSpec
CONSTANTS
  Pods = {p1, p2}
  Data = {x, y}
  FirstTarget = x
  Absent = absent
  Scenarios <- OneExpiry
PROPERTY ReconcileReturns
CHECK_DEADLOCK FALSE
