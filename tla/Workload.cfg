SPECIFICATION FairSpec
CONSTANTS
  Specs <- AnySpec
  InitSpec <- Plain
  Secrets = {"s1", "s2"}
  InitSecret = "s1"
  Loads = {1, 2}
  Replicas = 1
  Absent = absent
  Scenarios <- AnyTwo
PROPERTY Settles
PROPERTY ScaleSettles
PROPERTY Quiesces
PROPERTY StaysPublished
CHECK_DEADLOCK FALSE
