SPECIFICATION FairSpec
CONSTANTS
  Replicas = 2
  Indices = {0, 1, 2}
  FirstIndex = 0
  Scenarios <- AnyThree
INVARIANT NoCycle
PROPERTY Establishes
PROPERTY MastersKept
