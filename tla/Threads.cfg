SPECIFICATION FairSpec
CONSTANTS
  Owners = {"a/n", "ba/n"}
  Keys <- ThreeKeys
  Owner <- OwnerOf
  Contains <- ContainsPrefix
  Free = free
  Kept = kept
INVARIANT OwnThreads
PROPERTY LockReleased
CHECK_DEADLOCK FALSE
