SPECIFICATION FairSpec
CONSTANTS
  Scan = {p1, p2}
  SafeAddress = {a1}
  From = 0
  CacheLookback = 2
  Chunk = 2
  MaxBlock = 3
  MaxReorgs = 1
  ReorgDepth = 2
  None = None
INVARIANTS
  TypeOK
  RangeScanned
  MissedOnlyIfRefused
PROPERTIES
  EverySafeFollowed
CHECK_DEADLOCK FALSE
