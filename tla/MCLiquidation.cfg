SPECIFICATION FairSpec
CONSTANTS
  Pass = {p1, p2}
  Safe = {s1}
  Position <- MCPosition
  Holding <- MCHolding
  Left <- MCLeft
  Terms <- MCTerms
  Lookback = 1
  MaxBlock = 3
  MaxFaults = 1
  None = None
INVARIANTS
  TypeOK
  StaleIsReread
  CountedAreTaken

  
CHECK_DEADLOCK FALSE
