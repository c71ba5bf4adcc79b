SPECIFICATION Spec
CONSTANTS
  Pass = {p1, p2}
  Start = {s1, s2}
  First = s1
  IsBidding = FALSE
  MaxAuctions = 2
  MaxReorgs = 1
SYMMETRY PassSymmetry
INVARIANTS
  TypeOK
  ListExact
  NeverAhead
  DeletedIsSettled
  GrowingPassRefreshes
CHECK_DEADLOCK FALSE
