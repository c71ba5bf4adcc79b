SPECIFICATION Spec
CONSTANTS
  Absent = Absent
  NaN = NaN
  Argv <- MCArgv
  Safe = {s1, s2}
  Head = 1
  Lookback = 1
  Debt = {3}
  Lot = 3
  Price = {1, 2}
  Ray = 2
  MaxMoves = 1
  MaxCalls = 2
SYMMETRY MCSymmetry
INVARIANTS
  ProxyKeepsNothing
  RevertHasCause
  ScansAsTold
PROPERTIES
  ImplementsSettlement
CHECK_DEADLOCK FALSE
