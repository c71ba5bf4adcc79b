SPECIFICATION BalanceFairSpec
CONSTANTS
  Request = {r1, r2}
  Block = {b1, b2}
  MaxChanges = 2
  Null = Null
INVARIANTS
  BalanceTypeOK
PROPERTIES
  NeverOlder
  LowStopsPasses
  FundedResumes
CHECK_DEADLOCK FALSE
