SPECIFICATION GracefulFairSpec
CONSTANTS
  Task = {b1, "approve", "house", "join", "exitCollateral", "approveExit", "exitCoin"}
  Buy = {b1}
  Auction = {a1}
  Price = 3
  Ray = 2
  Coins = 3
  Joined = {1}
  KeepCollateral = FALSE
  KeepSystemCoin = FALSE
  RetryCount = 1
  None = None
INVARIANTS
  GracefulTypeOK
  ApprovedInTime
  ExitsTakeAll
PROPERTIES
  SignalEndsProcess
CHECK_DEADLOCK FALSE
