SPECIFICATION GracefulSpec
CONSTANTS
  Task = {"approve", "house", "join", "exitCollateral", "approveExit", "exitCoin"}
  Buy = {}
  Auction = {a1}
  Price = 3
  Ray = 2
  Coins = 2
  Joined = {0, 1}
  KeepCollateral = FALSE
  KeepSystemCoin = FALSE
  RetryCount = 0
  None = None
INVARIANT DoneExitIsComplete
CHECK_DEADLOCK FALSE
