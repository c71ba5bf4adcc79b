SPECIFICATION FairBiddingSpec
CONSTANTS
  Task = {b1, b2, "join"}
  Buy = {b1, b2}
  RetryCount = 1
  None = None
  Auction = {1, 2}
  Pass = {p1, p2}
  Others = {1}
  Ray = 2
  MinBalance = 0
  MinimumBid = 2
  Raise = 5
  Invalid = {1}
  Tokens = 1
  Coins = 3
  MaxFaults = 1
INVARIANTS
  BiddingTypeOK
  DeathHasCause
PROPERTIES
  BidsWhileItCan
CHECK_DEADLOCK FALSE
