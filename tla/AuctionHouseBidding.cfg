SPECIFICATION FairSpec
CONSTANTS
  Pass = {p1, p2}
  Start = {s1}
  First = s1
  IsBidding = TRUE
  MaxAuctions = 2
  MaxReorgs = 0
PROPERTIES
  EveryAuctionFollowed
CHECK_DEADLOCK FALSE
