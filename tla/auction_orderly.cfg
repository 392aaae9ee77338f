SPECIFICATION FairSpec
CONSTANTS
  Bidders = {u1, u2}
  NoBidder = none
  MaxBids = 3
  MaxRefresh = 1
  Prices = {1, 2, 3}
  StartingBid = 1
  Reserve = 2
  Increment <- UnitIncrement
  SoftClose = TRUE
  OpensAt = 0
  Duration = 4
  SoftWindow = 2
  ExtendFloor = 3
  MaxExtend = 2
  RetryWindow = 1
  RequestLife = 1
  MaxDepth = 1
  Hazards = {"cancel"}
CHECK_DEADLOCK FALSE
INVARIANTS
  FallbackFunded
  OneLiveHold
  NothingLeftOnCards
PROPERTIES
  NobodyDropped
  NoSniping
  KeepsPromise
  NothingWaits
