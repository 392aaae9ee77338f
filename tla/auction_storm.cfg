SPECIFICATION Spec
CONSTANTS
  Bidders = {u1, u2}
  NoBidder = none
  MaxBids = 2
  MaxRefresh = 1
  Prices = {1, 2}
  StartingBid = 1
  Reserve = 0
  Increment <- UnitIncrement
  SoftClose = TRUE
  OpensAt = 0
  Duration = 2
  SoftWindow = 1
  ExtendFloor = 2
  MaxExtend = 1
  RetryWindow = 1
  RequestLife = 1
  MaxDepth = 1
  Hazards = {"bid_overlap", "refresh_overlap", "crash", "edit", "cancel"}
CHECK_DEADLOCK FALSE
SYMMETRY BidderSymmetry
INVARIANTS
  OneSale
  LosersBidLess
PROPERTIES
  NoBidAfterClose
