SPECIFICATION FairSpec
CONSTANTS
  Orders = {o1, o2, o3}
  Hazards = {"cancel", "redeliver"}
CHECK_DEADLOCK FALSE
INVARIANTS
  PieceFollowsOrders
PROPERTIES
  KeepsPromise
  EveryCheckoutEnds
