SPECIFICATION Spec
CONSTANTS
  Pieces = {p1}
  Events = {e1, e2}
  NoEvent = none
CHECK_DEADLOCK FALSE
SYMMETRY Symmetry
INVARIANTS
  BidsHaveAListing
  OrderKeepsWork
  EventComesDown
  OnlySellersSell
