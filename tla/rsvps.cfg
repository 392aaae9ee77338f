SPECIFICATION Spec
CONSTANTS
  Guests = {g1, g2}
  NoGuest = nobody
  Requests = {r1, r2, r3}
  MaxCapacity = 2
  Unlimited = unlimited
  Hazards = {}
CHECK_DEADLOCK FALSE
SYMMETRY Symmetry
INVARIANTS
  RoomHolds
  CalledOffTold
