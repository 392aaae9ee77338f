SPECIFICATION Spec
CONSTANTS
  Orders = {o1, o2, o3}
  Hazards = {"overlap", "crash", "redeliver", "edit_committed"}
CHECK_DEADLOCK FALSE
SYMMETRY OrderSymmetry
INVARIANTS
  SoldOnce
  CancelledIsUncharged
PROPERTIES
  ReleasedForGood
