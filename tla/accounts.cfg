SPECIFICATION Spec
CONSTANTS
  Users = {u1, u2}
  NoUser = nobody
  Names = {n1, n2}
  NoName = unnamed
  Emails = {e1}
  NoEmail = nowhere
  Requests = {r1, r2}
  MaxCodes = 1
  ResendMax = 1
  Hazards = {"asks", "crash"}
SYMMETRY Symmetry
INVARIANTS
  ReservedForOwner
  CodeServesOnce
  NobodyLockedOut
CHECK_DEADLOCK FALSE
