SPECIFICATION Spec
CONSTANTS
  Users = {u1}
  NoUser = nobody
  Sessions = {s1, s2, s3}
  NoSession = none
  Requests = {r1, r2}
  Tickets = {t1}
  MaxEra = 1
  Hazards = {"crash", "outage"}
CHECK_DEADLOCK FALSE
SYMMETRY Symmetry
INVARIANTS
  RevocationHolds
  KeepsSignedIn
