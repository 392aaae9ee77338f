SPECIFICATION CommunitySpec
CONSTANTS
  Users = {u1, u2}
  NoUser = nobody
  Contents = {c1}
  Comments = {k1}
  Reports = {p1, p2}
  Series = {s1, s2}
  Addresses = {a1, a2}
  MaxRows = 2
  NoTarget = nothing
  Requests = {r1, r2}
  Oddities = {}
SYMMETRY Symmetry
INVARIANTS
  FootprintGone
  NothingTwice
CHECK_DEADLOCK FALSE
