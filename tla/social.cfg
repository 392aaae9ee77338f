SPECIFICATION EitherSpec
CONSTANTS
  Users = {u1, u2}
  NoUser = nobody
  Requests = {r1, r2}
  Participants = {u1, u2}
  PageSize = 1
  MaxTime = 5
  Settings <- OpenOrClosed
CHECK_DEADLOCK FALSE
SYMMETRY Symmetry
INVARIANTS
  BlockedApart
  ConsentToOpen
  RequestReachesRecipient
  ReadStateIsTrue
