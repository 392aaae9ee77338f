------------------------------ MODULE MCSessions ------------------------------
(* Sessions for TLC: whose session, request or link it is makes no difference. *)
EXTENDS Sessions, TLC

Symmetry ==
  Permutations(Users) \cup Permutations(Sessions)
  \cup Permutations(Requests) \cup Permutations(Tickets)
=============================================================================
