----------------------------- MODULE MCCommunity ------------------------------
(* Community for TLC: whose request, report, shelf or comment it is makes no    *)
(* difference.                                                                 *)
EXTENDS Community, TLC

Symmetry ==
  Permutations(Users) \cup Permutations(Requests) \cup Permutations(Reports)
  \cup Permutations(Series) \cup Permutations(Addresses)
===============================================================================
