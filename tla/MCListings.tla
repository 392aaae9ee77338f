------------------------------ MODULE MCListings ------------------------------
(* Listings for TLC: works and events are interchangeable. *)
EXTENDS Listings, TLC

Symmetry == Permutations(Pieces) \cup Permutations(Events)
=============================================================================
