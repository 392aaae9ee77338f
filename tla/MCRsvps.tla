------------------------------- MODULE MCRsvps --------------------------------
(* Rsvps for TLC: guests and requests are interchangeable. *)
EXTENDS Rsvps, TLC

Symmetry == Permutations(Guests) \cup Permutations(Requests)
=============================================================================
