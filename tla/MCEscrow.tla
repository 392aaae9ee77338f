------------------------------- MODULE MCEscrow -------------------------------
(* Small instances of Escrow for TLC. *)
EXTENDS Escrow, TLC

CallSymmetry == Permutations(Workers) \cup Permutations(Orders)

===============================================================================
