------------------------------ MODULE MCCheckout ------------------------------
(* Small instances of Checkout for TLC. *)
EXTENDS Checkout, TLC

OrderSymmetry == Permutations(Orders)

===============================================================================
