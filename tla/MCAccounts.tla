------------------------------ MODULE MCAccounts ------------------------------
(* Accounts for TLC: users, names and requests are interchangeable. *)
EXTENDS Accounts, TLC

Symmetry == Permutations(Users) \cup Permutations(Names) \cup Permutations(Requests)
===============================================================================
