------------------------------- MODULE MCSocial -------------------------------
(* Social and Receipts for TLC: users and requests are interchangeable, and an *)
(* account is either open to everybody or closed to strangers.                 *)
EXTENDS Social, Receipts, TLC

OpenOrClosed ==
  { [private |-> FALSE, permission |-> "everyone"],
    [private |-> TRUE, permission |-> "following"] }

Symmetry == Permutations(Users) \cup Permutations(Requests)

\* The two share no state, so either is explored from one of the other's initial states.
EitherInit == Init /\ ReceiptsInit
EitherNext ==
  \/ Next /\ ReceiptsInit /\ UNCHANGED receiptsVars
  \/ /\ ReceiptsNext /\ UNCHANGED vars
     /\ Init /\ profile \in [Users -> {CHOOSE s \in OpenOrClosed : TRUE}]

EitherSpec == EitherInit /\ [][EitherNext]_<<vars, receiptsVars>>
=============================================================================
