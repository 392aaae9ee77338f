-------------------------------- MODULE People --------------------------------
(* Who uses the server, and the requests it serves at one time. *)
EXTENDS FiniteSets

CONSTANTS Users, NoUser, Requests

ASSUME UsersAssumption == IsFiniteSet(Users) /\ NoUser \notin Users
===============================================================================
