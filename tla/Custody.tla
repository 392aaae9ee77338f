------------------------------- MODULE Custody -------------------------------
(***************************************************************************)
(* What escrow promises about a collector's payment.  The platform holds   *)
(* it until it moves, whole, to the artist or back to the collector.  It   *)
(* moves only while the books agree about where it is, and every movement  *)
(* is then booked.  A transfer may come back, and is then held again.      *)
(* A payment the books say is held may go astray: its order is completed   *)
(* while it is being given back, or once it was.  Nothing is promised of   *)
(* it from then on, and no payment that reached the artist or was booked   *)
(* as given back goes that way.                                            *)
(***************************************************************************)
CONSTANT Orders

VARIABLES
  money,   \* where the payment of each order is
  books    \* where the ledger says it is

vars == <<money, books>>

Places == {"held", "artist", "collector", "astray"}

Init ==
  /\ money = [o \in Orders |-> "held"]
  /\ books = [o \in Orders |-> "held"]

Move(o, from, to) ==
  /\ money[o] = from
  /\ books[o] = from
  /\ money' = [money EXCEPT ![o] = to]
  /\ UNCHANGED books

\* An order is paid out once: money that came back is not sent again.
PayOut(o) == Move(o, "held", "artist")
Return(o) == Move(o, "held", "collector")
Bounce(o) == Move(o, "artist", "held")

Book(o) ==
  /\ books[o] # money[o]
  /\ books' = [books EXCEPT ![o] = money[o]]
  /\ UNCHANGED money

GoAstray(o) ==
  /\ money[o] \in {"held", "collector"}
  /\ books[o] = "held"
  /\ money' = [money EXCEPT ![o] = "astray"]
  /\ books' = [books EXCEPT ![o] = "astray"]

Next == \E o \in Orders : PayOut(o) \/ Return(o) \/ Bounce(o) \/ Book(o) \/ GoAstray(o)

Spec == Init /\ [][Next]_vars
==============================================================================
