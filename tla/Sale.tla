--------------------------------- MODULE Sale ---------------------------------
(***************************************************************************)
(* What an auction promises, with the cards, the clock and the sweeps left *)
(* out: bidding ends once; then the work is offered to one bidder at a     *)
(* time, each offer either paid for or passed over for good; and at most   *)
(* one bid is ever charged, the one the work is sold to.                   *)
(***************************************************************************)
CONSTANTS Bid, Nobody

VARIABLES
  phase,     \* bidding, offered, sold, unsold or withdrawn
  buyer,     \* the bid the work is offered or sold to
  passed,    \* bids that were offered the work and did not pay
  charged    \* bids whose money the platform has booked

saleVars == <<phase, buyer, passed, charged>>

SaleInit ==
  /\ phase = "bidding"
  /\ buyer = Nobody
  /\ passed = {}
  /\ charged = {}

\* The bidder an open offer is taken away from, if there is one.
PassedOver == IF phase = "offered" THEN {buyer} ELSE {}

Withdraw ==
  /\ phase = "bidding"
  /\ phase' = "withdrawn"
  /\ UNCHANGED <<buyer, passed, charged>>

\* Offer the work to b, or give the bidder who has it another chance.
Offer(b) ==
  /\ phase \in {"bidding", "offered"}
  /\ phase' = "offered"
  /\ buyer' = b
  /\ b \notin passed
  /\ passed' = IF b = buyer THEN passed ELSE passed \cup PassedOver
  /\ UNCHANGED charged

\* b has paid, at the end of bidding or of an offer.
Sell(b) ==
  /\ phase \in {"bidding", "offered"}
  /\ phase' = "sold"
  /\ buyer' = b
  /\ b \notin passed
  /\ passed' = IF b = buyer THEN passed ELSE passed \cup PassedOver
  /\ charged' = charged \cup {b}

NoSale ==
  /\ phase \in {"bidding", "offered"}
  /\ phase' = "unsold"
  /\ buyer' = Nobody
  /\ passed' = passed \cup PassedOver
  /\ UNCHANGED charged

SaleNext ==
  \/ Withdraw
  \/ \E b \in Bid : Offer(b)
  \/ \E b \in Bid : Sell(b)
  \/ NoSale

SaleSpec == SaleInit /\ [][SaleNext]_saleVars

===============================================================================
