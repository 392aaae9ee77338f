------------------------------- MODULE Checkout -------------------------------
(***************************************************************************)
(* One work of art and the orders made for it: reserving it at checkout,   *)
(* the PaymentIntent of every order, the webhooks that decide whether an   *)
(* order is paid, cancelling, refunding, and the sweep that frees a work   *)
(* from an abandoned checkout.                                             *)
(*                                                                         *)
(* A handler that locks its order first (webhooks, PATCH, the sweep, the   *)
(* payment intent) reads a fresh row, and is one action.  Both checkouts   *)
(* load the piece before create_order locks it and go on using what they   *)
(* loaded: they are a snapshot and a step that uses it.  The orders of a   *)
(* work are numbered slots; what Stripe knows of an order's intent is kept *)
(* apart from the order's row, because it survives a rollback.             *)
(***************************************************************************)
CONSTANTS
  Orders,     \* bound: the orders that may ever be made for this work
  Hazards     \* which misbehaviours of the environment happen

HazardKinds == {"overlap", "crash", "redeliver", "cancel", "edit_committed"}

ASSUME HazardsAssumption == Hazards \subseteq HazardKinds

PieceStatuses ==
  {"draft", "live", "reserved", "sold", "auction_won", "delisted", "deleted"}
Committed == {"reserved", "sold", "auction_won"}

\* VALID_TRANSITIONS of piece_state
PieceMoves ==
  ({"draft"} \X {"live", "deleted"})
  \cup ({"live"} \X {"reserved", "auction_won", "delisted", "draft", "deleted"})
  \cup ({"reserved"} \X {"sold", "live", "auction_won", "delisted"})
  \cup ({"sold"} \X {"live", "auction_won", "delisted"})
  \cup ({"auction_won"} \X {"reserved", "delisted"})
  \cup ({"delisted"} \X {"live", "draft", "deleted"})

\* The order statuses of this module; what follows "shipped" is escrow.
OrderStatuses ==
  {"none", "pending_payment", "paid", "shipped", "failed", "cancelled", "refunded"}
Released == {"failed", "cancelled", "refunded"}

AuctionStatuses == {"none", "awaiting_winner", "closed_sold"}
RunningAuction == {"draft", "live", "closing"}

IntentStatuses == {"none", "open", "processing", "succeeded", "canceled"}

\* "referenced" is payment_reference being set; "booked" that the ledger has
\* order_paid:{id} and that the payout row exists.
OrderRows == [status : OrderStatuses, referenced : BOOLEAN, booked : BOOLEAN]
NoOrderRow == [status |-> "none", referenced |-> FALSE, booked |-> FALSE]
NewOrder == [NoOrderRow EXCEPT !.status = "pending_payment"]

VARIABLES
  piece,      \* pieces.status
  listing,    \* pieces.listing_type
  auction,    \* the status of the piece's closed auction, if it had one
  orders,     \* the order rows and what was booked for them
  loaded,     \* what a checkout that has not locked the piece yet saw in it
  crossed,    \* history: since an order first held the work, another checkout has
              \* reserved it on an outdated row, or its owner has moved it away
  intents,    \* Stripe: the PaymentIntent under the key  pi:{order}
  events      \* Stripe: the intent's webhook events not yet acknowledged

pieceVars == <<piece, listing>>
stripeVars == <<intents, events>>
vars == <<pieceVars, auction, orders, loaded, crossed, stripeVars>>

Views == {"nothing", "buyable", "won"}

Init ==
  /\ \/ piece = "live" /\ listing = "fixed" /\ auction = "none"
     \/ piece = "auction_won" /\ listing = "auction" /\ auction = "awaiting_winner"
  /\ orders = [o \in Orders |-> NoOrderRow]
  /\ loaded = [o \in Orders |-> "nothing"]
  /\ crossed = FALSE
  /\ intents = [o \in Orders |-> "none"]
  /\ events = [o \in Orders |-> {}]

-----------------------------------------------------------------------------
(* Helpers. *)

Pending(o) == orders[o].status = "pending_payment"
Holding == {o \in Orders : orders[o].status \in {"pending_payment", "paid", "shipped"}}
Paid == {o \in Orders : orders[o].status \in {"paid", "shipped"}}

SetStatus(o, s) == orders' = [orders EXCEPT ![o].status = s]

\* release_target_status.  The auction a work was won in has closed, so
\* get_running_auction does not find it.
ReleaseTarget ==
  IF listing = "fixed" THEN "live"
  ELSE IF auction \in RunningAuction THEN "auction_won" ELSE "delisted"

\* release_pieces
ReleasePieces ==
  piece' = IF piece \in {"reserved", "sold"} THEN ReleaseTarget ELSE piece

\* Either the handler's one commit happens, or the process dies before it.
\* What Stripe was told by then stays.
CommitsOrDies(commit) ==
  commit \/ ("crash" \in Hazards /\ UNCHANGED <<piece, orders>>)

\* What becomes of the history in a step that crosses an order, or does not.
\* It ends with the last of the orders that hold the work.
Crosses(c) == crossed' = ((crossed \/ c) /\ Holding' # {})

-----------------------------------------------------------------------------
(* Checkout. *)

\* Mutation: a reserved work may still be bought.
BuyableUnlessSold == piece \in {"live", "reserved"} /\ listing = "fixed"

\* assert_purchasable_fixed
Buyable == piece = "live" /\ listing = "fixed"

\* What auction_checkout asks of the piece and its auction.  The winner in
\* awaiting_winner is the only buyer who passes.
Claimable == piece = "auction_won" /\ auction = "awaiting_winner"

\* collect and auction_checkout load the piece and check it.
LoadPiece(o) ==
  /\ "overlap" \in Hazards
  /\ orders[o].status = "none"
  /\ loaded[o] = "nothing"
  /\ \/ Buyable /\ loaded' = [loaded EXCEPT ![o] = "buyable"]
     \/ Claimable /\ loaded' = [loaded EXCEPT ![o] = "won"]
  /\ UNCHANGED <<pieceVars, auction, orders, crossed, stripeVars>>

\* The rest of collect: create_order locks the piece, checks the attributes
\* already loaded, and reserves.
Collect(o) ==
  /\ orders[o].status = "none"
  /\ IF "overlap" \in Hazards THEN loaded[o] = "buyable" ELSE Buyable
  /\ piece' = "reserved"
  /\ orders' = [orders EXCEPT ![o] = NewOrder]
  /\ loaded' = [loaded EXCEPT ![o] = "nothing"]
  /\ Crosses(Holding # {} /\ ~Buyable)
  /\ UNCHANGED <<listing, auction, stripeVars>>

\* The rest of auction_checkout.  create_auction_order commits the order; the
\* auction is marked closed_sold in a second commit.
AuctionCheckout(o) ==
  /\ orders[o].status = "none"
  /\ IF "overlap" \in Hazards THEN loaded[o] = "won" ELSE Claimable
  /\ piece' = "reserved"
  /\ orders' = [orders EXCEPT ![o] = NewOrder]
  /\ \/ auction' = "closed_sold"
     \/ "crash" \in Hazards /\ UNCHANGED auction
  /\ loaded' = [loaded EXCEPT ![o] = "nothing"]
  /\ Crosses(Holding # {} /\ ~Claimable)
  /\ UNCHANGED <<listing, stripeVars>>

\* create_payment_intent.  The same key always gives the same intent, so an
\* order has one, also when the first request died before its commit.
CreateIntent(o) ==
  /\ Pending(o)
  /\ intents' = [intents EXCEPT ![o] = IF @ = "none" THEN "open" ELSE @]
  /\ CommitsOrDies(orders' = [orders EXCEPT ![o].referenced = TRUE] /\ UNCHANGED piece)
  /\ UNCHANGED <<listing, auction, loaded, crossed, events>>

-----------------------------------------------------------------------------
(* Stripe and the buyer's payment sheet, which got the client secret with the *)
(* response of create_payment_intent and may use it at any later time.        *)

Confirm(o) ==
  /\ orders[o].referenced
  /\ intents[o] = "open"
  /\ intents' = [intents EXCEPT ![o] = "processing"]
  /\ UNCHANGED <<pieceVars, auction, orders, loaded, crossed, events>>

\* The charge goes through or is declined; after a decline the intent can be
\* confirmed again.
Settle(o, outcome) ==
  /\ intents[o] = "processing"
  /\ intents' = [intents EXCEPT ![o] = IF outcome = "succeeded" THEN "succeeded" ELSE "open"]
  /\ events' = [events EXCEPT ![o] = @ \cup {outcome}]
  /\ UNCHANGED <<pieceVars, auction, orders, loaded, crossed>>

-----------------------------------------------------------------------------
(* Webhooks. *)

\* record_event and _mark_processed: an event is acknowledged once its handler
\* has returned, but may be delivered twice at the same time.
Acknowledge(o, e) ==
  \/ events' = [events EXCEPT ![o] = @ \ {e}]
  \/ "redeliver" \in Hazards /\ UNCHANGED events

\* transition_piece to sold, allowed from reserved; a sold piece is no error.
MarksSold == piece \in {"reserved", "sold"}

\* Mutation: whatever the order's status, a payment makes it paid.
SucceededAlways(o) ==
  /\ "succeeded" \in events[o]
  /\ MarksSold
  /\ piece' = "sold"
  /\ orders' = [orders EXCEPT ![o].status = "paid", ![o].referenced = TRUE, ![o].booked = TRUE]
  /\ Acknowledge(o, "succeeded")
  /\ UNCHANGED <<listing, auction, loaded, crossed, intents>>

\* _on_payment_succeeded.  For a pending order whose piece can not be marked
\* sold the handler raises: nothing changes and Stripe delivers again.
OnPaymentSucceeded(o) ==
  /\ "succeeded" \in events[o]
  /\ \/ /\ Pending(o)
        /\ MarksSold
        /\ piece' = "sold"
        /\ orders' = [orders EXCEPT ![o] = [status |-> "paid", referenced |-> TRUE, booked |-> TRUE]]
     \/ /\ orders[o].status = "paid"
        /\ orders' = [orders EXCEPT ![o].referenced = TRUE, ![o].booked = TRUE]
        /\ UNCHANGED piece
     \/ orders[o].status \notin {"pending_payment", "paid"} /\ UNCHANGED <<piece, orders>>
  /\ Acknowledge(o, "succeeded")
  /\ UNCHANGED <<listing, auction, loaded, crossed, intents>>

\* Mutation: the order fails but its work stays reserved.
FailedKeepsPiece(o) ==
  /\ "failed" \in events[o]
  /\ IF Pending(o) THEN SetStatus(o, "failed") ELSE UNCHANGED orders
  /\ Acknowledge(o, "failed")
  /\ Crosses(FALSE)
  /\ UNCHANGED <<pieceVars, auction, loaded, intents>>

\* _on_payment_failed
OnPaymentFailed(o) ==
  /\ "failed" \in events[o]
  /\ IF Pending(o) THEN SetStatus(o, "failed") /\ ReleasePieces
     ELSE UNCHANGED <<piece, orders>>
  /\ Acknowledge(o, "failed")
  /\ Crosses(FALSE)
  /\ UNCHANGED <<listing, auction, loaded, intents>>

-----------------------------------------------------------------------------
(* The other ways an order ends. *)

\* PATCH /orders/{id} by the buyer or the seller; Stripe is not told.
Cancel(o) ==
  /\ "cancel" \in Hazards
  /\ orders[o].status \in {"pending_payment", "paid"}
  /\ SetStatus(o, "cancelled")
  /\ ReleasePieces
  /\ Crosses(FALSE)
  /\ UNCHANGED <<listing, auction, loaded, stripeVars>>

\* Mutation: the sweep goes by its own clock and does not ask Stripe.
ExpireByClock(o) ==
  /\ Pending(o)
  /\ SetStatus(o, "cancelled")
  /\ ReleasePieces
  /\ Crosses(FALSE)
  /\ UNCHANGED <<listing, auction, loaded, stripeVars>>

\* Mutation: only orders that got as far as an intent are swept.
ExpireReferenced(o) ==
  /\ Pending(o)
  /\ orders[o].referenced
  /\ intents[o] = "open"
  /\ intents' = [intents EXCEPT ![o] = "canceled"]
  /\ SetStatus(o, "cancelled") /\ ReleasePieces
  /\ Crosses(FALSE)
  /\ UNCHANGED <<listing, auction, loaded, events>>

\* expire_abandoned_orders, for an order past its window.  Stripe cancels only
\* an intent that nobody is paying; when it refuses, the order is left alone.
ExpireAbandoned(o) ==
  /\ Pending(o)
  /\ orders[o].referenced => intents[o] = "open"
  /\ intents' = [intents EXCEPT ![o] = IF orders[o].referenced THEN "canceled" ELSE @]
  /\ CommitsOrDies(SetStatus(o, "cancelled") /\ ReleasePieces)
  /\ Crosses(FALSE)
  /\ UNCHANGED <<listing, auction, loaded, events>>

\* refund_order for a paid order, its money already returned; the statuses
\* after shipping belong to the escrow.
Refund(o) ==
  /\ orders[o].status = "paid"
  /\ SetStatus(o, "refunded")
  /\ ReleasePieces
  /\ Crosses(FALSE)
  /\ UNCHANGED <<listing, auction, loaded, stripeVars>>

\* create_shipment
Ship(o) ==
  /\ orders[o].status = "paid"
  /\ SetStatus(o, "shipped")
  /\ UNCHANGED <<pieceVars, auction, loaded, crossed, stripeVars>>

-----------------------------------------------------------------------------
(* The owner. *)

\* pieces_controller.patch with a status, or delete: VALID_TRANSITIONS to an
\* OWNER_DRIVEN status, or to deleted.  That lets an owner move a work that
\* an order is holding.
EditStatus(s) ==
  /\ s \in {"draft", "live", "delisted", "deleted"}
  /\ <<piece, s>> \in PieceMoves
  /\ piece \in Committed => "edit_committed" \in Hazards
  /\ piece' = s
  /\ UNCHANGED <<listing, auction, orders, loaded, stripeVars>>
  /\ Crosses(piece \in Committed)

\* The same request with listing terms: a work whose auction led nowhere is
\* put up at a fixed price.
EditTerms ==
  /\ piece \notin Committed \cup {"deleted"}
  /\ listing = "auction"
  /\ listing' = "fixed"
  /\ UNCHANGED <<piece, auction, orders, loaded, crossed, stripeVars>>

Next ==
  \/ \E o \in Orders :
       \/ LoadPiece(o)
       \/ Collect(o)
       \/ AuctionCheckout(o)
       \/ CreateIntent(o)
       \/ Confirm(o)
       \/ Settle(o, "succeeded")
       \/ Settle(o, "failed")
       \/ OnPaymentSucceeded(o)
       \/ OnPaymentFailed(o)
       \/ Cancel(o)
       \/ ExpireAbandoned(o)
       \/ Refund(o)
       \/ Ship(o)
  \/ \E s \in PieceStatuses : EditStatus(s)
  \/ EditTerms

Spec == Init /\ [][Next]_vars

\* Stripe settles what it is processing and repeats an event until it is
\* acknowledged; the beat runs the sweep every five minutes.  Nobody is obliged
\* to pay, to cancel or to come back.
FairSpec ==
  /\ Spec
  /\ \A o \in Orders :
       /\ WF_vars(Settle(o, "succeeded") \/ Settle(o, "failed"))
       /\ WF_vars(OnPaymentSucceeded(o))
       /\ WF_vars(OnPaymentFailed(o))
       /\ WF_vars(ExpireAbandoned(o))

-----------------------------------------------------------------------------
(* Properties. *)

TypeOK ==
  /\ piece \in PieceStatuses
  /\ listing \in {"fixed", "auction"}
  /\ auction \in AuctionStatuses
  /\ orders \in [Orders -> OrderRows]
  /\ loaded \in [Orders -> Views]
  /\ crossed \in BOOLEAN
  /\ intents \in [Orders -> IntentStatuses]
  /\ events \in [Orders -> SUBSET {"succeeded", "failed"}]

\* One physical artwork is never kept for, or sold to, two orders at once, through
\* overlapping checkouts, crashes, declines, sweeps, refunds and late or repeated
\* payment events, except by the two ways the code leaves open: the row lock of
\* create_order does not refresh the row its re-check reads, and patch lets an owner
\* move a work that an order holds.
SoldOnce == ~crossed => \A o, p \in Holding : o = p

\* The piece's status and the order table say the same thing: reserved exactly
\* while an order waits for its payment, sold exactly while one is paid for.
PieceFollowsOrders ==
  /\ piece = "reserved" <=> \E o \in Orders : Pending(o)
  /\ piece = "sold" <=> Paid # {}

\* An order counts as paid, and its ledger entry and payout row exist, only
\* when Stripe has the money, and the three go together: an order that was paid
\* for always has its payout row.
PaidIsCharged ==
  \A o \in Orders :
    /\ orders[o].booked => intents[o] = "succeeded"
    /\ orders[o].status \in {"paid", "shipped", "refunded"} => orders[o].booked

\* An order that was released stays released and keeps its books as they are,
\* whatever late, repeated or reordered events arrive for it.
ReleasedForGood ==
  [][\A o \in Orders : orders[o].status \in Released =>
       /\ orders'[o].status = orders[o].status
       /\ orders'[o].booked = orders[o].booked]_vars

\* Every checkout ends: paid, failed or cancelled, and never a work reserved
\* for good ("without this sweep the marketplace quietly loses work").
EveryCheckoutEnds == \A o \in Orders : Pending(o) ~> ~Pending(o)

\* A cancelled order is not charged, then or later: "a real charge against an
\* order we cancelled, for work now sold to someone else" is what the sweep
\* closes the intent for.
CancelledIsUncharged ==
  \A o \in Orders :
    orders[o].status = "cancelled" /\ ~orders[o].booked =>
      intents[o] # "succeeded"

\* A work won at auction goes back to its winner when its order falls through
\* ("release_target_status sends it back to its winner instead").  Does not hold:
\* get_running_auction does not find an auction that has closed.
ReturnsToWinner ==
  [][listing = "auction" /\ piece \in {"reserved", "sold"} /\ piece' \notin {"reserved", "sold"}
       => piece' = "auction_won"]_vars

\* Checkout keeps the promise of module OneWork.
Promise == INSTANCE OneWork WITH
  Order <- Orders,
  holder <- Holding,
  sold <- Paid # {},
  past <- {o \in Orders : orders[o].status \in Released}

KeepsPromise == Promise!WorkSpec

=============================================================================
