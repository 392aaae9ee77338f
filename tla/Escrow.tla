-------------------------------- MODULE Escrow --------------------------------
(***************************************************************************)
(* The life of a paid order: shipping, delivery, the collector's           *)
(* confirmation or complaint, and the payment, which the platform holds    *)
(* until it goes to the artist as a Stripe transfer or back to the         *)
(* collector as a refund.  All orders are of one artist.                   *)
(*                                                                         *)
(* A handler that runs in one transaction on a locked order is one action. *)
(* A payout and an admin's refund are not: both commit, call Stripe with   *)
(* no transaction open, and record the outcome in another transaction.     *)
(* They are processes whose place is kept in "payers" and "refunders".     *)
(* What Stripe knows survives whatever happens to them.                    *)
(***************************************************************************)
EXTENDS Integers, FiniteSets, FiniteSetsExt

CONSTANTS
  Orders,        \* paid orders of one artist
  Workers,       \* requests that may be paying out
  Admins,        \* requests that may be refunding
  Artwork,       \* the price of the work, in cents, and what is added to it
  Shipping,
  Tax,
  CourierCost,   \* what the courier charged
  Bps,           \* the order's snapshot of the commission rate
  Fee,           \* Stripe's fee on the charge made at checkout
  PrepaidFee,    \* and on an auction's captured hold
  MaxTransfers,  \* bound: transfers Stripe may make for an order
  Hazards        \* which misbehaviours of the environment happen

HazardKinds ==
  { "crash",       \* a process dies between two of its steps
    "amnesia",     \* listing transfers fails a day after the key was used
    "by_hand",     \* refunds made in Stripe's dashboard
    "chargeback",
    "bounce",      \* a transfer fails after it was made
    "reversal",    \* a booked transfer is reversed
    "early",       \* ... or one is reversed before it was booked
    "late_cost",   \* the courier's cost is known only after the pickup
    "onboarding"   \* the artist's Connect account is not always ready
  }

ASSUME HazardsAssumption == Hazards \subseteq HazardKinds

ASSUME OrdersAssumption == Orders # {}

ASSUME AmountsAssumption ==
  /\ {Artwork, Shipping, Tax, CourierCost, Bps, Fee, PrepaidFee} \subseteq Nat
  /\ Bps \in 0..10000

ASSUME BoundAssumption == MaxTransfers \in Nat \ {0}

OrderStatuses ==
  { "paid", "shipped", "awaiting_confirmation", "disputed", "completed",
    "cancelled", "refunded" }

\* VALID_TRANSITIONS of orders_dao, from "paid" on.
OrderMoves ==
  ({"paid"} \X {"shipped", "cancelled", "refunded", "disputed"})
  \cup ({"shipped"} \X {"awaiting_confirmation", "disputed"})
  \cup ({"awaiting_confirmation"} \X {"completed", "disputed"})
  \cup ({"disputed"} \X {"completed", "refunded"})
  \cup ({"completed"} \X {"refunded", "disputed"})

RefundableStatuses == {"paid", "shipped", "awaiting_confirmation", "disputed"}

DisputeStatuses == {"none", "open", "refunded", "released"}
ShipmentStatuses == {"none", "picked_up", "delivered"}
PayoutStatuses ==
  {"pending", "ready_to_release", "released", "transfer_failed", "blocked"}

ReleasableStatuses == {"pending", "ready_to_release", "transfer_failed"}

Stages == {"idle", "called", "claimed", "made", "refused"}
RefundStages == {"idle", "balance", "prepaid", "record"}
Refunds == {"balance", "prepaid", "by_hand", "part"}
EventTypes ==
  { "refunded", "part_refunded", "dispute_created", "dispute_won", "dispute_lost",
    "transfer_failed", "transfer_reversed" }
TxnTypes ==
  {"order_paid", "payout_released", "refund_issued", "shipping_cost", "transfer_reversed"}

PayoutRows == [status : PayoutStatuses, transfer : 0..MaxTransfers]
LedgerKeys == [type : TxnTypes, order : Orders]

VARIABLES
  orders,       \* status, received, and whether an auction prepaid the price
  shipments,    \* shipments.status
  disputes,     \* disputes.status: the collector's complaint
  payouts,      \* the payout rows: status and stripe_transfer_id, 0 for none
  ledger,       \* the ledger's transactions, by their idempotency keys
  reviews,      \* orders with an audit entry refund_needs_review
  seller,       \* the artist's Connect columns, and what Stripe says of them
  transfers,    \* Stripe: transfers made in the order's group, and the newest's fate
  refunds,      \* Stripe: what was given back of the order's charges
  chargebacks,  \* Stripe: the bank's dispute of the charge
  events,       \* Stripe: events not acknowledged yet
  payers,       \* release_payout_for_order in progress
  refunders,    \* refund_order in progress
  crossed       \* history: orders whose completion and a refund crossed

rows == <<orders, shipments, disputes, payouts, ledger, reviews>>
stripeVars == <<transfers, refunds, chargebacks, events>>
calls == <<payers, refunders, crossed>>
vars == <<rows, seller, stripeVars, calls>>

-----------------------------------------------------------------------------
(* Money. *)

\* Python's round(n / d): a half goes to the even neighbour.
RoundHalfEven(n, d) ==
  LET q == n \div d  r == n % d
  IN  IF 2 * r > d \/ (2 * r = d /\ q % 2 = 1) THEN q + 1 ELSE q

Commission == RoundHalfEven(Artwork * Bps, 10000)
Share == Artwork - Commission
Total == Artwork + Shipping + Tax
Prepaid(o) == IF orders[o].auctioned THEN Artwork ELSE 0
KeptFee(o) == Fee + IF orders[o].auctioned THEN PrepaidFee ELSE 0

Txn(type, o) == [type |-> type, order |-> o]

\* Mutation: the hammer price is debited again when the order is paid.
BookOrderPaidTwice(o) ==
  [ platform_clearing |-> Fee - Total, stripe_fees |-> -Fee,
    seller_payable |-> Share, platform_revenue |-> Commission + Shipping,
    tax_payable |-> Tax ]

\* What each booking adds to the accounts it touches: credits less debits.
\* An auction's escrow was credited, and its fee booked, at the capture.
BookOrderPaid(o) ==
  [ platform_clearing |-> Fee - (Total - Prepaid(o)), stripe_fees |-> -Fee,
    auction_escrow |-> -Prepaid(o), seller_payable |-> Share,
    platform_revenue |-> Commission + Shipping, tax_payable |-> Tax ]

\* Mutation: the artist is debited the price, as if no commission was taken.
BookRefundOfPrice(o) ==
  [ platform_clearing |-> Total - KeptFee(o), stripe_fees |-> KeptFee(o),
    seller_payable |-> -Artwork, platform_revenue |-> -Shipping, tax_payable |-> -Tax ]

\* Only the admin's refund reaches an order with a prepaid leg, and passes
\* both fees.
BookRefundIssued(o) ==
  [ platform_clearing |-> Total - KeptFee(o), stripe_fees |-> KeptFee(o),
    seller_payable |-> -Share, platform_revenue |-> -(Commission + Shipping),
    tax_payable |-> -Tax ]

BookPayoutReleased == [seller_payable |-> -Share, platform_clearing |-> Share]
BookTransferReversed == [seller_payable |-> Share, platform_clearing |-> -Share]
BookShippingCost == [shipping_costs |-> -CourierCost, platform_bank |-> CourierCost]

Entries(t) ==
  CASE t.type = "order_paid" -> BookOrderPaid(t.order)
    [] t.type = "refund_issued" -> BookRefundIssued(t.order)
    [] t.type = "payout_released" -> BookPayoutReleased
    [] t.type = "transfer_reversed" -> BookTransferReversed
    [] t.type = "shipping_cost" -> BookShippingCost

\* post_transaction: a key that was used before posts nothing.
Post(type, o) == ledger' = ledger \cup {Txn(type, o)}
Posted(type, o) == Txn(type, o) \in ledger

\* get_balance: what the transactions of one order, of which there is one of
\* each type at most, add to an account, and all orders to the artist's.
Entered(type, o, account) ==
  LET entries == Entries(Txn(type, o))
  IN  IF Posted(type, o) /\ account \in DOMAIN entries THEN entries[account] ELSE 0

Balance(o, account) ==
  Entered("order_paid", o, account) + Entered("payout_released", o, account)
  + Entered("refund_issued", o, account) + Entered("shipping_cost", o, account)
  + Entered("transfer_reversed", o, account)

SellerBalance == MapThenSumSet(LAMBDA o : Balance(o, "seller_payable"), Orders)

-----------------------------------------------------------------------------
(* Helpers. *)

Init ==
  /\ orders \in [Orders -> [status : {"paid"}, received : {FALSE}, auctioned : BOOLEAN]]
  /\ shipments = [o \in Orders |-> "none"]
  /\ disputes = [o \in Orders |-> "none"]
  /\ payouts = [o \in Orders |-> [status |-> "pending", transfer |-> 0]]
  /\ ledger = {Txn("order_paid", o) : o \in Orders}
  /\ reviews = {}
  /\ seller = LET ready == "onboarding" \notin Hazards
              IN  [account |-> ready, enabled |-> ready, ready |-> ready, updates |-> {}]
  /\ transfers = [o \in Orders |-> [made |-> 0, fate |-> "none"]]
  /\ refunds = [o \in Orders |-> {}]
  /\ chargebacks = [o \in Orders |-> "none"]
  /\ events = [o \in Orders |-> {}]
  /\ payers = [w \in Workers |-> [at |-> "idle", order |-> CHOOSE o \in Orders : TRUE]]
  /\ refunders = [a \in Admins |-> [at |-> "idle", order |-> CHOOSE o \in Orders : TRUE]]
  /\ crossed = {}

\* transition_order
CanMove(o, s) == <<orders[o].status, s>> \in OrderMoves
SetStatus(o, s) == orders' = [orders EXCEPT ![o].status = s]

Refunding(o) == \E a \in Admins : refunders[a].at # "idle" /\ refunders[a].order = o

\* The code's own fault: an order is completed over a refund that runs, or that
\* went through at Stripe and is not in its row.  Nothing in the code looks.
CompletedOver(o) ==
  crossed' = IF Refunding(o) \/ refunds[o] # {} THEN crossed \cup {o} ELSE crossed

PayerTo(w, s) == payers' = [payers EXCEPT ![w].at = s]
RefunderTo(a, s) == refunders' = [refunders EXCEPT ![a].at = s]

-----------------------------------------------------------------------------
(* Shipping, and the collector. *)

\* shipments_dao.create_shipment, with or without the courier's cost.
Shipped(o) ==
  /\ shipments[o] = "none"
  /\ orders[o].status = "paid"
  /\ shipments' = [shipments EXCEPT ![o] = "picked_up"]
  /\ SetStatus(o, "shipped")
  /\ Post("shipping_cost", o) \/ ("late_cost" \in Hazards /\ UNCHANGED ledger)

CreateShipment(o) ==
  /\ Shipped(o)
  /\ UNCHANGED <<disputes, payouts, reviews, seller, stripeVars, calls>>

\* shipments_dao.update_shipment to "delivered".  A disputed order stays disputed.
Arrived(o) ==
  /\ shipments[o] = "picked_up"
  /\ shipments' = [shipments EXCEPT ![o] = "delivered"]
  /\ IF orders[o].status = "shipped"
     THEN SetStatus(o, "awaiting_confirmation") ELSE UNCHANGED orders

Delivered(o) ==
  /\ Arrived(o)
  /\ UNCHANGED <<disputes, payouts, ledger, reviews, seller, stripeVars, calls>>

\* update_shipment with a cost: once, whatever the order's status.
RecordCost(o) ==
  /\ shipments[o] # "none"
  /\ ~Posted("shipping_cost", o)
  /\ Post("shipping_cost", o)
  /\ UNCHANGED <<orders, shipments, disputes, payouts, reviews, seller, stripeVars, calls>>

\* confirm_received commits, then calls release_payout_for_order.  A second
\* tap answers early and releases nothing.
ConfirmReceived(w, o) ==
  /\ payers[w].at = "idle"
  /\ orders[o].status = "awaiting_confirmation"
  /\ orders' = [orders EXCEPT ![o].status = "completed", ![o].received = TRUE]
  /\ payers' = [payers EXCEPT ![w] = [at |-> "called", order |-> o]]
  /\ CompletedOver(o)
  /\ UNCHANGED <<shipments, disputes, payouts, ledger, reviews, seller, stripeVars, refunders>>

ReportIssue(o) ==
  /\ orders[o].status \in {"paid", "shipped", "awaiting_confirmation"}
  /\ SetStatus(o, "disputed")
  /\ disputes' = [disputes EXCEPT ![o] = IF @ = "none" THEN "open" ELSE @]
  /\ UNCHANGED <<shipments, payouts, ledger, reviews, seller, stripeVars, calls>>

\* PATCH to "cancelled" by buyer or seller: nothing is refunded and the
\* payout row stays.
Cancel(o) ==
  /\ orders[o].status = "paid"
  /\ SetStatus(o, "cancelled")
  /\ UNCHANGED <<shipments, disputes, payouts, ledger, reviews, seller, stripeVars, calls>>

\* Mutation: an admin's ruling does not mark the work received.
ReleaseUnreceived(w, o) ==
  /\ payers[w].at = "idle"
  /\ orders[o].status \in {"disputed", "awaiting_confirmation"}
  /\ SetStatus(o, "completed")
  /\ payers' = [payers EXCEPT ![w] = [at |-> "called", order |-> o]]
  /\ CompletedOver(o)
  /\ UNCHANGED <<shipments, disputes, payouts, ledger, reviews, seller, stripeVars, refunders>>

\* release_order: the admin rules for the artist, then pays as usual.
ReleaseOrder(w, o) ==
  /\ payers[w].at = "idle"
  /\ orders[o].status \in {"disputed", "awaiting_confirmation"}
  /\ orders' = [orders EXCEPT ![o].status = "completed", ![o].received = TRUE]
  /\ disputes' = [disputes EXCEPT ![o] = IF @ = "none" THEN @ ELSE "released"]
  /\ payers' = [payers EXCEPT ![w] = [at |-> "called", order |-> o]]
  /\ CompletedOver(o)
  /\ UNCHANGED <<shipments, payouts, ledger, reviews, seller, stripeVars, refunders>>

-----------------------------------------------------------------------------
(* Paying the artist: payouts_service. *)

\* payouts_service.retry_payout
Retryable(o) == payouts[o].status # "released" /\ orders[o].status = "completed"

RetryPayout(w, o) ==
  /\ payers[w].at = "idle"
  /\ Retryable(o)
  /\ payers' = [payers EXCEPT ![w] = [at |-> "called", order |-> o]]
  /\ UNCHANGED <<rows, seller, stripeVars, refunders, crossed>>

\* _blocking_reason
Payable == Share > 0 /\ SellerBalance >= Share /\ seller.account /\ seller.enabled

Claimable(o) == orders[o].status = "completed" /\ payouts[o].status \in ReleasableStatuses

\* release_payout_for_order up to its first commit: refused, blocked, or
\* claimed.
Claim(w) ==
  LET o == payers[w].order IN
  /\ payers[w].at = "called"
  /\ \/ ~Claimable(o) /\ PayerTo(w, "idle") /\ UNCHANGED payouts
     \/ Claimable(o) /\ ~Payable /\ PayerTo(w, "idle")
        /\ payouts' = [payouts EXCEPT ![o].status = "transfer_failed"]
     \/ Claimable(o) /\ Payable /\ PayerTo(w, "claimed")
        /\ payouts' = [payouts EXCEPT ![o].status = "ready_to_release"]
  /\ UNCHANGED <<orders, shipments, disputes, ledger, reviews, seller, stripeVars,
                 refunders, crossed>>

\* Mutation: only a recorded transfer counts as existing.
TransferExistsRecorded(o) == payouts[o].transfer # 0

\* Stripe has a transfer in the order's group, or made one under its key.
TransferExists(o) == transfers[o].made > 0

\* The call to Stripe.  It adopts a transfer made before, makes one, or is
\* refused; an answer that is lost looks like a refusal.
Transfer(w) ==
  LET o == payers[w].order IN
  /\ payers[w].at = "claimed"
  /\ \/ TransferExists(o) /\ PayerTo(w, "made") /\ UNCHANGED transfers
     \/ /\ ~TransferExists(o) \/ "amnesia" \in Hazards
        /\ transfers[o].made < MaxTransfers
        /\ seller.ready
        /\ transfers' = [transfers EXCEPT ![o] = [made |-> @.made + 1, fate |-> "live"]]
        /\ PayerTo(w, "made") \/ PayerTo(w, "refused")
     \/ PayerTo(w, "refused") /\ UNCHANGED transfers
  /\ UNCHANGED <<rows, seller, refunds, chargebacks, events, refunders, crossed>>

\* _finalize asks only whether the payout is released already.
Finalize(w) ==
  LET o == payers[w].order IN
  /\ payers[w].at = "made"
  /\ PayerTo(w, "idle")
  /\ IF payouts[o].status = "released" THEN UNCHANGED <<payouts, ledger>>
     ELSE /\ payouts' = [payouts EXCEPT ![o] =
                           [status |-> "released", transfer |-> transfers[o].made]]
          /\ Post("payout_released", o)
  /\ UNCHANGED <<orders, shipments, disputes, reviews, seller, stripeVars, refunders, crossed>>

\* Mutation: the failure is logged and the claim is left as it is.
MarkFailedOnlyInLog(w) ==
  payers[w].at = "refused" /\ PayerTo(w, "idle")
  /\ UNCHANGED <<rows, seller, stripeVars, refunders, crossed>>

MarkFailed(w) ==
  LET o == payers[w].order IN
  /\ payers[w].at = "refused"
  /\ PayerTo(w, "idle")
  /\ payouts' = IF payouts[o].status = "released" THEN payouts
                ELSE [payouts EXCEPT ![o].status = "transfer_failed"]
  /\ UNCHANGED <<orders, shipments, disputes, ledger, reviews, seller, stripeVars,
                 refunders, crossed>>

-----------------------------------------------------------------------------
(* Refunding the collector: disputes_service. *)

\* Mutation: a completed order may be refunded until its payout is released.
MayRefundCompleted(o) ==
  payouts[o].status # "released" /\ orders[o].status \in RefundableStatuses \cup {"completed"}

MayRefund(o) == payouts[o].status # "released" /\ orders[o].status \in RefundableStatuses

\* refund_order's first transaction.
BeginRefund(a, o) ==
  /\ refunders[a].at = "idle"
  /\ MayRefund(o)
  /\ refunders' = [refunders EXCEPT ![a] = [at |-> "balance", order |-> o]]
  /\ UNCHANGED <<rows, seller, stripeVars, payers, crossed>>

\* Stripe refuses to refund what a bank disputes or what was refunded by hand.
Returnable(o) == chargebacks[o] \notin {"open", "lost"} /\ "by_hand" \notin refunds[o]

\* Mutation: an auction's order is refunded in one go.
AfterBalanceAlways(o) == "record"

AfterBalance(o) == IF orders[o].auctioned THEN "prepaid" ELSE "record"

\* The charge is refunded.  The call, or reading the fee after it, may fail:
\* the request ends with a 502 and the money may be gone.
RefundBalance(a) ==
  LET o == refunders[a].order IN
  /\ refunders[a].at = "balance"
  /\ \/ /\ Returnable(o)
        /\ refunds' = [refunds EXCEPT ![o] = @ \cup {"balance"}]
        /\ events' = IF "balance" \in refunds[o] THEN events
                     ELSE [events EXCEPT ![o] = @ \cup {"refunded"}]
        /\ RefunderTo(a, AfterBalance(o)) \/ RefunderTo(a, "idle")
     \/ RefunderTo(a, "idle") /\ UNCHANGED <<refunds, events>>
  /\ UNCHANGED <<rows, seller, transfers, chargebacks, payers, crossed>>

\* The second leg: the captured hold, under a key of its own.
RefundPrepaid(a) ==
  LET o == refunders[a].order IN
  /\ refunders[a].at = "prepaid"
  /\ \/ /\ refunds' = [refunds EXCEPT ![o] = @ \cup {"prepaid"}]
        /\ RefunderTo(a, "record")
     \/ RefunderTo(a, "idle") /\ UNCHANGED refunds
  /\ UNCHANGED <<rows, seller, transfers, chargebacks, events, payers, crossed>>

\* The last transaction.  When the order cannot become "refunded" the whole of
\* it is lost, and so is the request.
RecordRefund(a) ==
  LET o == refunders[a].order IN
  /\ refunders[a].at = "record"
  /\ RefunderTo(a, "idle")
  /\ IF orders[o].status # "refunded" /\ ~CanMove(o, "refunded") THEN UNCHANGED rows
     ELSE /\ SetStatus(o, "refunded")
          /\ Post("refund_issued", o)
          /\ disputes' = [disputes EXCEPT ![o] = IF @ = "none" THEN @ ELSE "refunded"]
          /\ payouts' = [payouts EXCEPT ![o].status = "blocked"]
          /\ UNCHANGED <<shipments, reviews>>
  /\ UNCHANGED <<seller, stripeVars, payers, crossed>>

-----------------------------------------------------------------------------
(* Stripe's events.  A handler that raises leaves its event to be retried. *)

Pending(o, e) == e \in events[o]
Acknowledge(o, e) == events' = [events EXCEPT ![o] = @ \ {e}]

\* covers_whole_order
CoversOrder(o, e) == e = "refunded" /\ ~orders[o].auctioned

\* _on_charge_refunded: confirms the admin's refund, books one made by hand,
\* and only flags one that does not cover the order.
OnChargeRefunded(o, e) ==
  /\ Pending(o, e)
  /\ e \in {"refunded", "part_refunded"}
  /\ \/ orders[o].status = "refunded" /\ UNCHANGED rows
     \/ /\ orders[o].status # "refunded"
        /\ ~CoversOrder(o, e)
        /\ reviews' = reviews \cup {o}
        /\ UNCHANGED <<orders, shipments, disputes, payouts, ledger>>
     \/ /\ CoversOrder(o, e)
        /\ CanMove(o, "refunded")
        /\ SetStatus(o, "refunded")
        /\ Post("refund_issued", o)
        /\ UNCHANGED <<shipments, disputes, payouts, reviews>>
  /\ Acknowledge(o, e)
  /\ UNCHANGED <<seller, transfers, refunds, chargebacks, calls>>

OnChargebackOpened(o) ==
  /\ Pending(o, "dispute_created")
  /\ payouts' = IF payouts[o].status = "pending"
                THEN [payouts EXCEPT ![o].status = "blocked"] ELSE payouts
  /\ Acknowledge(o, "dispute_created")
  /\ UNCHANGED <<orders, shipments, disputes, ledger, reviews, seller,
                 transfers, refunds, chargebacks, calls>>

\* Only a chargeback the platform won gives the payout back.
OnChargebackClosed(o, e) ==
  /\ Pending(o, e)
  /\ e \in {"dispute_won", "dispute_lost"}
  /\ payouts' = IF e = "dispute_won" /\ payouts[o].status = "blocked"
                THEN [payouts EXCEPT ![o].status = "pending"] ELSE payouts
  /\ Acknowledge(o, e)
  /\ UNCHANGED <<orders, shipments, disputes, ledger, reviews, seller,
                 transfers, refunds, chargebacks, calls>>

\* Mutation: the payout is looked up by its order, not by its transfer.
RecordedForOrder(o) == TRUE

\* _payout_for_transfer: the payout is found once its transfer is recorded.
Recorded(o) == payouts[o].transfer # 0 /\ payouts[o].transfer = transfers[o].made

OnTransferFailed(o) ==
  /\ Pending(o, "transfer_failed")
  /\ payouts' = IF Recorded(o)
                THEN [payouts EXCEPT ![o].status = "transfer_failed"] ELSE payouts
  /\ Acknowledge(o, "transfer_failed")
  /\ UNCHANGED <<orders, shipments, disputes, ledger, reviews, seller,
                 transfers, refunds, chargebacks, calls>>

OnTransferReversed(o) ==
  /\ Pending(o, "transfer_reversed")
  /\ IF Recorded(o)
     THEN /\ payouts' = [payouts EXCEPT ![o].status = "transfer_failed"]
          /\ Post("transfer_reversed", o)
     ELSE UNCHANGED <<payouts, ledger>>
  /\ Acknowledge(o, "transfer_reversed")
  /\ UNCHANGED <<orders, shipments, disputes, reviews, seller,
                 transfers, refunds, chargebacks, calls>>

OnAccountUpdated(ready) ==
  /\ ready \in seller.updates
  /\ seller' = [seller EXCEPT !.enabled = ready, !.updates = @ \ {ready}]
  /\ UNCHANGED <<rows, stripeVars, calls>>

-----------------------------------------------------------------------------
(* Seller onboarding: connect_controller. *)

\* One account, however often it is asked for: the key names the artist.
StartOnboarding ==
  /\ ~seller.account
  /\ seller' = [seller EXCEPT !.account = TRUE]
  /\ UNCHANGED <<rows, stripeVars, calls>>

\* What Stripe says of the account: payouts and transfers, not charges.
PayoutsReady == seller.account /\ seller.ready

\* onboarding_status reads Stripe and corrects the column.
OnboardingStatus ==
  /\ seller.account
  /\ seller.enabled # PayoutsReady
  /\ seller' = [seller EXCEPT !.enabled = PayoutsReady]
  /\ UNCHANGED <<rows, stripeVars, calls>>

-----------------------------------------------------------------------------
(* What Stripe, the bank, people in the dashboard and the machine do. *)

\* Stripe changes its mind about the account, and says so.
AccountChanges ==
  /\ "onboarding" \in Hazards
  /\ seller.account
  /\ seller' = [seller EXCEPT !.ready = ~@, !.updates = @ \cup {~seller.ready}]
  /\ UNCHANGED <<rows, stripeVars, calls>>

RefundByHand(o, part) ==
  /\ "by_hand" \in Hazards
  /\ Returnable(o)
  /\ refunds[o] = {}
  /\ refunds' = [refunds EXCEPT ![o] = {IF part THEN "part" ELSE "by_hand"}]
  /\ events' = [events EXCEPT ![o] = @ \cup {IF part THEN "part_refunded" ELSE "refunded"}]
  /\ crossed' = IF orders[o].received THEN crossed \cup {o} ELSE crossed
  /\ UNCHANGED <<rows, seller, transfers, chargebacks, payers, refunders>>

OpenChargeback(o) ==
  /\ "chargeback" \in Hazards
  /\ chargebacks[o] = "none"
  /\ refunds[o] = {}
  /\ chargebacks' = [chargebacks EXCEPT ![o] = "open"]
  /\ events' = [events EXCEPT ![o] = @ \cup {"dispute_created"}]
  /\ UNCHANGED <<rows, seller, transfers, refunds, calls>>

CloseChargeback(o, won) ==
  /\ chargebacks[o] = "open"
  /\ chargebacks' = [chargebacks EXCEPT ![o] = IF won THEN "won" ELSE "lost"]
  /\ events' = [events EXCEPT ![o] =
                  @ \cup {IF won THEN "dispute_won" ELSE "dispute_lost"}]
  /\ UNCHANGED <<rows, seller, transfers, refunds, calls>>

\* Stripe, or ops in its dashboard, takes the newest transfer back.
TransferReturns(o, fate) ==
  /\ transfers[o].fate = "live"
  /\ \/ fate = "failed" /\ "bounce" \in Hazards
     \/ fate = "reversed" /\ "early" \in Hazards
     \/ fate = "reversed" /\ "reversal" \in Hazards
        /\ Recorded(o) /\ payouts[o].status = "released"
        /\ \A w \in Workers : payers[w].order = o => payers[w].at = "idle"
  /\ transfers' = [transfers EXCEPT ![o].fate = fate]
  /\ events' = [events EXCEPT ![o] =
       @ \cup {IF fate = "failed" THEN "transfer_failed" ELSE "transfer_reversed"}]
  /\ UNCHANGED <<rows, seller, refunds, chargebacks, calls>>

Crash ==
  /\ "crash" \in Hazards
  /\ \/ /\ \E w \in Workers : payers[w].at # "idle" /\ PayerTo(w, "idle")
        /\ UNCHANGED refunders
     \/ /\ \E a \in Admins : refunders[a].at # "idle" /\ RefunderTo(a, "idle")
        /\ UNCHANGED payers
  /\ UNCHANGED <<rows, seller, stripeVars, crossed>>

-----------------------------------------------------------------------------

PayoutStep(w) == Claim(w) \/ Transfer(w) \/ Finalize(w) \/ MarkFailed(w)
RefundStep(a) == RefundBalance(a) \/ RefundPrepaid(a) \/ RecordRefund(a)
Webhook(o) ==
  \/ \E e \in EventTypes : OnChargeRefunded(o, e) \/ OnChargebackClosed(o, e)
  \/ OnChargebackOpened(o) \/ OnTransferFailed(o) \/ OnTransferReversed(o)

Next ==
  \/ \E o \in Orders :
       \/ CreateShipment(o) \/ Delivered(o) \/ RecordCost(o)
       \/ ReportIssue(o) \/ Cancel(o)
       \/ \E w \in Workers : ConfirmReceived(w, o) \/ ReleaseOrder(w, o) \/ RetryPayout(w, o)
       \/ \E a \in Admins : BeginRefund(a, o)
       \/ Webhook(o)
       \/ \E part \in BOOLEAN : RefundByHand(o, part)
       \/ OpenChargeback(o)
       \/ \E won \in BOOLEAN : CloseChargeback(o, won)
       \/ \E fate \in {"failed", "reversed"} : TransferReturns(o, fate)
  \/ \E w \in Workers : PayoutStep(w)
  \/ \E a \in Admins : RefundStep(a)
  \/ \E ready \in BOOLEAN : OnAccountUpdated(ready)
  \/ StartOnboarding \/ OnboardingStatus \/ AccountChanges
  \/ Crash

Spec == Init /\ [][Next]_vars

\* A request that runs goes on, and Stripe delivers its events.  Nobody has to
\* confirm, ship, retry or refund.
FairSpec ==
  /\ Spec
  /\ \A w \in Workers : WF_vars(PayoutStep(w))
  /\ \A a \in Admins : WF_vars(RefundStep(a))
  /\ \A o \in Orders : WF_vars(Webhook(o))

-----------------------------------------------------------------------------
(* Where the money is, and where the books say it is. *)

PaidArtist(o) == transfers[o].fate = "live"
RefundedWhole(o) ==
  IF orders[o].auctioned THEN {"balance", "prepaid"} \subseteq refunds[o]
  ELSE refunds[o] \cap {"balance", "by_hand"} # {}

\* Stripe's balance of an order: both charges less their fees, less what went
\* back to the collector or on to the artist.
StripeHolds(o) ==
  Total - KeptFee(o)
  - (IF "balance" \in refunds[o] THEN Total - Prepaid(o) ELSE 0)
  - (IF "prepaid" \in refunds[o] THEN Prepaid(o) ELSE 0)
  - (IF PaidArtist(o) THEN Share ELSE 0)

\* The same by the books: the clearing account, a debit balance, with the
\* capture of an auction's hold.
BooksHold(o) ==
  (IF orders[o].auctioned THEN Artwork - PrepaidFee ELSE 0)
  - Balance(o, "platform_clearing")

\* reconcile takes what get_balance says of the clearing account, in that
\* sign, and Stripe's balance, and reports the difference.
LedgerClearing == -MapThenSumSet(BooksHold, Orders)
ReconcileDifference == LedgerClearing - MapThenSumSet(StripeHolds, Orders)

MoneyIs(o) ==
  IF PaidArtist(o) THEN "artist" ELSE IF RefundedWhole(o) THEN "collector" ELSE "held"
BooksSay(o) ==
  IF Posted("refund_issued", o) THEN "collector"
  ELSE IF Posted("payout_released", o) /\ ~Posted("transfer_reversed", o)
       THEN "artist" ELSE "held"

-----------------------------------------------------------------------------
(* Properties. *)

\* Types of the rows, of what Stripe keeps and of the requests that run.
TypeOK ==
  /\ orders \in [Orders -> [status : OrderStatuses, received : BOOLEAN, auctioned : BOOLEAN]]
  /\ shipments \in [Orders -> ShipmentStatuses]
  /\ disputes \in [Orders -> DisputeStatuses]
  /\ payouts \in [Orders -> PayoutRows]
  /\ ledger \subseteq LedgerKeys
  /\ reviews \subseteq Orders
  /\ seller \in [account : BOOLEAN, enabled : BOOLEAN, ready : BOOLEAN, updates : SUBSET BOOLEAN]
  /\ transfers \in
       [Orders -> [made : 0..MaxTransfers, fate : {"none", "live", "failed", "reversed"}]]
  /\ refunds \in [Orders -> SUBSET Refunds]
  /\ chargebacks \in [Orders -> {"none", "open", "won", "lost"}]
  /\ events \in [Orders -> SUBSET EventTypes]
  /\ payers \in [Workers -> [at : Stages, order : Orders]]
  /\ refunders \in [Admins -> [at : RefundStages, order : Orders]]
  /\ crossed \subseteq Orders

\* No order's artist is sent money before the collector confirmed or an admin
\* ruled for the artist, whatever crashes, retries or is refunded meanwhile.
PaidOutWasDelivered == \A o \in Orders : transfers[o].made > 0 => orders[o].received

\* A payout that says released has a transfer and is in the books, and the
\* order is refunded exactly when the refund is in the books: no order of
\* retries, webhooks and crashes separates a row from its booking.
RowsMatchBooks ==
  \A o \in Orders :
    /\ payouts[o].status = "released" =>
         payouts[o].transfer > 0 /\ Posted("payout_released", o)
    /\ orders[o].status = "refunded" <=> Posted("refund_issued", o)
    /\ Posted("transfer_reversed", o) => Posted("payout_released", o)

\* However many requests release an order at once, and whatever answers are
\* lost, Stripe is asked to pay the artist once.
OneTransfer == \A o \in Orders : transfers[o].made <= 1

\* No payment goes both ways, to the artist and back to the collector, not even in
\* part, whatever fails, dies, is repeated or is told late, unless the order was
\* completed over a refund, or refunded by hand in Stripe once it was completed.
\* Otherwise refund_order's checks and those of the payout keep the two apart,
\* however they interleave.
PaidOrRefunded ==
  \A o \in Orders : PaidArtist(o) /\ refunds[o] # {} => o \in crossed

\* Once the books have caught up with an order that was not refunded, its
\* clearing balance is, to the cent, what Stripe holds for it.
ClearingIsStripe ==
  \A o \in Orders :
    BooksSay(o) = MoneyIs(o) /\ refunds[o] = {} => BooksHold(o) = StripeHolds(o)

\* The books never claim money that Stripe does not hold, neither of an order
\* as it was paid nor of one refunded whole.  Does not hold: a refund credits back
\* a fee that Stripe keeps.
NoPhantomMoney ==
  \A o \in Orders :
    BooksSay(o) = MoneyIs(o) /\ (refunds[o] = {} \/ RefundedWhole(o))
      => BooksHold(o) <= StripeHolds(o)

\* When no order's payment is on its way, reconciling reports no drift.  Does not
\* hold: the two balances it compares have opposite signs.
ReconcileAgrees ==
  (\A o \in Orders : BooksSay(o) = MoneyIs(o) /\ refunds[o] = {})
    => ReconcileDifference = 0

\* The artist's account is owed the share of every order whose payment the books
\* say is held, and nothing of the others, but for those whose completion and a
\* refund crossed.
OwedIsHeld ==
  \A o \in Orders \ crossed :
    Balance(o, "seller_payable") = IF BooksSay(o) = "held" THEN Share ELSE 0

\* What was entered for an order on one side was entered on the other.
OrderBalances(o) ==
  Balance(o, "platform_clearing") + Balance(o, "platform_bank")
  + Balance(o, "platform_revenue") + Balance(o, "stripe_fees")
  + Balance(o, "shipping_costs") + Balance(o, "tax_payable")
  + Balance(o, "seller_payable") + Balance(o, "auction_escrow") = 0

\* The books balance, and are true of what Stripe holds and of what the artist is
\* owed.
BooksAreTrue ==
  ClearingIsStripe /\ OwedIsHeld /\ \A o \in Orders : OrderBalances(o)

\* Escrow implements Custody: the payment moves once, whole, and only while
\* the books agree where it is.  An order completed over a refund goes astray.
C == INSTANCE Custody WITH
  money <- [o \in Orders |-> IF o \in crossed THEN "astray" ELSE MoneyIs(o)],
  books <- [o \in Orders |-> IF o \in crossed THEN "astray" ELSE BooksSay(o)]
KeepsCustody == C!Spec

\* A confirmed order does not wait forever: its payout is released, or it is
\* in the admin's queue, or a dispute or refund has overtaken it.
ConfirmationPays ==
  \A o \in Orders :
    (orders[o].status = "completed" /\ payouts[o].status \in {"pending", "ready_to_release"})
      ~> (orders[o].status # "completed" \/ payouts[o].status \notin {"pending", "ready_to_release"})

===============================================================================
