----------------------------- MODULE Escrow_proofs -----------------------------
(***************************************************************************)
(* Theorems about Escrow.  What ties a row to its booking, and a transfer  *)
(* to a delivery, holds whatever the environment does, and so does that a  *)
(* payment goes one way only, unless its order's completion and a refund   *)
(* crossed.  That the books follow it needs refunds made through the       *)
(* platform, and transfers that come back only once they were booked.      *)
(***************************************************************************)
EXTENDS Escrow, TLAPS

-----------------------------------------------------------------------------
(* Types. *)

\* An order row that changes its status keeps its type.
LEMMA StatusTyped ==
  ASSUME TypeOK, NEW o \in Orders, NEW s \in OrderStatuses, SetStatus(o, s)
  PROVE  orders' \in [Orders -> [status : OrderStatuses, received : BOOLEAN, auctioned : BOOLEAN]]
<1> DEFINE row == [orders[o] EXCEPT !.status = s]
<1>1. orders \in [Orders -> [status : OrderStatuses, received : BOOLEAN, auctioned : BOOLEAN]]
  BY DEF TypeOK
<1>2. row \in [status : OrderStatuses, received : BOOLEAN, auctioned : BOOLEAN]
  BY <1>1
<1>3. orders' = [orders EXCEPT ![o] = row]
  BY DEF SetStatus
<1> HIDE DEF row
<1> QED
  BY <1>1, <1>2, <1>3

\* So does a payout.
LEMMA PayoutTyped ==
  ASSUME TypeOK, NEW o \in Orders, NEW s \in PayoutStatuses,
         payouts' = [payouts EXCEPT ![o].status = s]
  PROVE  payouts' \in [Orders -> PayoutRows]
<1>1. payouts[o] \in [status : PayoutStatuses, transfer : 0..MaxTransfers]
  BY DEF TypeOK, PayoutRows
<1>2. [payouts[o] EXCEPT !.status = s] \in PayoutRows
  BY <1>1 DEF PayoutRows
<1> QED
  BY <1>2 DEF TypeOK

\* And the requests that pay and refund, whose order stays what it is.
LEMMA PayerTyped ==
  ASSUME TypeOK, NEW w \in Workers, NEW s \in Stages, PayerTo(w, s)
  PROVE  payers' \in [Workers -> [at : Stages, order : Orders]]
<1> DEFINE row == [payers[w] EXCEPT !.at = s]
<1>1. payers \in [Workers -> [at : Stages, order : Orders]]
  BY DEF TypeOK
<1>2. row \in [at : Stages, order : Orders]
  BY <1>1
<1>3. payers' = [payers EXCEPT ![w] = row]
  BY DEF PayerTo
<1> HIDE DEF row
<1> QED
  BY <1>1, <1>2, <1>3

LEMMA RefunderTyped ==
  ASSUME TypeOK, NEW a \in Admins, NEW s \in RefundStages, RefunderTo(a, s)
  PROVE  refunders' \in [Admins -> [at : RefundStages, order : Orders]]
<1> DEFINE row == [refunders[a] EXCEPT !.at = s]
<1>1. refunders \in [Admins -> [at : RefundStages, order : Orders]]
  BY DEF TypeOK
<1>2. row \in [at : RefundStages, order : Orders]
  BY <1>1
<1>3. refunders' = [refunders EXCEPT ![a] = row]
  BY DEF RefunderTo
<1> HIDE DEF row
<1> QED
  BY <1>1, <1>2, <1>3

\* A posted transaction has a key of the ledger.
LEMMA PostTyped ==
  ASSUME TypeOK, NEW o \in Orders, NEW type \in TxnTypes, Post(type, o)
  PROVE  ledger' \subseteq LedgerKeys
BY DEF TypeOK, Post, Txn, LedgerKeys

\* An order whose completion crosses a refund is an order.
LEMMA CrossedTyped ==
  ASSUME TypeOK, NEW o \in Orders, CompletedOver(o)
  PROVE  crossed' \subseteq Orders
BY DEF TypeOK, CompletedOver

LEMMA InitTyped == Init => TypeOK
<1> SUFFICES ASSUME Init PROVE TypeOK
  OBVIOUS
<1>1. (CHOOSE o \in Orders : TRUE) \in Orders
  BY OrdersAssumption
<1>2. ledger \subseteq LedgerKeys
  BY DEF Init, Txn, LedgerKeys, TxnTypes
<1>3. /\ orders \in [Orders -> [status : OrderStatuses, received : BOOLEAN, auctioned : BOOLEAN]]
      /\ payouts \in [Orders -> PayoutRows]
      /\ transfers \in
           [Orders -> [made : 0..MaxTransfers, fate : {"none", "live", "failed", "reversed"}]]
  <2>1. 0 \in 0..MaxTransfers
    BY BoundAssumption
  <2>2. [status |-> "pending", transfer |-> 0] \in PayoutRows
    BY <2>1 DEF PayoutRows, PayoutStatuses
  <2>3. [made |-> 0, fate |-> "none"]
          \in [made : 0..MaxTransfers, fate : {"none", "live", "failed", "reversed"}]
    BY <2>1
  <2> QED
    BY <2>2, <2>3 DEF Init, OrderStatuses
<1>4. /\ payers \in [Workers -> [at : Stages, order : Orders]]
      /\ refunders \in [Admins -> [at : RefundStages, order : Orders]]
  BY <1>1 DEF Init, Stages, RefundStages
<1>5. seller \in [account : BOOLEAN, enabled : BOOLEAN, ready : BOOLEAN, updates : SUBSET BOOLEAN]
  BY DEF Init
<1> QED
  BY <1>2, <1>3, <1>4, <1>5
  DEF Init, TypeOK, ShipmentStatuses, DisputeStatuses

\* The courier's and the collector's requests.
LEMMA OrderStepsTyped ==
  ASSUME TypeOK, NEW o \in Orders,
         \/ CreateShipment(o) \/ Delivered(o) \/ RecordCost(o) \/ ReportIssue(o) \/ Cancel(o)
  PROVE  TypeOK'
<1>1. CASE CreateShipment(o)
  <2>1. orders' \in [Orders -> [status : OrderStatuses, received : BOOLEAN, auctioned : BOOLEAN]]
    BY <1>1, StatusTyped DEF CreateShipment, Shipped, OrderStatuses
  <2>2. ledger' \subseteq LedgerKeys
    BY <1>1, PostTyped DEF CreateShipment, Shipped, TxnTypes, TypeOK
  <2> QED
    BY <1>1, <2>1, <2>2 DEF CreateShipment, Shipped, TypeOK, ShipmentStatuses, stripeVars, calls
<1>2. CASE Delivered(o)
  <2>1. orders' \in [Orders -> [status : OrderStatuses, received : BOOLEAN, auctioned : BOOLEAN]]
    BY <1>2, StatusTyped DEF Delivered, Arrived, OrderStatuses, TypeOK
  <2> QED
    BY <1>2, <2>1 DEF Delivered, Arrived, TypeOK, ShipmentStatuses, stripeVars, calls
<1>3. CASE RecordCost(o)
  BY <1>3, PostTyped DEF RecordCost, TypeOK, TxnTypes, stripeVars, calls
<1>4. CASE ReportIssue(o)
  BY <1>4, StatusTyped DEF ReportIssue, TypeOK, OrderStatuses, DisputeStatuses, stripeVars, calls
<1>5. CASE Cancel(o)
  BY <1>5, StatusTyped DEF Cancel, TypeOK, OrderStatuses, stripeVars, calls
<1> QED
  BY <1>1, <1>2, <1>3, <1>4, <1>5

\* The requests that pay the artist.
LEMMA PayoutStepsTyped ==
  ASSUME TypeOK, NEW w \in Workers,
         \/ \E o \in Orders : ConfirmReceived(w, o) \/ ReleaseOrder(w, o) \/ RetryPayout(w, o)
         \/ PayoutStep(w)
  PROVE  TypeOK'
<1>1. ASSUME NEW o \in Orders, ConfirmReceived(w, o) \/ ReleaseOrder(w, o) PROVE TypeOK'
  <2>1. orders' \in [Orders -> [status : OrderStatuses, received : BOOLEAN, auctioned : BOOLEAN]]
    <3> DEFINE row == [status |-> "completed", received |-> TRUE, auctioned |-> orders[o].auctioned]
    <3>1. orders' = [orders EXCEPT ![o] = row]
      BY <1>1 DEF ConfirmReceived, ReleaseOrder, TypeOK
    <3>2. row \in [status : OrderStatuses, received : BOOLEAN, auctioned : BOOLEAN]
      BY DEF TypeOK, OrderStatuses
    <3> QED
      BY <3>1, <3>2 DEF TypeOK
  <2>2. payers' \in [Workers -> [at : Stages, order : Orders]]
    <3>1. [at |-> "called", order |-> o] \in [at : Stages, order : Orders]
      BY DEF Stages
    <3>2. payers' = [payers EXCEPT ![w] = [at |-> "called", order |-> o]]
      BY <1>1 DEF ConfirmReceived, ReleaseOrder
    <3> QED
      BY <3>1, <3>2 DEF TypeOK
  <2>3. disputes' \in [Orders -> DisputeStatuses]
    <3>1. disputes[o] \in DisputeStatuses /\ "released" \in DisputeStatuses
      BY DEF TypeOK, DisputeStatuses
    <3> QED
      BY <1>1, <3>1 DEF ConfirmReceived, ReleaseOrder, TypeOK
  <2>4. crossed' \subseteq Orders
    BY <1>1, CrossedTyped DEF ConfirmReceived, ReleaseOrder
  <2> QED
    BY <1>1, <2>1, <2>2, <2>3, <2>4 DEF ConfirmReceived, ReleaseOrder, TypeOK, stripeVars
<1>2. ASSUME NEW o \in Orders, RetryPayout(w, o) PROVE TypeOK'
  BY <1>2 DEF RetryPayout, TypeOK, Stages, rows, stripeVars
<1>3. CASE Claim(w)
  <2>1. payouts' \in [Orders -> PayoutRows]
    BY <1>3, PayoutTyped DEF Claim, PayoutStatuses, TypeOK
  <2>2. payers' \in [Workers -> [at : Stages, order : Orders]]
    BY <1>3, PayerTyped DEF Claim, Stages
  <2> QED
    BY <1>3, <2>1, <2>2 DEF Claim, TypeOK, stripeVars
<1>4. CASE Transfer(w)
  <2>1. transfers' \in
          [Orders -> [made : 0..MaxTransfers, fate : {"none", "live", "failed", "reversed"}]]
    BY <1>4, BoundAssumption DEF Transfer, TypeOK
  <2>2. payers' \in [Workers -> [at : Stages, order : Orders]]
    BY <1>4, PayerTyped DEF Transfer, Stages
  <2> QED
    BY <1>4, <2>1, <2>2 DEF Transfer, TypeOK, rows
<1>5. CASE Finalize(w)
  <2>1. ledger' \subseteq LedgerKeys
    BY <1>5, PostTyped DEF Finalize, TypeOK, TxnTypes
  <2>2. payouts' \in [Orders -> PayoutRows]
    <3> DEFINE o == payers[w].order
               row == [status |-> "released", transfer |-> transfers[o].made]
    <3>1. o \in Orders /\ transfers[o].made \in 0..MaxTransfers
      BY DEF TypeOK
    <3>2. row \in PayoutRows
      BY <3>1 DEF PayoutRows, PayoutStatuses
    <3>3. payouts' = payouts \/ payouts' = [payouts EXCEPT ![o] = row]
      BY <1>5 DEF Finalize
    <3> HIDE DEF o, row
    <3> QED
      BY <3>1, <3>2, <3>3, Zenon DEF TypeOK
  <2>3. payers' \in [Workers -> [at : Stages, order : Orders]]
    BY <1>5, PayerTyped DEF Finalize, Stages
  <2> QED
    BY <1>5, <2>1, <2>2, <2>3 DEF Finalize, TypeOK, stripeVars
<1>6. CASE MarkFailed(w)
  <2>1. payouts' \in [Orders -> PayoutRows]
    BY <1>6, PayoutTyped DEF MarkFailed, PayoutStatuses, TypeOK
  <2> QED
    BY <1>6, <2>1, PayerTyped DEF MarkFailed, TypeOK, Stages, stripeVars
<1> QED
  BY <1>1, <1>2, <1>3, <1>4, <1>5, <1>6 DEF PayoutStep

\* The requests that refund the collector.
LEMMA RefundStepsTyped ==
  ASSUME TypeOK, NEW a \in Admins, (\E o \in Orders : BeginRefund(a, o)) \/ RefundStep(a)
  PROVE  TypeOK'
<1>1. ASSUME NEW o \in Orders, BeginRefund(a, o) PROVE TypeOK'
  BY <1>1 DEF BeginRefund, TypeOK, RefundStages, rows, stripeVars
<1>2. CASE RefundBalance(a)
  <2>1. /\ refunds' \in [Orders -> SUBSET Refunds]
        /\ events' \in [Orders -> SUBSET EventTypes]
    <3>1. PICK o \in Orders : o = refunders[a].order
      BY DEF TypeOK
    <3>2. refunds' = refunds \/ refunds' = [refunds EXCEPT ![o] = @ \cup {"balance"}]
      BY <1>2, <3>1 DEF RefundBalance
    <3>3. events' = events \/ events' = [events EXCEPT ![o] = @ \cup {"refunded"}]
      BY <1>2, <3>1 DEF RefundBalance
    <3>4. refunds \in [Orders -> SUBSET Refunds] /\ refunds[o] \cup {"balance"} \in SUBSET Refunds
      BY DEF TypeOK, Refunds
    <3>5. events \in [Orders -> SUBSET EventTypes] /\ events[o] \cup {"refunded"} \in SUBSET EventTypes
      BY DEF TypeOK, EventTypes
    <3> QED
      BY <3>2, <3>3, <3>4, <3>5
  <2>2. refunders' \in [Admins -> [at : RefundStages, order : Orders]]
    BY <1>2, RefunderTyped DEF RefundBalance, AfterBalance, RefundStages
  <2> QED
    BY <1>2, <2>1, <2>2 DEF RefundBalance, TypeOK, rows
<1>3. CASE RefundPrepaid(a)
  <2>1. refunds' \in [Orders -> SUBSET Refunds]
    <3> DEFINE o == refunders[a].order
    <3>1. o \in Orders /\ refunds[o] \cup {"prepaid"} \in SUBSET Refunds
      BY DEF TypeOK, Refunds
    <3>2. refunds' = refunds \/ refunds' = [refunds EXCEPT ![o] = refunds[o] \cup {"prepaid"}]
      BY <1>3 DEF RefundPrepaid
    <3> HIDE DEF o
    <3> QED
      BY <3>1, <3>2, Zenon DEF TypeOK
  <2>2. refunders' \in [Admins -> [at : RefundStages, order : Orders]]
    BY <1>3, RefunderTyped DEF RefundPrepaid, RefundStages
  <2> QED
    BY <1>3, <2>1, <2>2 DEF RefundPrepaid, TypeOK, rows
<1>4. CASE RecordRefund(a)
  <2> DEFINE o == refunders[a].order
  <2>1. o \in Orders
    BY DEF TypeOK
  <2>2. refunders' \in [Admins -> [at : RefundStages, order : Orders]]
    BY <1>4, RefunderTyped DEF RecordRefund, RefundStages
  <2>3. CASE UNCHANGED rows
    BY <1>4, <2>2, <2>3 DEF RecordRefund, TypeOK, rows, stripeVars
  <2>4. CASE /\ SetStatus(o, "refunded") /\ Post("refund_issued", o)
             /\ disputes' = [disputes EXCEPT ![o] = IF @ = "none" THEN @ ELSE "refunded"]
             /\ payouts' = [payouts EXCEPT ![o].status = "blocked"]
             /\ UNCHANGED <<shipments, reviews>>
    <3>1. orders' \in [Orders -> [status : OrderStatuses, received : BOOLEAN, auctioned : BOOLEAN]]
      BY <2>1, <2>4, StatusTyped DEF OrderStatuses
    <3>2. ledger' \subseteq LedgerKeys
      BY <2>1, <2>4, PostTyped DEF TxnTypes
    <3>3. payouts' \in [Orders -> PayoutRows]
      BY <2>1, <2>4, PayoutTyped DEF PayoutStatuses
    <3>4. disputes' \in [Orders -> DisputeStatuses]
      BY <2>4 DEF TypeOK, DisputeStatuses
    <3> QED
      BY <1>4, <2>2, <2>4, <3>1, <3>2, <3>3, <3>4 DEF RecordRefund, TypeOK, stripeVars
  <2> QED
    BY <1>4, <2>3, <2>4 DEF RecordRefund
<1> QED
  BY <1>1, <1>2, <1>3, <1>4 DEF RefundStep

\* Stripe's events.
LEMMA WebhookTyped ==
  ASSUME TypeOK, NEW o \in Orders, Webhook(o)
  PROVE  TypeOK'
<1>1. ASSUME NEW e \in EventTypes, Acknowledge(o, e) PROVE events' \in [Orders -> SUBSET EventTypes]
  BY <1>1 DEF Acknowledge, TypeOK
<1>2. ASSUME NEW e \in EventTypes, OnChargeRefunded(o, e) PROVE TypeOK'
  <2>1. events' \in [Orders -> SUBSET EventTypes]
    BY <1>1, <1>2 DEF OnChargeRefunded
  <2>2. CASE UNCHANGED rows
    BY <1>2, <2>1, <2>2 DEF OnChargeRefunded, TypeOK, rows, calls
  <2>3. CASE /\ reviews' = reviews \cup {o}
             /\ UNCHANGED <<orders, shipments, disputes, payouts, ledger>>
    BY <1>2, <2>1, <2>3 DEF OnChargeRefunded, TypeOK, calls
  <2>4. CASE /\ SetStatus(o, "refunded") /\ Post("refund_issued", o)
             /\ UNCHANGED <<shipments, disputes, payouts, reviews>>
    <3>1. ledger' \subseteq LedgerKeys
      BY <2>4, PostTyped DEF TxnTypes
    <3>2. orders' \in [Orders -> [status : OrderStatuses, received : BOOLEAN, auctioned : BOOLEAN]]
      BY <2>4, StatusTyped DEF OrderStatuses
    <3> QED
      BY <1>2, <2>1, <2>4, <3>1, <3>2 DEF OnChargeRefunded, TypeOK, calls
  <2> QED
    BY <1>2, <2>2, <2>3, <2>4 DEF OnChargeRefunded
<1>3. ASSUME NEW e \in EventTypes, OnChargebackClosed(o, e) PROVE TypeOK'
  <2>1. payouts' \in [Orders -> PayoutRows]
    BY <1>3, PayoutTyped DEF OnChargebackClosed, PayoutStatuses, TypeOK
  <2> QED
    BY <1>1, <1>3, <2>1 DEF OnChargebackClosed, TypeOK, calls
<1>4. CASE OnChargebackOpened(o)
  <2>1. payouts' \in [Orders -> PayoutRows]
    BY <1>4, PayoutTyped DEF OnChargebackOpened, PayoutStatuses, TypeOK
  <2> QED
    BY <1>1, <1>4, <2>1 DEF OnChargebackOpened, TypeOK, calls, EventTypes
<1>5. CASE OnTransferFailed(o)
  <2>1. payouts' \in [Orders -> PayoutRows]
    BY <1>5, PayoutTyped DEF OnTransferFailed, PayoutStatuses, TypeOK
  <2> QED
    BY <1>1, <1>5, <2>1 DEF OnTransferFailed, TypeOK, calls, EventTypes
<1>6. CASE OnTransferReversed(o)
  <2>1. payouts' \in [Orders -> PayoutRows]
    BY <1>6, PayoutTyped DEF OnTransferReversed, PayoutStatuses, TypeOK
  <2>2. ledger' \subseteq LedgerKeys
    BY <1>6, PostTyped DEF OnTransferReversed, TxnTypes, TypeOK
  <2> QED
    BY <1>1, <1>6, <2>1, <2>2 DEF OnTransferReversed, TypeOK, calls, EventTypes
<1> QED
  BY <1>2, <1>3, <1>4, <1>5, <1>6 DEF Webhook

\* What happens at Stripe, at the bank and to the machine.
LEMMA OutsideTyped ==
  ASSUME TypeOK,
         \/ \E o \in Orders :
              \/ \E part \in BOOLEAN : RefundByHand(o, part)
              \/ OpenChargeback(o)
              \/ \E won \in BOOLEAN : CloseChargeback(o, won)
              \/ \E fate \in {"failed", "reversed"} : TransferReturns(o, fate)
         \/ \E ready \in BOOLEAN : OnAccountUpdated(ready)
         \/ StartOnboarding \/ OnboardingStatus \/ AccountChanges \/ Crash
  PROVE  TypeOK'
<1>1. ASSUME NEW o \in Orders, NEW part \in BOOLEAN, RefundByHand(o, part) PROVE TypeOK'
  BY <1>1 DEF RefundByHand, TypeOK, Refunds, EventTypes, rows, calls
<1>2. ASSUME NEW o \in Orders, OpenChargeback(o) PROVE TypeOK'
  BY <1>2 DEF OpenChargeback, TypeOK, EventTypes, rows, calls
<1>3. ASSUME NEW o \in Orders, NEW won \in BOOLEAN, CloseChargeback(o, won) PROVE TypeOK'
  BY <1>3 DEF CloseChargeback, TypeOK, EventTypes, rows, calls
<1>4. ASSUME NEW o \in Orders, NEW fate \in {"failed", "reversed"}, TransferReturns(o, fate)
      PROVE TypeOK'
  <2> DEFINE row == [transfers[o] EXCEPT !.fate = fate]
             type == IF fate = "failed" THEN "transfer_failed" ELSE "transfer_reversed"
  <2>1. row \in [made : 0..MaxTransfers, fate : {"none", "live", "failed", "reversed"}]
    BY DEF TypeOK
  <2>2. transfers' = [transfers EXCEPT ![o] = row]
    BY <1>4 DEF TransferReturns
  <2>3. events[o] \cup {type} \in SUBSET EventTypes
    BY DEF TypeOK, EventTypes
  <2>4. events' = [events EXCEPT ![o] = events[o] \cup {type}]
    BY <1>4 DEF TransferReturns
  <2> HIDE DEF row, type
  <2>5. transfers' \in
          [Orders -> [made : 0..MaxTransfers, fate : {"none", "live", "failed", "reversed"}]]
    BY <2>1, <2>2, Zenon DEF TypeOK
  <2>6. events' \in [Orders -> SUBSET EventTypes]
    BY <2>3, <2>4, Zenon DEF TypeOK
  <2> QED
    BY <1>4, <2>5, <2>6, Zenon DEF TransferReturns, TypeOK, rows, calls
<1>5. ASSUME NEW ready \in BOOLEAN, OnAccountUpdated(ready) PROVE TypeOK'
  BY <1>5 DEF OnAccountUpdated, TypeOK, rows, calls, stripeVars
<1>6. CASE StartOnboarding \/ OnboardingStatus \/ AccountChanges
  <2>1. seller' \in [account : BOOLEAN, enabled : BOOLEAN, ready : BOOLEAN, updates : SUBSET BOOLEAN]
    <3>1. CASE StartOnboarding
      BY <3>1 DEF StartOnboarding, TypeOK
    <3>2. CASE OnboardingStatus
      BY <3>2 DEF OnboardingStatus, PayoutsReady, TypeOK
    <3>3. CASE AccountChanges
      <4>1. PICK ready \in BOOLEAN : ready = ~seller.ready
        OBVIOUS
      <4>2. seller' = [seller EXCEPT !.ready = ready, !.updates = @ \cup {ready}]
        BY <3>3, <4>1 DEF AccountChanges
      <4> QED
        BY <4>2 DEF TypeOK
    <3> QED
      BY <1>6, <3>1, <3>2, <3>3
  <2> QED
    BY <1>6, <2>1 DEF StartOnboarding, OnboardingStatus, AccountChanges, TypeOK, rows, calls, stripeVars
<1>7. CASE Crash
  <2>1. payers' \in [Workers -> [at : Stages, order : Orders]]
    BY <1>7, PayerTyped DEF Crash, Stages, TypeOK
  <2>2. refunders' \in [Admins -> [at : RefundStages, order : Orders]]
    BY <1>7, RefunderTyped DEF Crash, RefundStages, TypeOK
  <2> QED
    BY <1>7, <2>1, <2>2 DEF Crash, TypeOK, rows, stripeVars
<1> QED
  BY <1>1, <1>2, <1>3, <1>4, <1>5, <1>6, <1>7

LEMMA StepTyped == TypeOK /\ [Next]_vars => TypeOK'
<1> SUFFICES ASSUME TypeOK, [Next]_vars PROVE TypeOK'
  OBVIOUS
<1>1. CASE UNCHANGED vars
  BY <1>1 DEF vars, rows, stripeVars, calls, TypeOK
<1>2. CASE Next
  BY <1>2, OrderStepsTyped, PayoutStepsTyped, RefundStepsTyped, WebhookTyped, OutsideTyped
  DEF Next
<1> QED
  BY <1>1, <1>2

\* Every row, and all that Stripe knows, keeps its type.
THEOREM Typed == Spec => []TypeOK
BY InitTyped, StepTyped, PTL DEF Spec

-----------------------------------------------------------------------------
(* What the steps do to the rows, said once. *)

\* Moving an order changes the status of that order only.
LEMMA StatusMoves ==
  ASSUME TypeOK, NEW o \in Orders, NEW s, SetStatus(o, s)
  PROVE  \A p \in Orders :
           /\ orders'[p].status = IF p = o THEN s ELSE orders[p].status
           /\ orders'[p].received = orders[p].received
           /\ orders'[p].auctioned = orders[p].auctioned
BY DEF TypeOK, SetStatus

\* A confirmation, or a ruling, completes the order and marks it received.
LEMMA Completes ==
  ASSUME TypeOK, NEW w \in Workers, NEW o \in Orders,
         ConfirmReceived(w, o) \/ ReleaseOrder(w, o)
  PROVE  /\ \A p \in Orders :
              /\ orders'[p].status = IF p = o THEN "completed" ELSE orders[p].status
              /\ p # o => orders'[p] = orders[p]
              /\ p = o => orders'[p].received
              /\ orders'[p].auctioned = orders[p].auctioned
         /\ orders[o].status \in {"disputed", "awaiting_confirmation"}
<1> DEFINE row == [status |-> "completed", received |-> TRUE, auctioned |-> orders[o].auctioned]
<1>1. orders' = [orders EXCEPT ![o] = row]
  BY DEF ConfirmReceived, ReleaseOrder, TypeOK
<1>2. orders[o].status \in {"disputed", "awaiting_confirmation"}
  BY DEF ConfirmReceived, ReleaseOrder
<1> QED
  BY <1>1, <1>2 DEF TypeOK

\* The courier's and the collector's other requests move an order along, and
\* nothing at Stripe.
LEMMA OrderStepMoves ==
  ASSUME NEW o \in Orders,
         \/ CreateShipment(o) \/ Delivered(o) \/ RecordCost(o) \/ ReportIssue(o) \/ Cancel(o)
  PROVE  /\ UNCHANGED <<payouts, stripeVars, calls>>
         /\ ledger' = ledger \/ Post("shipping_cost", o)
         /\ \/ orders' = orders
            \/ /\ \/ SetStatus(o, "shipped") \/ SetStatus(o, "awaiting_confirmation")
                  \/ SetStatus(o, "disputed") \/ SetStatus(o, "cancelled")
               /\ orders[o].status \in {"paid", "shipped", "awaiting_confirmation"}
<1>1. CASE CreateShipment(o)
  BY <1>1 DEF CreateShipment, Shipped
<1>2. CASE Delivered(o)
  BY <1>2 DEF Delivered, Arrived
<1>3. CASE RecordCost(o)
  BY <1>3 DEF RecordCost
<1>4. CASE ReportIssue(o) \/ Cancel(o)
  BY <1>4 DEF ReportIssue, Cancel
<1> QED
  BY <1>1, <1>2, <1>3, <1>4

\* The steps of a payout touch no order.
LEMMA PayoutKeepsOrders ==
  ASSUME NEW w \in Workers, PayoutStep(w)
  PROVE  UNCHANGED <<orders, refunds, chargebacks, events, refunders, crossed>>
BY DEF PayoutStep, Claim, Transfer, Finalize, MarkFailed, rows, stripeVars

\* The steps of a refund touch no transfer, and may move its order to "refunded".
LEMMA RefundKeepsTransfers ==
  ASSUME NEW a \in Admins, RefundStep(a)
  PROVE  /\ UNCHANGED <<transfers, chargebacks, payers, crossed>>
         /\ orders' = orders \/ SetStatus(refunders[a].order, "refunded")
BY DEF RefundStep, RefundBalance, RefundPrepaid, RecordRefund, rows, stripeVars

\* Neither do Stripe's events.
LEMMA WebhookKeepsTransfers ==
  ASSUME NEW o \in Orders, Webhook(o)
  PROVE  /\ UNCHANGED <<transfers, refunds, chargebacks, calls>>
         /\ \/ orders' = orders
            \/ /\ SetStatus(o, "refunded") /\ CanMove(o, "refunded")
               /\ "refunded" \in events[o] /\ ~orders[o].auctioned
<1>1. ASSUME NEW e \in EventTypes, OnChargeRefunded(o, e)
      PROVE  \/ orders' = orders
             \/ /\ SetStatus(o, "refunded") /\ CanMove(o, "refunded")
                /\ "refunded" \in events[o] /\ ~orders[o].auctioned
  BY <1>1 DEF OnChargeRefunded, CoversOrder, Pending, rows
<1>2. ASSUME NEW e \in EventTypes, OnChargeRefunded(o, e) \/ OnChargebackClosed(o, e)
      PROVE  UNCHANGED <<transfers, refunds, chargebacks, calls>>
  BY <1>2 DEF OnChargeRefunded, OnChargebackClosed
<1>3. ASSUME NEW e \in EventTypes, OnChargebackClosed(o, e) PROVE orders' = orders
  BY <1>3 DEF OnChargebackClosed
<1> QED
  BY <1>1, <1>2, <1>3 DEF Webhook, OnChargebackOpened, OnTransferFailed, OnTransferReversed

\* What happens at Stripe and at the bank makes no transfer and touches no row.
LEMMA OutsideKeeps ==
  ASSUME TypeOK,
         \/ \E o \in Orders :
              \/ \E part \in BOOLEAN : RefundByHand(o, part)
              \/ OpenChargeback(o)
              \/ \E won \in BOOLEAN : CloseChargeback(o, won)
              \/ \E fate \in {"failed", "reversed"} : TransferReturns(o, fate)
         \/ \E ready \in BOOLEAN : OnAccountUpdated(ready)
         \/ StartOnboarding \/ OnboardingStatus \/ AccountChanges
  PROVE  /\ UNCHANGED <<rows, payers, refunders>>
         /\ \A o \in Orders : transfers'[o].made = transfers[o].made
<1>1. ASSUME NEW o \in Orders, NEW part \in BOOLEAN, RefundByHand(o, part)
      PROVE  UNCHANGED <<rows, payers, refunders, transfers>>
  BY <1>1 DEF RefundByHand
<1>2. ASSUME NEW o \in Orders, OpenChargeback(o)
      PROVE  UNCHANGED <<rows, payers, refunders, transfers>>
  BY <1>2 DEF OpenChargeback, calls
<1>3. ASSUME NEW o \in Orders, NEW won \in BOOLEAN, CloseChargeback(o, won)
      PROVE  UNCHANGED <<rows, payers, refunders, transfers>>
  BY <1>3 DEF CloseChargeback, calls
<1>4. ASSUME NEW o \in Orders, NEW fate \in {"failed", "reversed"}, TransferReturns(o, fate)
      PROVE  /\ UNCHANGED <<rows, payers, refunders>>
             /\ \A p \in Orders : transfers'[p].made = transfers[p].made
  BY <1>4 DEF TransferReturns, TypeOK, calls
<1>5. ASSUME \/ \E ready \in BOOLEAN : OnAccountUpdated(ready)
             \/ StartOnboarding \/ OnboardingStatus \/ AccountChanges
      PROVE  UNCHANGED <<rows, payers, refunders, transfers>>
  BY <1>5 DEF OnAccountUpdated, StartOnboarding, OnboardingStatus, AccountChanges, stripeVars, calls
<1> QED
  BY <1>1, <1>2, <1>3, <1>4, <1>5

\* Requests die only as requests.
LEMMA CrashKeeps ==
  ASSUME TypeOK, Crash
  PROVE  /\ UNCHANGED <<rows, seller, stripeVars, crossed>>
         /\ \A w \in Workers :
              payers'[w].order = payers[w].order /\ payers'[w].at \in {payers[w].at, "idle"}
         /\ \A a \in Admins :
              refunders'[a].order = refunders[a].order /\ refunders'[a].at \in {refunders[a].at, "idle"}
<1>1. UNCHANGED <<rows, seller, stripeVars, crossed>>
  BY DEF Crash
<1>2. CASE \E w \in Workers : PayerTo(w, "idle") /\ UNCHANGED refunders
  BY <1>1, <1>2 DEF TypeOK, PayerTo
<1>3. CASE \E a \in Admins : RefunderTo(a, "idle") /\ UNCHANGED payers
  BY <1>1, <1>3 DEF TypeOK, RefunderTo
<1> QED
  BY <1>2, <1>3 DEF Crash

-----------------------------------------------------------------------------
(* Nobody is paid before the work was received, whatever the environment does. *)

\* Whoever has confirmed or been ruled for is known: the flag is set before the
\* order is completed, and a completed order before its payout is claimed.
ReceivedFirst ==
  /\ \A o \in Orders :
       orders[o].status = "completed" \/ transfers[o].made > 0 => orders[o].received
  /\ \A w \in Workers :
       payers[w].at \in {"claimed", "made", "refused"} => orders[payers[w].order].received

\* Orders that move anywhere but to "completed" leave it alone.
LEMMA MoveReceived ==
  ASSUME TypeOK, ReceivedFirst, NEW o \in Orders, NEW s, s # "completed",
         SetStatus(o, s), UNCHANGED <<transfers, payers>>
  PROVE  ReceivedFirst'
BY StatusMoves DEF ReceivedFirst, TypeOK

\* The steps of a payout.
LEMMA PayoutReceived ==
  ASSUME TypeOK, ReceivedFirst, NEW w \in Workers, PayoutStep(w)
  PROVE  ReceivedFirst'
<1>1. PICK o \in Orders : o = payers[w].order
  BY DEF TypeOK
<1>2. UNCHANGED orders
  BY PayoutKeepsOrders
<1>3. CASE Claim(w)
  <2>1. /\ UNCHANGED transfers
        /\ \E s \in Stages : PayerTo(w, s) /\ (s = "idle" \/ orders[o].status = "completed")
    BY <1>1, <1>3 DEF Claim, Claimable, Stages, stripeVars
  <2> QED
    BY <1>1, <1>2, <2>1 DEF ReceivedFirst, TypeOK, PayerTo
<1>4. CASE Transfer(w)
  <2>1. /\ payers[w].at = "claimed"
        /\ \E s \in Stages : PayerTo(w, s)
        /\ \A p \in Orders : p # o => transfers'[p] = transfers[p]
    BY <1>1, <1>4 DEF Transfer, TypeOK, Stages
  <2>2. /\ orders'[o].received
        /\ \A v \in Workers :
             /\ payers'[v].order = payers[v].order
             /\ payers'[v].at = payers[v].at \/ payers'[v].order = o
    BY <1>1, <1>2, <2>1 DEF ReceivedFirst, TypeOK, PayerTo
  <2> QED
    BY <1>2, <2>1, <2>2 DEF ReceivedFirst, TypeOK
<1>5. CASE Finalize(w) \/ MarkFailed(w)
  <2>1. UNCHANGED transfers /\ PayerTo(w, "idle")
    BY <1>5 DEF Finalize, MarkFailed, rows, stripeVars
  <2> QED
    BY <1>2, <2>1 DEF ReceivedFirst, TypeOK, PayerTo
<1> QED
  BY <1>3, <1>4, <1>5 DEF PayoutStep

LEMMA StepReceived == TypeOK /\ ReceivedFirst /\ [Next]_vars => ReceivedFirst'
<1> SUFFICES ASSUME TypeOK, ReceivedFirst, [Next]_vars PROVE ReceivedFirst'
  OBVIOUS
<1>1. ASSUME NEW o \in Orders,
             \/ CreateShipment(o) \/ Delivered(o) \/ RecordCost(o) \/ ReportIssue(o) \/ Cancel(o)
      PROVE  ReceivedFirst'
  <2>1. UNCHANGED <<transfers, payers>>
    BY <1>1, OrderStepMoves DEF stripeVars, calls
  <2>2. CASE orders' = orders
    BY <2>1, <2>2 DEF ReceivedFirst
  <2> QED
    BY <1>1, <2>1, <2>2, OrderStepMoves, MoveReceived
<1>2. ASSUME NEW o \in Orders, NEW w \in Workers, ConfirmReceived(w, o) \/ ReleaseOrder(w, o)
      PROVE  ReceivedFirst'
  <2>1. UNCHANGED transfers /\ payers' = [payers EXCEPT ![w] = [at |-> "called", order |-> o]]
    BY <1>2 DEF ConfirmReceived, ReleaseOrder, stripeVars
  <2>2. \A p \in Orders :
          /\ p # o => orders'[p] = orders[p]
          /\ p = o => orders'[p].received
    BY <1>2, Completes
  <2> QED
    BY <2>1, <2>2 DEF ReceivedFirst, TypeOK
<1>3. ASSUME NEW o \in Orders, NEW w \in Workers, RetryPayout(w, o) PROVE ReceivedFirst'
  BY <1>3 DEF RetryPayout, ReceivedFirst, TypeOK, rows, stripeVars
<1>4. ASSUME NEW w \in Workers, PayoutStep(w) PROVE ReceivedFirst'
  BY <1>4, PayoutReceived
<1>5. ASSUME NEW a \in Admins, (\E o \in Orders : BeginRefund(a, o)) \/ RefundStep(a)
      PROVE  ReceivedFirst'
  <2>1. UNCHANGED <<transfers, payers>>
        /\ (orders' = orders \/ SetStatus(refunders[a].order, "refunded"))
    BY <1>5, RefundKeepsTransfers DEF BeginRefund, rows, stripeVars
  <2>2. refunders[a].order \in Orders
    BY DEF TypeOK
  <2>3. CASE orders' = orders
    BY <2>1, <2>3 DEF ReceivedFirst
  <2> QED
    BY <2>1, <2>2, <2>3, MoveReceived
<1>6. ASSUME NEW o \in Orders, Webhook(o) PROVE ReceivedFirst'
  <2>1. UNCHANGED <<transfers, payers>> /\ (orders' = orders \/ SetStatus(o, "refunded"))
    BY <1>6, WebhookKeepsTransfers DEF calls
  <2>2. CASE orders' = orders
    BY <2>1, <2>2 DEF ReceivedFirst
  <2> QED
    BY <2>1, <2>2, MoveReceived
<1>7. CASE \/ \E o \in Orders :
                \/ \E part \in BOOLEAN : RefundByHand(o, part)
                \/ OpenChargeback(o)
                \/ \E won \in BOOLEAN : CloseChargeback(o, won)
                \/ \E fate \in {"failed", "reversed"} : TransferReturns(o, fate)
           \/ \E ready \in BOOLEAN : OnAccountUpdated(ready)
           \/ StartOnboarding \/ OnboardingStatus \/ AccountChanges
  BY <1>7, OutsideKeeps DEF ReceivedFirst, rows, calls
<1>8. CASE Crash
  BY <1>8, CrashKeeps DEF ReceivedFirst, TypeOK, rows, stripeVars
<1>9. CASE UNCHANGED vars
  BY <1>9 DEF vars, rows, stripeVars, calls, ReceivedFirst
<1> QED
  BY <1>1, <1>2, <1>3, <1>4, <1>5, <1>6, <1>7, <1>8, <1>9 DEF Next

LEMMA InitReceived == Init => ReceivedFirst
<1> SUFFICES ASSUME Init PROVE ReceivedFirst
  OBVIOUS
<1>1. \A o \in Orders : orders[o].status = "paid" /\ transfers[o].made = 0
  BY DEF Init
<1>2. \A w \in Workers : payers[w].at = "idle"
  BY DEF Init
<1> QED
  BY <1>1, <1>2 DEF ReceivedFirst

\* No artist is sent money for an order that was not received, under every hazard.
THEOREM PaidOnceReceived == Spec => []PaidOutWasDelivered
<1>1. ReceivedFirst => PaidOutWasDelivered
  BY DEF ReceivedFirst, PaidOutWasDelivered
<1> QED
  BY <1>1, InitReceived, InitTyped, StepTyped, StepReceived, PTL DEF Spec

-----------------------------------------------------------------------------
(* Rows match the books, whatever the environment does. *)

\* A refunded order is a booked refund.
RefundBooked == \A o \in Orders : orders[o].status = "refunded" <=> Posted("refund_issued", o)

\* A recorded transfer is a booked payout, and only a recorded one is booked as
\* reversed.
PayoutBooked ==
  \A o \in Orders :
    /\ payouts[o].transfer # 0 => Posted("payout_released", o)
    /\ payouts[o].status = "released" => payouts[o].transfer # 0
    /\ Posted("transfer_reversed", o) => Posted("payout_released", o)

\* A request that goes on to record a transfer has one to record.
MadeIsMade == \A w \in Workers : payers[w].at = "made" => transfers[payers[w].order].made > 0

\* Posting adds the one transaction.
LEMMA PostAdds ==
  ASSUME NEW o, NEW type, Post(type, o)
  PROVE  \A p, t : Posted(t, p)' <=> Posted(t, p) \/ (t = type /\ p = o)
BY DEF Post, Posted, Txn

\* A payout row changed by anything but _finalize is not released, and keeps its
\* transfer.
Demoted(o) ==
  \/ payouts' = payouts
  \/ \E s \in PayoutStatuses \ {"released"} : payouts' = [payouts EXCEPT ![o].status = s]

LEMMA DemotedBooked ==
  ASSUME TypeOK, PayoutBooked, NEW o \in Orders, Demoted(o), ledger \subseteq ledger',
         \A p \in Orders : Posted("transfer_reversed", p)' =>
           Posted("transfer_reversed", p) \/ payouts[p].transfer # 0
  PROVE  PayoutBooked'
<1>1. \A p \in Orders :
        /\ payouts'[p].transfer = payouts[p].transfer
        /\ payouts'[p].status = "released" => payouts[p].status = "released"
  <2>1. CASE payouts' = payouts
    BY <2>1
  <2>2. ASSUME NEW s \in PayoutStatuses \ {"released"},
               payouts' = [payouts EXCEPT ![o].status = s]
        PROVE  \A p \in Orders :
                 /\ payouts'[p].transfer = payouts[p].transfer
                 /\ payouts'[p].status = "released" => payouts[p].status = "released"
    BY <2>2 DEF TypeOK, PayoutRows
  <2> QED
    BY <2>1, <2>2 DEF Demoted
<1>2. \A p \in Orders : Posted("payout_released", p) => Posted("payout_released", p)'
  BY DEF Posted
<1> QED
  BY <1>1, <1>2 DEF PayoutBooked

\* What the steps of refunds and the webhooks post.
LEMMA RefundPosts ==
  ASSUME NEW a \in Admins, RefundStep(a)
  PROVE  LET o == refunders[a].order IN
         /\ Demoted(o)
         /\ \/ UNCHANGED <<orders, ledger>>
            \/ SetStatus(o, "refunded") /\ Post("refund_issued", o)
BY DEF RefundStep, RefundBalance, RefundPrepaid, RecordRefund, rows, Demoted, PayoutStatuses

LEMMA WebhookPosts ==
  ASSUME NEW o \in Orders, Webhook(o)
  PROVE  /\ Demoted(o)
         /\ \/ UNCHANGED <<orders, ledger>>
            \/ SetStatus(o, "refunded") /\ Post("refund_issued", o)
            \/ UNCHANGED orders /\ Recorded(o) /\ Post("transfer_reversed", o)
<1>1. ASSUME NEW e \in EventTypes, OnChargeRefunded(o, e)
      PROVE  /\ payouts' = payouts
             /\ \/ UNCHANGED <<orders, ledger>>
                \/ SetStatus(o, "refunded") /\ Post("refund_issued", o)
  BY <1>1 DEF OnChargeRefunded, rows
<1>2. ASSUME NEW e \in EventTypes, OnChargebackClosed(o, e)
      PROVE  Demoted(o) /\ UNCHANGED <<orders, ledger>>
  BY <1>2 DEF OnChargebackClosed, Demoted, PayoutStatuses
<1>3. CASE OnChargebackOpened(o) \/ OnTransferFailed(o) \/ OnTransferReversed(o)
  BY <1>3 DEF OnChargebackOpened, OnTransferFailed, OnTransferReversed, Demoted, PayoutStatuses
<1> QED
  BY <1>1, <1>2, <1>3 DEF Webhook, Demoted

LEMMA PayoutPosts ==
  ASSUME NEW w \in Workers, PayoutStep(w)
  PROVE  LET o == payers[w].order IN
         \/ Demoted(o) /\ UNCHANGED ledger
         \/ /\ payers[w].at = "made" /\ payouts[o].status # "released"
            /\ payouts' = [payouts EXCEPT ![o] =
                             [status |-> "released", transfer |-> transfers[o].made]]
            /\ Post("payout_released", o)
BY DEF PayoutStep, Claim, Transfer, Finalize, MarkFailed, rows, Demoted, PayoutStatuses

LEMMA StepMade == TypeOK /\ MadeIsMade /\ [Next]_vars => MadeIsMade'
<1> SUFFICES ASSUME TypeOK, MadeIsMade, [Next]_vars PROVE MadeIsMade'
  OBVIOUS
<1>1. ASSUME NEW w \in Workers, PayoutStep(w) PROVE MadeIsMade'
  <2>1. PICK o \in Orders : o = payers[w].order
    BY DEF TypeOK
  <2>2. CASE Transfer(w)
    <3>1. /\ \A p \in Orders : transfers'[p].made >= transfers[p].made
          /\ \E s \in Stages : PayerTo(w, s) /\ (s = "made" => transfers'[o].made > 0)
      BY <2>1, <2>2 DEF Transfer, TransferExists, TypeOK, Stages
    <3>2. \A v \in Workers :
            /\ payers'[v].order = payers[v].order
            /\ payers'[v].at = "made" =>
                 payers[v].at = "made" \/ (v = w /\ transfers'[o].made > 0)
      BY <3>1 DEF TypeOK, PayerTo
    <3>3. \A p \in Orders : transfers[p].made > 0 => transfers'[p].made > 0
      <4> TAKE p \in Orders
      <4>1. transfers[p].made \in Int
        BY DEF TypeOK
      <4>2. transfers'[p].made \in Int
        BY StepTyped DEF TypeOK
      <4> QED
        BY <3>1, <4>1, <4>2
    <3> QED
      BY <2>1, <3>2, <3>3 DEF MadeIsMade, TypeOK
  <2>3. CASE Claim(w) \/ Finalize(w) \/ MarkFailed(w)
    <3>1. UNCHANGED transfers /\ \E s \in {"idle", "claimed"} : PayerTo(w, s)
      BY <2>3 DEF Claim, Finalize, MarkFailed, rows, stripeVars
    <3>2. \A v \in Workers :
            /\ payers'[v].order = payers[v].order
            /\ payers'[v].at = "made" => payers[v].at = "made"
      BY <3>1 DEF TypeOK, PayerTo
    <3> QED
      BY <3>1, <3>2 DEF MadeIsMade
  <2> QED
    BY <1>1, <2>2, <2>3 DEF PayoutStep
<1>2. ASSUME NEW o \in Orders, NEW w \in Workers,
             ConfirmReceived(w, o) \/ ReleaseOrder(w, o) \/ RetryPayout(w, o)
      PROVE  MadeIsMade'
  <2>1. UNCHANGED transfers /\ payers' = [payers EXCEPT ![w] = [at |-> "called", order |-> o]]
    BY <1>2 DEF ConfirmReceived, ReleaseOrder, RetryPayout, stripeVars
  <2> QED
    BY <2>1 DEF MadeIsMade, TypeOK
<1>3. ASSUME NEW a \in Admins, (\E o \in Orders : BeginRefund(a, o)) \/ RefundStep(a)
      PROVE  UNCHANGED <<transfers, payers>>
  BY <1>3, RefundKeepsTransfers DEF BeginRefund, stripeVars
<1>4. ASSUME NEW o \in Orders, 
             \/ CreateShipment(o) \/ Delivered(o) \/ RecordCost(o) \/ ReportIssue(o) \/ Cancel(o)
             \/ Webhook(o)
      PROVE  UNCHANGED <<transfers, payers>>
  BY <1>4, WebhookKeepsTransfers, OrderStepMoves DEF stripeVars, calls
<1>5. CASE UNCHANGED <<transfers, payers>>
  BY <1>5 DEF MadeIsMade
<1>6. CASE \/ \E o \in Orders :
                \/ \E part \in BOOLEAN : RefundByHand(o, part)
                \/ OpenChargeback(o)
                \/ \E won \in BOOLEAN : CloseChargeback(o, won)
                \/ \E fate \in {"failed", "reversed"} : TransferReturns(o, fate)
           \/ \E ready \in BOOLEAN : OnAccountUpdated(ready)
           \/ StartOnboarding \/ OnboardingStatus \/ AccountChanges
  BY <1>6, OutsideKeeps DEF MadeIsMade, TypeOK, calls
<1>7. CASE Crash
  BY <1>7, CrashKeeps DEF MadeIsMade, TypeOK, stripeVars
<1>8. CASE UNCHANGED vars
  BY <1>5, <1>8 DEF vars, stripeVars, calls
<1> QED
  BY <1>1, <1>2, <1>3, <1>4, <1>5, <1>6, <1>7, <1>8 DEF Next

LEMMA StepPayoutBooked == TypeOK /\ PayoutBooked /\ MadeIsMade /\ [Next]_vars => PayoutBooked'
<1> SUFFICES ASSUME TypeOK, PayoutBooked, MadeIsMade, [Next]_vars PROVE PayoutBooked'
  OBVIOUS
<1>1. CASE UNCHANGED <<payouts, ledger>>
  BY <1>1 DEF PayoutBooked, Posted
<1>2. ASSUME NEW o \in Orders,
             \/ CreateShipment(o) \/ Delivered(o) \/ RecordCost(o) \/ ReportIssue(o) \/ Cancel(o)
      PROVE  PayoutBooked'
  <2>1. payouts' = payouts /\ (ledger' = ledger \/ Post("shipping_cost", o))
    BY <1>2, OrderStepMoves
  <2>2. CASE Post("shipping_cost", o)
    BY <2>1, <2>2, PostAdds DEF PayoutBooked
  <2> QED
    BY <1>1, <2>1, <2>2
<1>3. ASSUME NEW w \in Workers, PayoutStep(w) PROVE PayoutBooked'
  <2>1. PICK o \in Orders : o = payers[w].order
    BY DEF TypeOK
  <2>2. CASE Demoted(o) /\ UNCHANGED ledger
    BY <2>2, DemotedBooked DEF Posted
  <2>3. CASE /\ payers[w].at = "made"
             /\ payouts' = [payouts EXCEPT ![o] =
                              [status |-> "released", transfer |-> transfers[o].made]]
             /\ Post("payout_released", o)
    <3>1. transfers[o].made # 0
      BY <2>1, <2>3 DEF MadeIsMade, TypeOK
    <3>2. \A p \in Orders :
            /\ p # o => payouts'[p] = payouts[p]
            /\ payouts'[o].transfer # 0
      BY <2>3, <3>1 DEF TypeOK
    <3>3. \A p \in Orders :
            /\ Posted("payout_released", p)' <=> Posted("payout_released", p) \/ p = o
            /\ Posted("transfer_reversed", p)' <=> Posted("transfer_reversed", p)
      BY <2>3, PostAdds
    <3> QED
      BY <3>2, <3>3 DEF PayoutBooked
  <2> QED
    BY <1>3, <2>1, <2>2, <2>3, PayoutPosts
<1>4. ASSUME NEW a \in Admins, RefundStep(a) PROVE PayoutBooked'
  <2>1. PICK o \in Orders : o = refunders[a].order
    BY DEF TypeOK
  <2>2. Demoted(o) /\ (UNCHANGED ledger \/ Post("refund_issued", o))
    BY <1>4, <2>1, RefundPosts
  <2>3. ledger \subseteq ledger'
    BY <2>2 DEF Post
  <2>4. \A p \in Orders : Posted("transfer_reversed", p)' => Posted("transfer_reversed", p)
    BY <2>2, PostAdds DEF Posted
  <2> QED
    BY <2>2, <2>3, <2>4, DemotedBooked
<1>5. ASSUME NEW o \in Orders, Webhook(o) PROVE PayoutBooked'
  <2>1. /\ Demoted(o)
        /\ \/ UNCHANGED ledger \/ Post("refund_issued", o)
           \/ Recorded(o) /\ Post("transfer_reversed", o)
    BY <1>5, WebhookPosts
  <2>2. ledger \subseteq ledger'
    BY <2>1 DEF Post
  <2>3. \A p \in Orders : Posted("transfer_reversed", p)' =>
          Posted("transfer_reversed", p) \/ payouts[p].transfer # 0
    BY <2>1, PostAdds DEF Posted, Recorded
  <2> QED
    BY <2>1, <2>2, <2>3, DemotedBooked
<1>6. ASSUME \/ \E o \in Orders, w \in Workers :
                  ConfirmReceived(w, o) \/ ReleaseOrder(w, o) \/ RetryPayout(w, o)
             \/ \E o \in Orders, a \in Admins : BeginRefund(a, o)
             \/ Crash \/ UNCHANGED vars
      PROVE  UNCHANGED <<payouts, ledger>>
  BY <1>6 DEF ConfirmReceived, ReleaseOrder, RetryPayout, BeginRefund, Crash, vars, rows
<1>7. CASE \/ \E o \in Orders :
                \/ \E part \in BOOLEAN : RefundByHand(o, part)
                \/ OpenChargeback(o)
                \/ \E won \in BOOLEAN : CloseChargeback(o, won)
                \/ \E fate \in {"failed", "reversed"} : TransferReturns(o, fate)
           \/ \E ready \in BOOLEAN : OnAccountUpdated(ready)
           \/ StartOnboarding \/ OnboardingStatus \/ AccountChanges
  BY <1>1, <1>7, OutsideKeeps DEF rows
<1> QED
  BY <1>1, <1>2, <1>3, <1>4, <1>5, <1>6, <1>7 DEF Next

LEMMA StepRefundBooked == TypeOK /\ RefundBooked /\ [Next]_vars => RefundBooked'
<1> SUFFICES ASSUME TypeOK, RefundBooked, [Next]_vars PROVE RefundBooked'
  OBVIOUS
<1>1. CASE UNCHANGED <<orders, ledger>>
  BY <1>1 DEF RefundBooked, Posted
<1>2. ASSUME NEW o \in Orders,
             \/ CreateShipment(o) \/ Delivered(o) \/ RecordCost(o) \/ ReportIssue(o) \/ Cancel(o)
      PROVE  RefundBooked'
  <2>1. \A p \in Orders : Posted("refund_issued", p)' <=> Posted("refund_issued", p)
    BY <1>2, OrderStepMoves, PostAdds DEF Posted
  <2>2. \A p \in Orders : orders'[p].status = "refunded" <=> orders[p].status = "refunded"
    BY <1>2, OrderStepMoves, StatusMoves
  <2> QED
    BY <2>1, <2>2 DEF RefundBooked
<1>3. ASSUME NEW o \in Orders, NEW w \in Workers, ConfirmReceived(w, o) \/ ReleaseOrder(w, o)
      PROVE  RefundBooked'
  <2>1. ledger' = ledger
    BY <1>3 DEF ConfirmReceived, ReleaseOrder
  <2> QED
    BY <1>3, <2>1, Completes DEF RefundBooked, Posted
<1>4. ASSUME NEW w \in Workers, PayoutStep(w) PROVE RefundBooked'
  <2>1. PICK o \in Orders : o = payers[w].order
    BY DEF TypeOK
  <2>2. \A p \in Orders : Posted("refund_issued", p)' <=> Posted("refund_issued", p)
    BY <1>4, <2>1, PayoutPosts, PostAdds DEF Posted
  <2> QED
    BY <1>4, <2>2, PayoutKeepsOrders DEF RefundBooked
<1>5. ASSUME NEW o \in Orders, SetStatus(o, "refunded"), Post("refund_issued", o)
      PROVE  RefundBooked'
  BY <1>5, StatusMoves, PostAdds DEF RefundBooked
<1>6. ASSUME NEW a \in Admins, RefundStep(a) PROVE RefundBooked'
  <2>1. PICK o \in Orders : o = refunders[a].order
    BY DEF TypeOK
  <2> QED
    BY <1>1, <1>5, <1>6, <2>1, RefundPosts
<1>7. ASSUME NEW o \in Orders, Webhook(o) PROVE RefundBooked'
  <2>1. CASE UNCHANGED orders /\ Post("transfer_reversed", o)
    BY <2>1, PostAdds DEF RefundBooked
  <2> QED
    BY <1>1, <1>5, <1>7, <2>1, WebhookPosts
<1>8. ASSUME \/ \E o \in Orders, w \in Workers : RetryPayout(w, o)
             \/ \E o \in Orders, a \in Admins : BeginRefund(a, o)
             \/ Crash \/ UNCHANGED vars
      PROVE  UNCHANGED <<orders, ledger>>
  BY <1>8 DEF RetryPayout, BeginRefund, Crash, vars, rows
<1>9. CASE \/ \E o \in Orders :
                \/ \E part \in BOOLEAN : RefundByHand(o, part)
                \/ OpenChargeback(o)
                \/ \E won \in BOOLEAN : CloseChargeback(o, won)
                \/ \E fate \in {"failed", "reversed"} : TransferReturns(o, fate)
           \/ \E ready \in BOOLEAN : OnAccountUpdated(ready)
           \/ StartOnboarding \/ OnboardingStatus \/ AccountChanges
  BY <1>1, <1>9, OutsideKeeps DEF rows
<1> QED
  BY <1>1, <1>2, <1>3, <1>4, <1>6, <1>7, <1>8, <1>9 DEF Next

\* Nothing is booked at the start but the payment.
LEMMA InitBooked == Init => PayoutBooked /\ RefundBooked /\ MadeIsMade
<1> SUFFICES ASSUME Init PROVE PayoutBooked /\ RefundBooked /\ MadeIsMade
  OBVIOUS
<1>1. \A o \in Orders : orders[o].status = "paid" /\ payouts[o] = [status |-> "pending", transfer |-> 0]
  BY DEF Init
<1>2. \A w \in Workers : payers[w].at = "idle"
  BY DEF Init
<1>3. \A o \in Orders : \A t \in {"refund_issued", "payout_released", "transfer_reversed"} :
        ~Posted(t, o)
  BY DEF Init, Posted, Txn
<1> QED
  BY <1>1, <1>2, <1>3 DEF PayoutBooked, RefundBooked, MadeIsMade

\* A payout and a refund are what their bookings say, under every hazard.
THEOREM RowsAreBooked == Spec => []RowsMatchBooks
<1>1. TypeOK /\ PayoutBooked /\ RefundBooked => RowsMatchBooks
  BY DEF TypeOK, PayoutRows, PayoutBooked, RefundBooked, RowsMatchBooks
<1> QED
  BY <1>1, InitTyped, StepTyped, InitBooked, StepPayoutBooked, StepRefundBooked, StepMade, PTL
  DEF Spec

-----------------------------------------------------------------------------
(* One transfer. *)

\* Stripe finds a transfer it made, so it makes no other, whoever asks again.
THEOREM PaidOnce ==
  ASSUME "amnesia" \notin Hazards
  PROVE  Spec => []OneTransfer
<1>1. Init => OneTransfer
  BY DEF Init, OneTransfer
<1>2. TypeOK /\ OneTransfer /\ [Next]_vars => OneTransfer'
  <2> SUFFICES ASSUME TypeOK, OneTransfer, [Next]_vars PROVE OneTransfer'
    OBVIOUS
  <2>1. CASE \A o \in Orders : transfers'[o].made = transfers[o].made
    BY <2>1 DEF OneTransfer
  <2>2. ASSUME NEW w \in Workers, Transfer(w) PROVE OneTransfer'
    <3>1. PICK o \in Orders : o = payers[w].order
      BY DEF TypeOK
    <3>2. CASE UNCHANGED transfers
      BY <2>1, <3>2
    <3>3. CASE /\ transfers[o].made = 0
               /\ transfers' = [transfers EXCEPT ![o] = [made |-> @.made + 1, fate |-> "live"]]
      BY <3>3 DEF OneTransfer, TypeOK
    <3>4. transfers[o].made \in Nat
      BY BoundAssumption DEF TypeOK
    <3> QED
      BY <2>2, <3>1, <3>2, <3>3, <3>4 DEF Transfer, TransferExists
  <2>3. ASSUME \/ \E o \in Orders :
                    \/ CreateShipment(o) \/ Delivered(o) \/ RecordCost(o)
                    \/ ReportIssue(o) \/ Cancel(o) \/ Webhook(o)
               \/ \E a \in Admins : RefundStep(a)
        PROVE  UNCHANGED transfers
    BY <2>3, OrderStepMoves, WebhookKeepsTransfers, RefundKeepsTransfers DEF stripeVars
  <2>4. ASSUME \/ \E o \in Orders, w \in Workers :
                    ConfirmReceived(w, o) \/ ReleaseOrder(w, o) \/ RetryPayout(w, o)
               \/ \E w \in Workers : Claim(w) \/ Finalize(w) \/ MarkFailed(w)
               \/ \E o \in Orders, a \in Admins : BeginRefund(a, o)
               \/ Crash \/ UNCHANGED vars
        PROVE  UNCHANGED transfers
    BY <2>4 DEF ConfirmReceived, ReleaseOrder, RetryPayout, Claim, Finalize, MarkFailed,
                BeginRefund, Crash, vars, stripeVars
  <2>5. CASE \/ \E o \in Orders :
                  \/ \E part \in BOOLEAN : RefundByHand(o, part)
                  \/ OpenChargeback(o)
                  \/ \E won \in BOOLEAN : CloseChargeback(o, won)
                  \/ \E fate \in {"failed", "reversed"} : TransferReturns(o, fate)
             \/ \E ready \in BOOLEAN : OnAccountUpdated(ready)
             \/ StartOnboarding \/ OnboardingStatus \/ AccountChanges
    BY <2>1, <2>5, OutsideKeeps
  <2> QED
    BY <2>1, <2>2, <2>3, <2>4, <2>5 DEF Next, PayoutStep
<1> QED
  BY <1>1, <1>2, InitTyped, StepTyped, PTL DEF Spec

-----------------------------------------------------------------------------
(* One way, unless a completion and a refund cross, whatever the environment does. *)

\* A received order stays one: it is completed, or was refunded after that.  If a
\* refund of it runs, or went through, it is one of the crossed.
OneWay ==
  \A o \in Orders :
    /\ orders[o].received => orders[o].status \in {"completed", "refunded"}
    /\ orders[o].received /\ (Refunding(o) \/ refunds[o] # {}) => o \in crossed
    /\ o \in crossed => orders[o].received
    /\ transfers[o].fate # "none" => transfers[o].made > 0

\* A step that crosses nothing, and begins or makes no refund of a received order.
LEMMA NothingCrosses ==
  ASSUME OneWay, UNCHANGED crossed,
         \A o \in Orders :
           /\ orders'[o].received = orders[o].received
           /\ orders[o].received => orders'[o].status \in {"completed", "refunded"}
           /\ orders[o].received /\ Refunding(o)' => Refunding(o)
           /\ orders[o].received /\ refunds'[o] # {} => Refunding(o) \/ refunds[o] # {}
           /\ transfers'[o].fate # "none" => transfers'[o].made > 0
  PROVE  OneWay'
BY DEF OneWay

\* Transfers that stay what they are, or come back.
LEMMA SameTransfers ==
  ASSUME OneWay,
         \A o \in Orders :
           /\ transfers'[o].made = transfers[o].made
           /\ transfers'[o].fate # "none" => transfers[o].fate # "none"
  PROVE  \A o \in Orders : transfers'[o].fate # "none" => transfers'[o].made > 0
BY DEF OneWay

\* Completing an order, over a refund or not.
LEMMA CompleteOneWay ==
  ASSUME TypeOK, OneWay, NEW w \in Workers, NEW o \in Orders,
         ConfirmReceived(w, o) \/ ReleaseOrder(w, o)
  PROVE  OneWay'
<1>1. UNCHANGED <<stripeVars, refunders>> /\ CompletedOver(o)
  BY DEF ConfirmReceived, ReleaseOrder
<1>2. \A p \in Orders : Refunding(p)' <=> Refunding(p)
  BY <1>1 DEF Refunding
<1>3. \A p \in Orders :
        /\ p # o => (p \in crossed' <=> p \in crossed)
        /\ p \in crossed => p \in crossed'
  BY <1>1 DEF CompletedOver
<1>4. Refunding(o) \/ refunds[o] # {} => o \in crossed'
  BY <1>1 DEF CompletedOver
<1>5. /\ orders'[o].status = "completed" /\ orders'[o].received
      /\ \A p \in Orders : p # o => orders'[p] = orders[p]
  BY Completes
<1> QED
  BY <1>1, <1>2, <1>3, <1>4, <1>5 DEF OneWay, stripeVars

\* A refund made by hand, of an order that was received or of one that was not.
LEMMA ByHandOneWay ==
  ASSUME TypeOK, OneWay, NEW o \in Orders, NEW part \in BOOLEAN, RefundByHand(o, part)
  PROVE  OneWay'
<1>1. UNCHANGED <<orders, transfers, refunders>>
  BY DEF RefundByHand, rows
<1>2. \A p \in Orders : Refunding(p)' <=> Refunding(p)
  BY <1>1 DEF Refunding
<1>3. crossed' = IF orders[o].received THEN crossed \cup {o} ELSE crossed
  BY DEF RefundByHand
<1>4. \A p \in Orders : p # o => refunds'[p] = refunds[p]
  BY DEF RefundByHand, TypeOK
<1> QED
  BY <1>1, <1>2, <1>3, <1>4 DEF OneWay

\* The requests that refund: one begins only of an order that was not received.
LEMMA RefundOneWay ==
  ASSUME TypeOK, OneWay, NEW a \in Admins, (\E o \in Orders : BeginRefund(a, o)) \/ RefundStep(a)
  PROVE  OneWay'
<1>1. UNCHANGED <<transfers, crossed>>
  BY RefundKeepsTransfers DEF BeginRefund, stripeVars
<1>2. \A p \in Orders : transfers'[p].fate # "none" => transfers'[p].made > 0
  BY <1>1, SameTransfers
<1>3. ASSUME NEW o \in Orders, BeginRefund(a, o) PROVE OneWay'
  <2>1. UNCHANGED <<orders, refunds>>
    BY <1>3 DEF BeginRefund, rows, stripeVars
  <2>2. ~orders[o].received
    BY <1>3 DEF BeginRefund, MayRefund, RefundableStatuses, OneWay
  <2>3. \A b \in Admins : b # a => refunders'[b] = refunders[b]
    BY <1>3 DEF BeginRefund, TypeOK
  <2>4. refunders'[a].order = o
    BY <1>3 DEF BeginRefund, TypeOK
  <2>5. \A p \in Orders : p # o /\ Refunding(p)' => Refunding(p)
    BY <2>3, <2>4 DEF Refunding
  <2>6. \A p \in Orders : orders[p].received => p # o
    BY <2>2
  <2>7. \A p \in Orders : orders[p].received => orders'[p].status \in {"completed", "refunded"}
    BY <2>1 DEF OneWay
  <2> QED
    BY <1>1, <1>2, <2>1, <2>5, <2>6, <2>7, NothingCrosses
<1>4. CASE RefundStep(a)
  <2> PICK o \in Orders : o = refunders[a].order
    BY DEF TypeOK
  <2>1. Refunding(o)
    BY <1>4 DEF Refunding, RefundStep, RefundBalance, RefundPrepaid, RecordRefund
  <2>2. \A p \in Orders : p # o => refunds'[p] = refunds[p]
    BY <1>4 DEF RefundStep, RefundBalance, RefundPrepaid, RecordRefund, stripeVars, TypeOK
  <2>3. \E s \in RefundStages : RefunderTo(a, s)
    BY <1>4 DEF RefundStep, RefundBalance, RefundPrepaid, RecordRefund, RefundStages, AfterBalance
  <2>4. \A b \in Admins :
          /\ refunders'[b].order = refunders[b].order
          /\ b # a => refunders'[b].at = refunders[b].at
    BY <2>3 DEF RefunderTo, TypeOK
  <2>5. \A p \in Orders : p # o /\ Refunding(p)' => Refunding(p)
    BY <2>4 DEF Refunding
  <2>6. orders' = orders \/ SetStatus(o, "refunded")
    BY <1>4, RefundKeepsTransfers
  <2>7. \A p \in Orders :
          /\ orders'[p].received = orders[p].received
          /\ orders'[p].status \in {orders[p].status, "refunded"}
    BY <2>6, StatusMoves
  <2>8. \A p \in Orders : orders[p].received => orders'[p].status \in {"completed", "refunded"}
    BY <2>7 DEF OneWay
  <2> QED
    BY <1>1, <1>2, <2>1, <2>2, <2>5, <2>7, <2>8, NothingCrosses
<1> QED
  BY <1>3, <1>4

\* The steps of a payout.
LEMMA PayoutOneWay ==
  ASSUME TypeOK, OneWay, NEW w \in Workers, PayoutStep(w)
  PROVE  OneWay'
<1> PICK o \in Orders : o = payers[w].order
  BY DEF TypeOK
<1>1. UNCHANGED <<orders, refunds, refunders, crossed>>
  BY PayoutKeepsOrders
<1>2. \A p \in Orders : Refunding(p)' <=> Refunding(p)
  BY <1>1 DEF Refunding
<1>3. \/ UNCHANGED transfers
      \/ transfers' = [transfers EXCEPT ![o] = [made |-> @.made + 1, fate |-> "live"]]
  BY DEF PayoutStep, Claim, Transfer, Finalize, MarkFailed, rows, stripeVars
<1>4. \A p \in Orders : transfers'[p].fate # "none" => transfers'[p].made > 0
  <2>1. CASE UNCHANGED transfers
    BY <2>1, SameTransfers
  <2>2. CASE transfers' = [transfers EXCEPT ![o] = [made |-> @.made + 1, fate |-> "live"]]
    <3>1. transfers'[o].made = transfers[o].made + 1
      BY <2>2 DEF TypeOK
    <3>2. transfers[o].made \in Nat
      BY BoundAssumption DEF TypeOK
    <3>3. transfers'[o].made > 0
      BY <3>1, <3>2
    <3>4. \A p \in Orders : p # o => transfers'[p] = transfers[p]
      BY <2>2
    <3> QED
      BY <3>3, <3>4 DEF OneWay
  <2> QED
    BY <1>3, <2>1, <2>2
<1>5. \A p \in Orders : orders[p].received => orders'[p].status \in {"completed", "refunded"}
  BY <1>1 DEF OneWay
<1> QED
  BY <1>1, <1>2, <1>4, <1>5, NothingCrosses

LEMMA StepOneWay == TypeOK /\ OneWay /\ [Next]_vars => OneWay'
<1> SUFFICES ASSUME TypeOK, OneWay, [Next]_vars PROVE OneWay'
  OBVIOUS
<1>1. ASSUME UNCHANGED <<refunds, crossed>>,
             \A a \in Admins :
               /\ refunders'[a].order = refunders[a].order
               /\ refunders'[a].at \in {refunders[a].at, "idle"},
             \A p \in Orders :
               /\ orders'[p].received = orders[p].received
               /\ orders[p].received => orders'[p].status \in {orders[p].status, "refunded"}
               /\ transfers'[p].made = transfers[p].made
               /\ transfers'[p].fate # "none" => transfers[p].fate # "none"
      PROVE  OneWay'
  <2>1. \A p \in Orders : Refunding(p)' => Refunding(p)
    BY <1>1 DEF Refunding
  <2>2. \A p \in Orders : transfers'[p].fate # "none" => transfers'[p].made > 0
    BY <1>1, SameTransfers
  <2>3. \A p \in Orders : orders[p].received => orders'[p].status \in {"completed", "refunded"}
    BY <1>1 DEF OneWay
  <2> QED
    BY <1>1, <2>1, <2>2, <2>3, NothingCrosses
<1>2. ASSUME UNCHANGED <<orders, refunds, transfers, refunders, crossed>> PROVE OneWay'
  BY <1>1, <1>2
<1>3. ASSUME NEW o \in Orders,
             \/ CreateShipment(o) \/ Delivered(o) \/ RecordCost(o) \/ ReportIssue(o) \/ Cancel(o)
      PROVE  OneWay'
  <2>1. UNCHANGED <<refunds, transfers, refunders, crossed>>
    BY <1>3, OrderStepMoves DEF stripeVars, calls
  <2>2. ASSUME NEW s \in {"shipped", "awaiting_confirmation", "disputed", "cancelled"},
               SetStatus(o, s), orders[o].status \in {"paid", "shipped", "awaiting_confirmation"}
        PROVE  OneWay'
    <3>1. ~orders[o].received
      BY <2>2 DEF OneWay
    <3>2. \A p \in Orders :
            /\ orders'[p].received = orders[p].received
            /\ orders[p].received => orders'[p].status = orders[p].status
      BY <2>2, <3>1, StatusMoves
    <3> QED
      BY <1>1, <2>1, <3>2
  <2>3. CASE orders' = orders
    BY <1>2, <2>1, <2>3
  <2> QED
    BY <1>3, <2>2, <2>3, OrderStepMoves
<1>4. ASSUME NEW o \in Orders, NEW w \in Workers, ConfirmReceived(w, o) \/ ReleaseOrder(w, o)
      PROVE  OneWay'
  BY <1>4, CompleteOneWay
<1>5. ASSUME NEW o \in Orders, NEW w \in Workers, RetryPayout(w, o) PROVE OneWay'
  BY <1>2, <1>5 DEF RetryPayout, rows, stripeVars
<1>6. ASSUME NEW w \in Workers, PayoutStep(w) PROVE OneWay'
  BY <1>6, PayoutOneWay
<1>7. ASSUME NEW a \in Admins, (\E o \in Orders : BeginRefund(a, o)) \/ RefundStep(a)
      PROVE  OneWay'
  BY <1>7, RefundOneWay
<1>8. ASSUME NEW o \in Orders, Webhook(o) PROVE OneWay'
  <2>1. UNCHANGED <<refunds, transfers, refunders, crossed>>
    BY <1>8, WebhookKeepsTransfers DEF calls
  <2>2. orders' = orders \/ SetStatus(o, "refunded")
    BY <1>8, WebhookKeepsTransfers
  <2>3. \A p \in Orders :
          /\ orders'[p].received = orders[p].received
          /\ orders'[p].status \in {orders[p].status, "refunded"}
    BY <2>2, StatusMoves
  <2> QED
    BY <1>1, <2>1, <2>3
<1>9. ASSUME NEW o \in Orders, NEW part \in BOOLEAN, RefundByHand(o, part) PROVE OneWay'
  BY <1>9, ByHandOneWay
<1>10. ASSUME \/ \E o \in Orders : 
                   \/ OpenChargeback(o)
                   \/ \E won \in BOOLEAN : CloseChargeback(o, won)
              \/ \E ready \in BOOLEAN : OnAccountUpdated(ready)
              \/ StartOnboarding \/ OnboardingStatus \/ AccountChanges
       PROVE  OneWay'
  <2>1. UNCHANGED <<orders, refunds, transfers, refunders, crossed>>
    BY <1>10 DEF OpenChargeback, CloseChargeback, OnAccountUpdated, StartOnboarding,
                 OnboardingStatus, AccountChanges, rows, stripeVars, calls
  <2> QED
    BY <1>2, <2>1
<1>11. ASSUME NEW o \in Orders, NEW fate \in {"failed", "reversed"}, TransferReturns(o, fate)
       PROVE  OneWay'
  <2>1. /\ UNCHANGED <<orders, refunds, refunders, crossed>>
        /\ transfers' = [transfers EXCEPT ![o].fate = fate] /\ transfers[o].fate = "live"
    BY <1>11 DEF TransferReturns, rows, calls
  <2>2. \A p \in Orders :
          /\ transfers'[p].made = transfers[p].made
          /\ transfers'[p].fate # "none" => transfers[p].fate # "none"
    BY <2>1 DEF TypeOK
  <2> QED
    BY <1>1, <2>1, <2>2
<1>12. CASE Crash
  BY <1>1, <1>12, CrashKeeps DEF rows, stripeVars
<1>13. CASE UNCHANGED vars
  BY <1>2, <1>13 DEF vars, rows, stripeVars, calls
<1> QED
  BY <1>3, <1>4, <1>5, <1>6, <1>7, <1>8, <1>9, <1>10, <1>11, <1>12, <1>13 DEF Next

LEMMA InitOneWay == Init => OneWay
<1> SUFFICES ASSUME Init PROVE OneWay
  OBVIOUS
<1>1. \A o \in Orders :
        /\ ~orders[o].received
        /\ transfers[o] = [made |-> 0, fate |-> "none"]
  BY DEF Init
<1>2. crossed = {}
  BY DEF Init
<1> QED
  BY <1>1, <1>2 DEF OneWay

\* Under every hazard a payment goes both ways only when the order was completed
\* over its refund, or was refunded by hand once completed.
THEOREM OneWayOnly == Spec => []PaidOrRefunded
<1>1. ReceivedFirst /\ OneWay => PaidOrRefunded
  BY DEF ReceivedFirst, OneWay, PaidOrRefunded, PaidArtist
<1> QED
  BY <1>1, InitTyped, StepTyped, InitReceived, StepReceived, InitOneWay, StepOneWay, PTL DEF Spec

-----------------------------------------------------------------------------
(* Custody: refunds that the platform makes, and transfers that come back only *)
(* once they were booked.                                                       *)

Steady == Hazards \cap {"by_hand", "bounce", "early", "amnesia"} = {}

\* Who refunds knows what was given back, and so does who records it.
RefundsKnown ==
  /\ \A a \in Admins : \A o \in {refunders[a].order} :
       /\ refunders[a].at \in {"prepaid", "record"} => "balance" \in refunds[o]
       /\ refunders[a].at = "prepaid" => orders[o].auctioned
       /\ refunders[a].at = "record" => RefundedWhole(o)
  /\ \A o \in Orders :
       /\ "refunded" \in events[o] => "balance" \in refunds[o]
       /\ orders[o].status = "refunded" => RefundedWhole(o)

\* A transfer that came back was booked, and its return is booked after it.
TransfersBooked ==
  \A o \in Orders :
    /\ transfers[o].made > 0 => transfers[o].fate # "none"
    /\ transfers[o].fate # "failed"
    /\ transfers[o].fate = "reversed" => Posted("payout_released", o)
    /\ Posted("payout_released", o) => transfers[o].made > 0
    /\ "transfer_reversed" \in events[o] => transfers[o].fate = "reversed"
    /\ Posted("transfer_reversed", o) => transfers[o].fate = "reversed"

Kept ==
  /\ TypeOK /\ PayoutBooked /\ RefundBooked /\ MadeIsMade /\ ReceivedFirst
  /\ OneWay /\ RefundsKnown /\ TransfersBooked

\* Steps that give nothing back and record no refund.
LEMMA KnownStays ==
  ASSUME TypeOK, RefundsKnown, UNCHANGED refunds,
         \A o \in Orders :
           /\ orders'[o].auctioned = orders[o].auctioned
           /\ orders'[o].status = "refunded" => orders[o].status = "refunded" \/ RefundedWhole(o)
           /\ "refunded" \in events'[o] => "refunded" \in events[o],
         \A a \in Admins :
           refunders'[a] = refunders[a] \/ refunders'[a].at \in {"idle", "balance"}
  PROVE  RefundsKnown'
<1>1. \A o \in Orders : RefundedWhole(o)' <=> RefundedWhole(o)
  BY DEF RefundedWhole
<1>2. \A o \in Orders :
        /\ "refunded" \in events'[o] => "balance" \in refunds'[o]
        /\ orders'[o].status = "refunded" => RefundedWhole(o)'
  BY <1>1 DEF RefundsKnown
<1>3. ASSUME NEW a \in Admins, NEW o \in {refunders'[a].order}
      PROVE  /\ refunders'[a].at \in {"prepaid", "record"} => "balance" \in refunds'[o]
             /\ refunders'[a].at = "prepaid" => orders'[o].auctioned
             /\ refunders'[a].at = "record" => RefundedWhole(o)'
  <2>1. CASE refunders'[a].at \in {"idle", "balance"}
    BY <2>1
  <2>2. CASE refunders'[a] = refunders[a]
    <3>1. o = refunders[a].order /\ o \in Orders
      BY <1>3, <2>2 DEF TypeOK
    <3> QED
      BY <1>1, <2>2, <3>1 DEF RefundsKnown
  <2> QED
    BY <2>1, <2>2
<1> QED
  BY <1>2, <1>3 DEF RefundsKnown

\* Giving money back, in one of the two legs.
LEMMA ReturnKnown ==
  ASSUME TypeOK, RefundsKnown, NEW a \in Admins, RefundBalance(a) \/ RefundPrepaid(a)
  PROVE  RefundsKnown'
<1> PICK o \in Orders : o = refunders[a].order
  BY DEF TypeOK
<1>1. UNCHANGED orders
  BY DEF RefundBalance, RefundPrepaid, rows
<1>2. CASE UNCHANGED <<refunds, events>> /\ RefunderTo(a, "idle")
  <2>1. \A b \in Admins : refunders'[b] = refunders[b] \/ refunders'[b].at = "idle"
    BY <1>2 DEF RefunderTo, TypeOK
  <2> QED
    BY <1>1, <1>2, <2>1, KnownStays
<1>3. ASSUME NEW leg \in {"balance", "prepaid"}, NEW s \in {"idle", "prepaid", "record"},
             RefunderTo(a, s), refunds' = [refunds EXCEPT ![o] = @ \cup {leg}],
             \A p \in Orders : "refunded" \in events'[p] =>
               "refunded" \in events[p] \/ (p = o /\ leg = "balance"),
             leg = "prepaid" => "balance" \in refunds[o] /\ s # "prepaid" /\ orders[o].auctioned,
             leg = "balance" => s \in {"idle", AfterBalance(o)}
      PROVE  RefundsKnown'
  <2>1. \A p \in Orders : refunds'[p] = IF p = o THEN refunds[o] \cup {leg} ELSE refunds[p]
    BY <1>3 DEF TypeOK
  <2>2. \A p \in Orders : RefundedWhole(p) => RefundedWhole(p)'
    BY <1>1, <2>1 DEF RefundedWhole
  <2>3. "balance" \in refunds'[o]
    BY <1>3, <2>1
  <2>4. s = "prepaid" => orders[o].auctioned
    BY <1>3 DEF AfterBalance
  <2>5. s = "record" => RefundedWhole(o)'
    BY <1>1, <1>3, <2>1, <2>3 DEF RefundedWhole, AfterBalance
  <2>6. \A b \in Admins :
          /\ refunders'[b].order = refunders[b].order
          /\ refunders'[b].at = IF b = a THEN s ELSE refunders[b].at
    BY <1>3 DEF RefunderTo, TypeOK
  <2>7. \A p \in Orders :
          /\ "refunded" \in events'[p] => "balance" \in refunds'[p]
          /\ orders'[p].status = "refunded" => RefundedWhole(p)'
    BY <1>1, <1>3, <2>1, <2>2, <2>3 DEF RefundsKnown
  <2>8. ASSUME NEW b \in Admins, NEW q \in {refunders'[b].order}
        PROVE  /\ refunders'[b].at \in {"prepaid", "record"} => "balance" \in refunds'[q]
               /\ refunders'[b].at = "prepaid" => orders'[q].auctioned
               /\ refunders'[b].at = "record" => RefundedWhole(q)'
    <3>1. q = refunders[b].order /\ q \in Orders
      BY <2>6, <2>8 DEF TypeOK
    <3>2. CASE b = a
      BY <1>1, <2>3, <2>4, <2>5, <2>6, <3>1, <3>2
    <3>3. CASE b # a
      BY <1>1, <2>1, <2>2, <2>6, <3>1, <3>3 DEF RefundsKnown
    <3> QED
      BY <3>2, <3>3
  <2> QED
    BY <2>7, <2>8 DEF RefundsKnown
<1>4. CASE RefundBalance(a)
  <2>1. \A p \in Orders : "refunded" \in events'[p] => "refunded" \in events[p] \/ p = o
    BY <1>4 DEF RefundBalance, TypeOK
  <2>2. AfterBalance(o) \in {"prepaid", "record"}
    BY DEF AfterBalance
  <2> QED
    BY <1>2, <1>3, <1>4, <2>1, <2>2 DEF RefundBalance
<1>5. CASE RefundPrepaid(a)
  <2>1. UNCHANGED events /\ refunders[a].at = "prepaid"
    BY <1>5 DEF RefundPrepaid
  <2>2. "balance" \in refunds[o] /\ orders[o].auctioned
    BY <2>1 DEF RefundsKnown
  <2> QED
    BY <1>2, <1>3, <1>5, <2>1, <2>2 DEF RefundPrepaid
<1> QED
  BY <1>4, <1>5

\* A refund that is recorded was whole.
LEMMA RecordKnown ==
  ASSUME TypeOK, RefundsKnown, NEW a \in Admins, RecordRefund(a)
  PROVE  RefundsKnown'
<1> PICK o \in Orders : o = refunders[a].order
  BY DEF TypeOK
<1>1. UNCHANGED stripeVars /\ RefunderTo(a, "idle") /\ RefundedWhole(o)
  BY DEF RecordRefund, RefundsKnown
<1>2. \A b \in Admins : refunders'[b] = refunders[b] \/ refunders'[b].at = "idle"
  BY <1>1 DEF RefunderTo, TypeOK
<1>3. orders' = orders \/ SetStatus(o, "refunded")
  BY DEF RecordRefund, rows
<1>4. \A p \in Orders :
        /\ orders'[p].auctioned = orders[p].auctioned
        /\ p # o => orders'[p].status = orders[p].status
  BY <1>3, StatusMoves
<1> QED
  BY <1>1, <1>2, <1>4, KnownStays DEF stripeVars

\* A webhook records a refund of an order that was paid in one go.
LEMMA WebhookKnown ==
  ASSUME TypeOK, RefundsKnown, NEW o \in Orders, Webhook(o)
  PROVE  RefundsKnown'
<1>1. UNCHANGED <<refunds, refunders>>
  BY WebhookKeepsTransfers DEF calls
<1>2. \A p \in Orders : events'[p] \subseteq events[p]
  <2>1. \E e : Acknowledge(o, e)
    BY DEF Webhook, OnChargeRefunded, OnChargebackOpened, OnChargebackClosed,
           OnTransferFailed, OnTransferReversed
  <2> QED
    BY <2>1 DEF Acknowledge, TypeOK
<1>3. CASE orders' = orders
  BY <1>1, <1>2, <1>3, KnownStays
<1>4. CASE SetStatus(o, "refunded") /\ "refunded" \in events[o] /\ ~orders[o].auctioned
  <2>1. RefundedWhole(o)
    BY <1>4 DEF RefundsKnown, RefundedWhole
  <2>2. \A p \in Orders :
          /\ orders'[p].auctioned = orders[p].auctioned
          /\ p # o => orders'[p].status = orders[p].status
    BY <1>4, StatusMoves
  <2> QED
    BY <1>1, <1>2, <2>1, <2>2, KnownStays
<1> QED
  BY <1>3, <1>4, WebhookKeepsTransfers

LEMMA StepKnown == Steady /\ TypeOK /\ RefundsKnown /\ [Next]_vars => RefundsKnown'
<1> SUFFICES ASSUME Steady, TypeOK, RefundsKnown, [Next]_vars PROVE RefundsKnown'
  OBVIOUS
<1>1. ASSUME NEW o \in Orders,
             \/ CreateShipment(o) \/ Delivered(o) \/ RecordCost(o) \/ ReportIssue(o) \/ Cancel(o)
      PROVE  RefundsKnown'
  <2>1. UNCHANGED <<refunds, events, refunders>>
    BY <1>1, OrderStepMoves DEF stripeVars, calls
  <2>2. \A p \in Orders :
          /\ orders'[p].auctioned = orders[p].auctioned
          /\ orders'[p].status = "refunded" => orders[p].status = "refunded"
    BY <1>1, OrderStepMoves, StatusMoves
  <2> QED
    BY <2>1, <2>2, KnownStays
<1>2. ASSUME NEW o \in Orders, NEW w \in Workers, ConfirmReceived(w, o) \/ ReleaseOrder(w, o)
      PROVE  RefundsKnown'
  <2>1. UNCHANGED <<refunds, events, refunders>>
    BY <1>2 DEF ConfirmReceived, ReleaseOrder, stripeVars
  <2>2. \A p \in Orders :
          /\ orders'[p].auctioned = orders[p].auctioned
          /\ orders'[p].status = "refunded" => orders[p].status = "refunded"
    BY <1>2, Completes
  <2> QED
    BY <2>1, <2>2, KnownStays
<1>3. ASSUME UNCHANGED <<orders, refunds>>,
             \A p \in Orders : "refunded" \in events'[p] => "refunded" \in events[p],
             \A a \in Admins :
               refunders'[a] = refunders[a] \/ refunders'[a].at \in {"idle", "balance"}
      PROVE  RefundsKnown'
  BY <1>3, KnownStays
<1>4. ASSUME NEW o \in Orders, NEW a \in Admins, BeginRefund(a, o) PROVE RefundsKnown'
  <2>1. \A b \in Admins : refunders'[b] = refunders[b] \/ refunders'[b].at \in {"idle", "balance"}
    BY <1>4 DEF BeginRefund, TypeOK
  <2>2. UNCHANGED <<orders, refunds, events>>
    BY <1>4 DEF BeginRefund, rows, stripeVars
  <2> QED
    BY <1>3, <2>1, <2>2
<1>5. ASSUME NEW a \in Admins, RefundStep(a) PROVE RefundsKnown'
  BY <1>5, ReturnKnown, RecordKnown DEF RefundStep
<1>6. ASSUME NEW o \in Orders, Webhook(o) PROVE RefundsKnown'
  BY <1>6, WebhookKnown
<1>7. ASSUME \/ \E o \in Orders, w \in Workers : RetryPayout(w, o)
             \/ \E w \in Workers : PayoutStep(w)
             \/ \E ready \in BOOLEAN : OnAccountUpdated(ready)
             \/ StartOnboarding \/ OnboardingStatus \/ AccountChanges \/ UNCHANGED vars
      PROVE  RefundsKnown'
  <2>1. UNCHANGED <<orders, refunds, events, refunders>>
    BY <1>7, PayoutKeepsOrders
    DEF RetryPayout, OnAccountUpdated, StartOnboarding, OnboardingStatus, AccountChanges,
        vars, rows, stripeVars, calls
  <2> QED
    BY <1>3, <2>1
<1>8. ASSUME NEW o \in Orders,
             \/ OpenChargeback(o)
             \/ \E won \in BOOLEAN : CloseChargeback(o, won)
             \/ \E fate \in {"failed", "reversed"} : TransferReturns(o, fate)
      PROVE  RefundsKnown'
  <2>1. UNCHANGED <<orders, refunds, refunders>>
    BY <1>8 DEF OpenChargeback, CloseChargeback, TransferReturns, rows, calls
  <2>2. \E e : e # "refunded" /\ events' = [events EXCEPT ![o] = @ \cup {e}]
    BY <1>8 DEF OpenChargeback, CloseChargeback, TransferReturns
  <2>3. \A p \in Orders : "refunded" \in events'[p] => "refunded" \in events[p]
    BY <2>2 DEF TypeOK
  <2> QED
    BY <1>3, <2>1, <2>3
<1>9. ASSUME NEW o \in Orders, NEW part \in BOOLEAN, RefundByHand(o, part) PROVE FALSE
  BY <1>9 DEF RefundByHand, Steady
<1>10. CASE Crash
  <2>1. UNCHANGED <<orders, refunds, events>>
    BY <1>10 DEF Crash, rows, stripeVars
  <2>2. \A a \in Admins : refunders'[a] = refunders[a] \/ refunders'[a].at = "idle"
    BY <1>10 DEF Crash, RefunderTo, TypeOK
  <2> QED
    BY <1>3, <2>1, <2>2
<1> QED
  BY <1>1, <1>2, <1>4, <1>5, <1>6, <1>7, <1>8, <1>9, <1>10 DEF Next

\* What a payout's request does to Stripe's transfers and to the books.
LEMMA TransferSteps ==
  ASSUME Steady, Kept, NEW w \in Workers, PayoutStep(w)
  PROVE  LET o == payers[w].order IN
         \/ UNCHANGED <<transfers, ledger>>
         \/ /\ UNCHANGED ledger
            /\ transfers[o].made = 0
            /\ transfers' = [transfers EXCEPT ![o] = [made |-> 1, fate |-> "live"]]
         \/ /\ UNCHANGED transfers
            /\ transfers[o].made > 0
            /\ Post("payout_released", o)
<1> PICK o \in Orders : o = payers[w].order
  BY DEF Kept, TypeOK
<1>1. CASE Claim(w) \/ MarkFailed(w)
  BY <1>1 DEF Claim, MarkFailed, stripeVars
<1>2. CASE Transfer(w)
  <2>1. UNCHANGED ledger
    BY <1>2 DEF Transfer, rows
  <2>2. transfers[o].made \in Nat
    BY BoundAssumption DEF Kept, TypeOK
  <2>3. \/ UNCHANGED transfers
        \/ /\ ~(transfers[o].made > 0)
           /\ transfers' = [transfers EXCEPT ![o] = [made |-> @.made + 1, fate |-> "live"]]
    BY <1>2 DEF Transfer, TransferExists, Steady
  <2>4. transfers[o].made = 0 => transfers[o].made + 1 = 1
    OBVIOUS
  <2> QED
    BY <2>1, <2>2, <2>3, <2>4 DEF Kept, TypeOK
<1>3. CASE Finalize(w)
  <2>1. payers[w].at = "made" /\ UNCHANGED transfers
    BY <1>3 DEF Finalize, stripeVars
  <2>2. transfers[o].made > 0
    BY <2>1 DEF Kept, MadeIsMade
  <2>3. ledger' = ledger \/ Post("payout_released", o)
    BY <1>3 DEF Finalize
  <2> QED
    BY <2>1, <2>2, <2>3
<1> QED
  BY <1>1, <1>2, <1>3 DEF PayoutStep

\* What the webhooks post.
LEMMA WebhookBooks ==
  ASSUME Kept, NEW o \in Orders, Webhook(o)
  PROVE  /\ UNCHANGED <<transfers, refunds, crossed>>
         /\ \A p \in Orders : orders'[p].auctioned = orders[p].auctioned
         /\ \A p \in Orders : events'[p] \subseteq events[p]
         /\ \/ ledger' = ledger
            \/ Post("refund_issued", o) /\ RefundedWhole(o)
            \/ /\ Post("transfer_reversed", o)
               /\ "transfer_reversed" \in events[o] /\ payouts[o].transfer # 0
<1>1. UNCHANGED <<transfers, refunds, crossed>>
  BY WebhookKeepsTransfers DEF calls
<1>2. \A p \in Orders : events'[p] \subseteq events[p]
  <2>1. \E e : Acknowledge(o, e)
    BY DEF Webhook, OnChargeRefunded, OnChargebackOpened, OnChargebackClosed,
           OnTransferFailed, OnTransferReversed
  <2> QED
    BY <2>1 DEF Acknowledge, Kept, TypeOK
<1>3. \A p \in Orders : orders'[p].auctioned = orders[p].auctioned
  <2>1. orders' = orders \/ SetStatus(o, "refunded")
    BY WebhookKeepsTransfers
  <2> QED
    BY <2>1, StatusMoves DEF Kept
<1>4. ASSUME NEW e \in EventTypes, OnChargeRefunded(o, e)
      PROVE  ledger' = ledger \/ (Post("refund_issued", o) /\ RefundedWhole(o))
  <2>1. \/ ledger' = ledger
        \/ Post("refund_issued", o) /\ "refunded" \in events[o] /\ ~orders[o].auctioned
    BY <1>4 DEF OnChargeRefunded, CoversOrder, Pending, rows
  <2>2. "refunded" \in events[o] /\ ~orders[o].auctioned => RefundedWhole(o)
    BY DEF Kept, RefundsKnown, RefundedWhole
  <2> QED
    BY <2>1, <2>2
<1>5. ASSUME NEW e \in EventTypes, OnChargebackClosed(o, e) PROVE ledger' = ledger
  BY <1>5 DEF OnChargebackClosed
<1>6. CASE OnChargebackOpened(o) \/ OnTransferFailed(o) \/ OnTransferReversed(o)
  <2>1. \/ ledger' = ledger
        \/ /\ Post("transfer_reversed", o)
           /\ "transfer_reversed" \in events[o] /\ payouts[o].transfer # 0
    BY <1>6 DEF OnChargebackOpened, OnTransferFailed, OnTransferReversed, Recorded, Pending
  <2> QED
    BY <1>1, <1>2, <1>3, <2>1
<1> QED
  BY <1>1, <1>2, <1>3, <1>4, <1>5, <1>6 DEF Webhook

\* What a refund's request gives back and books, of an order that was not received
\* or that is crossed.
LEMMA RefundSteps ==
  ASSUME Kept, NEW a \in Admins, RefundStep(a)
  PROVE  LET o == refunders[a].order IN
         /\ UNCHANGED <<transfers, crossed>>
         /\ transfers[o].made > 0 => o \in crossed
         /\ \A p \in Orders : orders'[p].auctioned = orders[p].auctioned
         /\ \A p \in Orders : "transfer_reversed" \in events'[p] => "transfer_reversed" \in events[p]
         /\ \/ /\ UNCHANGED ledger
               /\ \E legs \in SUBSET Refunds : refunds' = [refunds EXCEPT ![o] = @ \cup legs]
            \/ UNCHANGED refunds /\ RefundedWhole(o) /\ Post("refund_issued", o)
<1> PICK o \in Orders : o = refunders[a].order
  BY DEF Kept, TypeOK
<1>1. UNCHANGED <<transfers, crossed>>
  BY RefundKeepsTransfers
<1>2. transfers[o].made > 0 => o \in crossed
  <2>1. Refunding(o)
    BY DEF Refunding, RefundStep, RefundBalance, RefundPrepaid, RecordRefund
  <2> QED
    BY <2>1 DEF Kept, OneWay, ReceivedFirst
<1>3. \A p \in Orders : orders'[p].auctioned = orders[p].auctioned
  <2>1. orders' = orders \/ SetStatus(o, "refunded")
    BY RefundKeepsTransfers
  <2> QED
    BY <2>1, StatusMoves DEF Kept
<1>4. \A p \in Orders : "transfer_reversed" \in events'[p] => "transfer_reversed" \in events[p]
  <2>1. events' = events \/ events' = [events EXCEPT ![o] = @ \cup {"refunded"}]
    BY DEF RefundStep, RefundBalance, RefundPrepaid, RecordRefund, stripeVars
  <2>2. events \in [Orders -> SUBSET EventTypes]
    BY DEF Kept, TypeOK
  <2> QED
    BY <2>1, <2>2
<1>5. [refunds EXCEPT ![o] = @ \cup {}] = refunds /\ {} \in SUBSET Refunds
  BY DEF Kept, TypeOK
<1>6. CASE RefundBalance(a) \/ RefundPrepaid(a)
  <2>1. UNCHANGED ledger
    BY <1>6 DEF RefundBalance, RefundPrepaid, rows
  <2>2. \/ refunds' = refunds
        \/ \E legs \in {{"balance"}, {"prepaid"}} : refunds' = [refunds EXCEPT ![o] = @ \cup legs]
    BY <1>6 DEF RefundBalance, RefundPrepaid
  <2>3. {"balance"} \in SUBSET Refunds /\ {"prepaid"} \in SUBSET Refunds
    BY DEF Refunds
  <2> QED
    BY <1>1, <1>2, <1>3, <1>4, <1>5, <2>1, <2>2, <2>3
<1>7. CASE RecordRefund(a)
  <2>1. UNCHANGED refunds /\ RefundedWhole(o)
    BY <1>7 DEF RecordRefund, stripeVars, Kept, RefundsKnown
  <2>2. ledger' = ledger \/ Post("refund_issued", o)
    BY <1>7 DEF RecordRefund, rows
  <2> QED
    BY <1>1, <1>2, <1>3, <1>4, <1>5, <2>1, <2>2
<1> QED
  BY <1>6, <1>7 DEF RefundStep

\* What happens outside: a booked transfer is reversed, or nothing that matters.
LEMMA OutsideSteps ==
  ASSUME Steady, Kept,
         \/ \E o \in Orders :
              \/ \E part \in BOOLEAN : RefundByHand(o, part)
              \/ OpenChargeback(o)
              \/ \E won \in BOOLEAN : CloseChargeback(o, won)
              \/ \E fate \in {"failed", "reversed"} : TransferReturns(o, fate)
         \/ \E ready \in BOOLEAN : OnAccountUpdated(ready)
         \/ StartOnboarding \/ OnboardingStatus \/ AccountChanges
  PROVE  /\ UNCHANGED <<orders, ledger, refunds, crossed>>
         /\ \/ /\ UNCHANGED transfers
               /\ \A p \in Orders : "transfer_reversed" \in events'[p] => "transfer_reversed" \in events[p]
            \/ \E o \in Orders :
                 /\ transfers[o].fate = "live" /\ payouts[o].transfer # 0
                 /\ transfers' = [transfers EXCEPT ![o].fate = "reversed"]
                 /\ events' = [events EXCEPT ![o] = @ \cup {"transfer_reversed"}]
<1>1. UNCHANGED <<orders, ledger>>
  BY OutsideKeeps DEF Kept, rows
<1>2. ASSUME NEW o \in Orders, NEW part \in BOOLEAN, RefundByHand(o, part) PROVE FALSE
  BY <1>2 DEF RefundByHand, Steady
<1>3. ASSUME NEW o \in Orders, OpenChargeback(o)
      PROVE  /\ UNCHANGED <<refunds, transfers, crossed>>
             /\ \A p \in Orders : "transfer_reversed" \in events'[p] => "transfer_reversed" \in events[p]
  BY <1>3 DEF OpenChargeback, Kept, TypeOK, calls
<1>4. ASSUME NEW o \in Orders, NEW won \in BOOLEAN, CloseChargeback(o, won)
      PROVE  /\ UNCHANGED <<refunds, transfers, crossed>>
             /\ \A p \in Orders : "transfer_reversed" \in events'[p] => "transfer_reversed" \in events[p]
  BY <1>4 DEF CloseChargeback, Kept, TypeOK, calls
<1>5. ASSUME NEW o \in Orders, NEW fate \in {"failed", "reversed"}, TransferReturns(o, fate)
      PROVE  /\ UNCHANGED <<refunds, crossed>>
             /\ transfers[o].fate = "live" /\ payouts[o].transfer # 0
             /\ transfers' = [transfers EXCEPT ![o].fate = "reversed"]
             /\ events' = [events EXCEPT ![o] = @ \cup {"transfer_reversed"}]
  BY <1>5 DEF TransferReturns, Recorded, Steady, calls
<1>6. ASSUME \/ \E ready \in BOOLEAN : OnAccountUpdated(ready)
             \/ StartOnboarding \/ OnboardingStatus \/ AccountChanges
      PROVE  UNCHANGED <<stripeVars, crossed>>
  BY <1>6 DEF OnAccountUpdated, StartOnboarding, OnboardingStatus, AccountChanges, calls
<1> QED
  BY <1>1, <1>2, <1>3, <1>4, <1>5, <1>6 DEF stripeVars

\* What the other requests leave alone.
LEMMA OtherSteps ==
  ASSUME \/ \E o \in Orders, w \in Workers :
              ConfirmReceived(w, o) \/ ReleaseOrder(w, o) \/ RetryPayout(w, o)
         \/ \E o \in Orders, a \in Admins : BeginRefund(a, o)
         \/ Crash
         \/ UNCHANGED vars
  PROVE  UNCHANGED <<ledger, transfers, refunds, events>>
BY DEF ConfirmReceived, ReleaseOrder, RetryPayout, BeginRefund, Crash, vars, rows, stripeVars

LEMMA StepTransfersBooked == Steady /\ Kept /\ [Next]_vars => TransfersBooked'
<1> SUFFICES ASSUME Steady, Kept, [Next]_vars PROVE TransfersBooked'
  OBVIOUS
<1> USE DEF Kept
<1>1. ASSUME UNCHANGED transfers,
             \A p \in Orders : "transfer_reversed" \in events'[p] => "transfer_reversed" \in events[p],
             \A p \in Orders :
               /\ Posted("payout_released", p) => Posted("payout_released", p)'
               /\ Posted("payout_released", p)' => Posted("payout_released", p) \/ transfers[p].made > 0
               /\ Posted("transfer_reversed", p)' =>
                    Posted("transfer_reversed", p) \/ transfers[p].fate = "reversed"
      PROVE  TransfersBooked'
  BY <1>1 DEF TransfersBooked
<1>2. CASE UNCHANGED <<ledger, transfers, events>>
  BY <1>2 DEF TransfersBooked, Posted
<1>3. ASSUME NEW o \in Orders,
             \/ CreateShipment(o) \/ Delivered(o) \/ RecordCost(o) \/ ReportIssue(o) \/ Cancel(o)
      PROVE  TransfersBooked'
  <2>1. UNCHANGED <<transfers, events>> /\ (ledger' = ledger \/ Post("shipping_cost", o))
    BY <1>3, OrderStepMoves DEF stripeVars
  <2>2. CASE Post("shipping_cost", o)
    BY <1>1, <2>1, <2>2, PostAdds
  <2> QED
    BY <1>2, <2>1, <2>2
<1>4. ASSUME NEW w \in Workers, PayoutStep(w) PROVE TransfersBooked'
  <2>1. PICK o \in Orders : o = payers[w].order
    BY DEF TypeOK
  <2>2. UNCHANGED events
    BY <1>4, PayoutKeepsOrders
  <2>3. CASE UNCHANGED <<transfers, ledger>>
    BY <1>2, <2>2, <2>3
  <2>4. CASE /\ UNCHANGED ledger
             /\ transfers[o].made = 0
             /\ transfers' = [transfers EXCEPT ![o] = [made |-> 1, fate |-> "live"]]
    <3>1. ~(transfers[o].made > 0) /\ transfers[o].fate = "none"
      BY <2>4 DEF OneWay
    <3>2. \A p \in Orders : IF p = o THEN transfers'[p] = [made |-> 1, fate |-> "live"]
                                     ELSE transfers'[p] = transfers[p]
      BY <2>4 DEF TypeOK
    <3> QED
      BY <2>2, <2>4, <3>1, <3>2 DEF TransfersBooked, Posted
  <2>5. CASE UNCHANGED transfers /\ transfers[o].made > 0 /\ Post("payout_released", o)
    BY <1>1, <2>2, <2>5, PostAdds
  <2> QED
    BY <1>4, <2>1, <2>3, <2>4, <2>5, TransferSteps
<1>5. ASSUME NEW a \in Admins, RefundStep(a) PROVE TransfersBooked'
  <2>1. PICK o \in Orders : o = refunders[a].order
    BY DEF TypeOK
  <2>2. /\ UNCHANGED transfers
        /\ \A p \in Orders : "transfer_reversed" \in events'[p] => "transfer_reversed" \in events[p]
        /\ UNCHANGED ledger \/ Post("refund_issued", o)
    BY <1>5, <2>1, RefundSteps
  <2>3. CASE Post("refund_issued", o)
    BY <1>1, <2>2, <2>3, PostAdds
  <2>4. CASE UNCHANGED ledger
    BY <1>1, <2>2, <2>4 DEF Posted
  <2> QED
    BY <2>2, <2>3, <2>4
<1>6. ASSUME NEW o \in Orders, Webhook(o) PROVE TransfersBooked'
  <2>1. /\ UNCHANGED transfers
        /\ \A p \in Orders : events'[p] \subseteq events[p]
        /\ \/ ledger' = ledger \/ Post("refund_issued", o)
           \/ Post("transfer_reversed", o) /\ "transfer_reversed" \in events[o]
    BY <1>6, WebhookBooks
  <2>2. CASE ledger' = ledger
    BY <1>1, <2>1, <2>2 DEF Posted
  <2>3. CASE Post("transfer_reversed", o) /\ "transfer_reversed" \in events[o]
    BY <1>1, <2>1, <2>3, PostAdds DEF TransfersBooked
  <2>4. CASE Post("refund_issued", o)
    BY <1>1, <2>1, <2>4, PostAdds
  <2> QED
    BY <2>1, <2>2, <2>3, <2>4
<1>7. CASE \/ \E o \in Orders :
                \/ \E part \in BOOLEAN : RefundByHand(o, part)
                \/ OpenChargeback(o)
                \/ \E won \in BOOLEAN : CloseChargeback(o, won)
                \/ \E fate \in {"failed", "reversed"} : TransferReturns(o, fate)
           \/ \E ready \in BOOLEAN : OnAccountUpdated(ready)
           \/ StartOnboarding \/ OnboardingStatus \/ AccountChanges
  <2>1. UNCHANGED ledger
    BY <1>7, OutsideSteps
  <2>2. CASE /\ UNCHANGED transfers
             /\ \A p \in Orders : "transfer_reversed" \in events'[p] => "transfer_reversed" \in events[p]
    BY <1>1, <2>1, <2>2 DEF Posted
  <2>3. ASSUME NEW o \in Orders,
               transfers[o].fate = "live", payouts[o].transfer # 0,
               transfers' = [transfers EXCEPT ![o].fate = "reversed"],
               events' = [events EXCEPT ![o] = @ \cup {"transfer_reversed"}]
        PROVE  TransfersBooked'
    <3>1. Posted("payout_released", o)
      BY <2>3 DEF PayoutBooked
    <3>2. \A p \in Orders :
            /\ transfers'[p].made = transfers[p].made
            /\ transfers'[p].fate = IF p = o THEN "reversed" ELSE transfers[p].fate
            /\ p # o => events'[p] = events[p]
      BY <2>3 DEF TypeOK
    <3> QED
      BY <2>1, <3>1, <3>2 DEF TransfersBooked, Posted
  <2> QED
    BY <1>7, <2>2, <2>3, OutsideSteps
<1> QED
  BY <1>2, <1>3, <1>4, <1>5, <1>6, <1>7, OtherSteps DEF Next

LEMMA StepKept == Steady /\ Kept /\ [Next]_vars => Kept'
BY StepTyped, StepPayoutBooked, StepRefundBooked, StepMade, StepReceived, StepOneWay, StepKnown,
   StepTransfersBooked
DEF Kept

LEMMA InitKept == Init => Kept
<1>1. Init => TransfersBooked /\ RefundsKnown
  <2> SUFFICES ASSUME Init PROVE TransfersBooked /\ RefundsKnown
    OBVIOUS
  <2>1. \A o \in Orders :
          /\ transfers[o] = [made |-> 0, fate |-> "none"] /\ events[o] = {}
          /\ orders[o].status = "paid"
    BY DEF Init
  <2>2. \A o \in Orders : ~Posted("payout_released", o) /\ ~Posted("transfer_reversed", o)
    BY DEF Init, Posted, Txn
  <2>3. \A a \in Admins : refunders[a].at = "idle"
    BY DEF Init
  <2> QED
    BY <2>1, <2>2, <2>3 DEF TransfersBooked, RefundsKnown
<1> QED
  BY <1>1, InitTyped, InitBooked, InitReceived, InitOneWay DEF Kept

\* Where the money of an order that did not cross is, and what the books say: nothing of
\* a transfer was given back, and what is booked as given back was, whole.
LEMMA Where ==
  ASSUME Kept, NEW o \in Orders
  PROVE  /\ ~(transfers[o].made > 0) =>
              /\ ~PaidArtist(o)
              /\ ~Posted("payout_released", o) /\ ~Posted("transfer_reversed", o)
         /\ Posted("refund_issued", o) => RefundedWhole(o)
         /\ o \notin crossed /\ transfers[o].made > 0 =>
              refunds[o] = {} /\ ~RefundedWhole(o) /\ ~Posted("refund_issued", o)
<1>1. o \notin crossed /\ transfers[o].made > 0 => refunds[o] = {}
  BY DEF Kept, OneWay, ReceivedFirst
<1>2. refunds[o] = {} => ~RefundedWhole(o)
  BY DEF RefundedWhole
<1>3. ~(transfers[o].made > 0) =>
        ~PaidArtist(o) /\ ~Posted("payout_released", o) /\ ~Posted("transfer_reversed", o)
  BY DEF Kept, OneWay, PaidArtist, TransfersBooked, PayoutBooked
<1>4. Posted("refund_issued", o) => RefundedWhole(o)
  BY DEF Kept, RefundsKnown, RefundBooked
<1> QED
  BY <1>1, <1>2, <1>3, <1>4

\* A movement of one order's money, a booking of it, and neither: what became of an
\* order that crossed is out of sight.
LEMMA MoveMoves ==
  ASSUME NEW o \in Orders, o \notin crossed, UNCHANGED crossed,
         NEW from, NEW to, MoneyIs(o) = from, BooksSay(o) = from,
         MoneyIs(o)' = to,
         \A p \in Orders : p # o => MoneyIs(p)' = MoneyIs(p),
         \A p \in Orders : BooksSay(p)' = BooksSay(p)
  PROVE  C!Move(o, from, to)
BY DEF C!Move

LEMMA BookBooks ==
  ASSUME NEW o \in Orders, o \notin crossed, UNCHANGED crossed,
         MoneyIs(o) # BooksSay(o), BooksSay(o)' = MoneyIs(o),
         \A p \in Orders : MoneyIs(p)' = MoneyIs(p),
         \A p \in Orders : p # o => BooksSay(p)' = BooksSay(p)
  PROVE  C!Next
<1>1. C!Book(o)
  BY DEF C!Book
<1> QED
  BY <1>1 DEF C!Next

LEMMA NeitherStutters ==
  ASSUME UNCHANGED crossed,
         \A p \in Orders :
           p \in crossed \/ (MoneyIs(p)' = MoneyIs(p) /\ BooksSay(p)' = BooksSay(p))
  PROVE  UNCHANGED C!vars
BY DEF C!vars

\* Steps that keep the transfers, what was given back, and the books.
LEMMA SameMoney ==
  ASSUME UNCHANGED <<transfers, refunds>>,
         \A p \in Orders : orders'[p].auctioned = orders[p].auctioned
  PROVE  \A p \in Orders : MoneyIs(p)' = MoneyIs(p)
BY DEF MoneyIs, PaidArtist, RefundedWhole

LEMMA SameBooks ==
  ASSUME \A p \in Orders : \A t \in {"refund_issued", "payout_released", "transfer_reversed"} :
           Posted(t, p)' <=> Posted(t, p)
  PROVE  \A p \in Orders : BooksSay(p)' = BooksSay(p)
BY DEF BooksSay

\* A payout's request is PayOut, or books it.
LEMMA PayoutCustody ==
  ASSUME Steady, Kept, NEW w \in Workers, PayoutStep(w)
  PROVE  C!Next \/ UNCHANGED C!vars
<1> PICK o \in Orders : o = payers[w].order
  BY DEF Kept, TypeOK
<1>1. UNCHANGED <<orders, refunds, crossed>>
  BY PayoutKeepsOrders
<1>2. CASE UNCHANGED <<transfers, ledger>>
  BY <1>1, <1>2, SameMoney, SameBooks, NeitherStutters DEF Posted
<1>3. CASE /\ UNCHANGED ledger
           /\ transfers[o].made = 0
           /\ transfers' = [transfers EXCEPT ![o] = [made |-> 1, fate |-> "live"]]
  <2>1. \A p \in Orders : BooksSay(p)' = BooksSay(p)
    BY <1>3, SameBooks DEF Posted
  <2>2. \A p \in Orders : transfers'[p] = IF p = o THEN [made |-> 1, fate |-> "live"] ELSE transfers[p]
    BY <1>3 DEF Kept, TypeOK
  <2>3. MoneyIs(o)' = "artist" /\ \A p \in Orders : p # o => MoneyIs(p)' = MoneyIs(p)
    BY <1>1, <2>2 DEF MoneyIs, PaidArtist, RefundedWhole
  <2>4. CASE o \in crossed
    BY <1>1, <2>1, <2>3, <2>4, NeitherStutters
  <2>5. CASE o \notin crossed
    <3>1. ~PaidArtist(o) /\ ~Posted("payout_released", o)
      BY <1>3, Where
    <3>2. CASE RefundedWhole(o)
      <4>1. "claimed" = payers[w].at
        BY <1>3 DEF PayoutStep, Claim, Transfer, Finalize, MarkFailed, rows, stripeVars, Kept, TypeOK
      <4>2. orders[o].received
        BY <4>1 DEF Kept, ReceivedFirst
      <4>3. refunds[o] # {}
        BY <3>2 DEF RefundedWhole
      <4> QED
        BY <2>5, <4>2, <4>3 DEF Kept, OneWay
    <3>3. CASE ~RefundedWhole(o)
      <4>1. MoneyIs(o) = "held" /\ BooksSay(o) = "held"
        BY <3>1, <3>3, Where DEF MoneyIs, BooksSay
      <4>2. C!PayOut(o)
        BY <1>1, <2>1, <2>3, <2>5, <4>1, MoveMoves DEF C!PayOut
      <4> QED
        BY <4>2 DEF C!Next
    <3> QED
      BY <3>2, <3>3
  <2> QED
    BY <2>4, <2>5
<1>4. CASE UNCHANGED transfers /\ transfers[o].made > 0 /\ Post("payout_released", o)
  <2>1. \A p \in Orders : MoneyIs(p)' = MoneyIs(p)
    BY <1>1, <1>4, SameMoney
  <2>2. \A p, t : Posted(t, p)' <=> Posted(t, p) \/ (t = "payout_released" /\ p = o)
    BY <1>4, PostAdds
  <2>3. \A p \in Orders : p # o => BooksSay(p)' = BooksSay(p)
    BY <2>2 DEF BooksSay
  <2>4. CASE Posted("payout_released", o)
    BY <1>1, <2>1, <2>2, <2>4, SameBooks, NeitherStutters
  <2>5. CASE o \in crossed
    BY <1>1, <2>1, <2>3, <2>5, NeitherStutters
  <2>6. CASE o \notin crossed /\ ~Posted("payout_released", o)
    <3>1. ~Posted("refund_issued", o) /\ ~Posted("transfer_reversed", o) /\ transfers[o].fate = "live"
      <4>1. transfers[o].fate \in {"none", "live", "failed", "reversed"}
        BY DEF Kept, TypeOK
      <4> QED
        BY <1>4, <2>6, <4>1, Where DEF Kept, TransfersBooked, PayoutBooked
    <3>2. MoneyIs(o) = "artist" /\ BooksSay(o) = "held" /\ BooksSay(o)' = "artist"
      BY <2>2, <2>6, <3>1 DEF MoneyIs, PaidArtist, BooksSay
    <3> QED
      BY <1>1, <2>1, <2>3, <2>6, <3>2, BookBooks
  <2> QED
    BY <2>4, <2>5, <2>6
<1> QED
  BY <1>2, <1>3, <1>4, TransferSteps

\* A refund that is booked, by its request or by a webhook, is Book.
LEMMA RefundBooks ==
  ASSUME Kept, NEW o \in Orders, RefundedWhole(o), Post("refund_issued", o),
         UNCHANGED <<transfers, refunds, crossed>>,
         \A p \in Orders : orders'[p].auctioned = orders[p].auctioned
  PROVE  C!Next \/ UNCHANGED C!vars
<1>1. \A p \in Orders : MoneyIs(p)' = MoneyIs(p)
  BY SameMoney
<1>2. \A p, t : Posted(t, p)' <=> Posted(t, p) \/ (t = "refund_issued" /\ p = o)
  BY PostAdds
<1>3. \A p \in Orders : p # o => BooksSay(p)' = BooksSay(p)
  BY <1>2 DEF BooksSay
<1>4. CASE Posted("refund_issued", o)
  BY <1>1, <1>2, <1>4, SameBooks, NeitherStutters
<1>5. CASE o \in crossed
  BY <1>1, <1>3, <1>5, NeitherStutters
<1>6. CASE o \notin crossed /\ ~Posted("refund_issued", o)
  <2>1. ~PaidArtist(o) /\ ~Posted("payout_released", o)
    BY <1>6, Where
  <2>2. MoneyIs(o) = "collector" /\ BooksSay(o) = "held" /\ BooksSay(o)' = "collector"
    BY <1>2, <1>6, <2>1 DEF MoneyIs, BooksSay
  <2> QED
    BY <1>1, <1>3, <1>6, <2>2, BookBooks
<1> QED
  BY <1>4, <1>5, <1>6

\* A refund's request is Return, or books it.
LEMMA RefundCustody ==
  ASSUME Kept, NEW a \in Admins, RefundStep(a)
  PROVE  C!Next \/ UNCHANGED C!vars
<1> PICK o \in Orders : o = refunders[a].order
  BY DEF Kept, TypeOK
<1>1. /\ UNCHANGED <<transfers, crossed>>
      /\ transfers[o].made > 0 => o \in crossed
      /\ \A p \in Orders : orders'[p].auctioned = orders[p].auctioned
  BY RefundSteps
<1>2. ASSUME UNCHANGED ledger,
             NEW legs \in SUBSET Refunds, refunds' = [refunds EXCEPT ![o] = @ \cup legs]
      PROVE  C!Next \/ UNCHANGED C!vars
  <2>1. \A p \in Orders : BooksSay(p)' = BooksSay(p)
    BY <1>2, SameBooks DEF Posted
  <2>2. \A p \in Orders : refunds'[p] = IF p = o THEN refunds[o] \cup legs ELSE refunds[p]
    BY <1>2 DEF Kept, TypeOK
  <2>3. \A p \in Orders : p # o => MoneyIs(p)' = MoneyIs(p)
    BY <1>1, <2>2 DEF MoneyIs, PaidArtist, RefundedWhole
  <2>4. RefundedWhole(o) => RefundedWhole(o)'
    BY <1>1, <2>2 DEF RefundedWhole
  <2>5. CASE o \in crossed
    BY <1>1, <2>1, <2>3, <2>5, NeitherStutters
  <2>6. CASE o \notin crossed
    <3>1. ~PaidArtist(o) /\ ~PaidArtist(o)' /\ ~Posted("payout_released", o)
      BY <1>1, <2>6, Where DEF PaidArtist
    <3>2. /\ MoneyIs(o)' = IF RefundedWhole(o)' THEN "collector" ELSE "held"
          /\ MoneyIs(o) = IF RefundedWhole(o) THEN "collector" ELSE "held"
      BY <3>1 DEF MoneyIs
    <3>3. CASE RefundedWhole(o) \/ ~RefundedWhole(o)'
      <4>1. MoneyIs(o)' = MoneyIs(o)
        BY <2>4, <3>2, <3>3
      <4> QED
        BY <1>1, <2>1, <2>3, <4>1, NeitherStutters
    <3>4. CASE ~RefundedWhole(o) /\ RefundedWhole(o)'
      <4>1. BooksSay(o) = "held"
        BY <3>1, <3>4, Where DEF BooksSay
      <4>2. C!Return(o)
        BY <1>1, <2>1, <2>3, <2>6, <3>2, <3>4, <4>1, MoveMoves DEF C!Return
      <4> QED
        BY <4>2 DEF C!Next
    <3> QED
      BY <3>3, <3>4
  <2> QED
    BY <2>5, <2>6
<1> QED
  BY <1>1, <1>2, RefundSteps, RefundBooks

\* A webhook books a refund, or a transfer that came back, once.
LEMMA WebhookCustody ==
  ASSUME Kept, NEW o \in Orders, Webhook(o)
  PROVE  C!Next \/ UNCHANGED C!vars
<1>1. /\ UNCHANGED <<transfers, refunds, crossed>>
      /\ \A p \in Orders : orders'[p].auctioned = orders[p].auctioned
  BY WebhookBooks
<1>2. \A p \in Orders : MoneyIs(p)' = MoneyIs(p)
  BY <1>1, SameMoney
<1>3. CASE ledger' = ledger
  BY <1>1, <1>2, <1>3, SameBooks, NeitherStutters DEF Posted
<1>4. CASE Post("refund_issued", o) /\ RefundedWhole(o)
  BY <1>1, <1>4, RefundBooks
<1>5. CASE /\ Post("transfer_reversed", o)
           /\ "transfer_reversed" \in events[o] /\ payouts[o].transfer # 0
  <2>1. \A p, t : Posted(t, p)' <=> Posted(t, p) \/ (t = "transfer_reversed" /\ p = o)
    BY <1>5, PostAdds
  <2>2. \A p \in Orders : p # o => BooksSay(p)' = BooksSay(p)
    BY <2>1 DEF BooksSay
  <2>3. CASE Posted("transfer_reversed", o)
    BY <1>1, <1>2, <2>1, <2>3, SameBooks, NeitherStutters
  <2>4. CASE o \in crossed
    BY <1>1, <1>2, <2>2, <2>4, NeitherStutters
  <2>5. CASE o \notin crossed /\ ~Posted("transfer_reversed", o)
    <3>1. transfers[o].fate = "reversed" /\ Posted("payout_released", o) /\ transfers[o].made > 0
      BY <1>5 DEF Kept, TransfersBooked
    <3>2. ~RefundedWhole(o) /\ ~Posted("refund_issued", o)
      BY <2>5, <3>1, Where
    <3>3. MoneyIs(o) = "held" /\ BooksSay(o) = "artist" /\ BooksSay(o)' = "held"
      BY <2>1, <2>5, <3>1, <3>2 DEF MoneyIs, PaidArtist, BooksSay
    <3> QED
      BY <1>1, <1>2, <2>2, <2>5, <3>3, BookBooks
  <2> QED
    BY <2>3, <2>4, <2>5
<1> QED
  BY <1>3, <1>4, <1>5, WebhookBooks

\* A transfer comes back, of an artist the books say was paid.
LEMMA OutsideCustody ==
  ASSUME Steady, Kept,
         \/ \E o \in Orders :
              \/ \E part \in BOOLEAN : RefundByHand(o, part)
              \/ OpenChargeback(o)
              \/ \E won \in BOOLEAN : CloseChargeback(o, won)
              \/ \E fate \in {"failed", "reversed"} : TransferReturns(o, fate)
         \/ \E ready \in BOOLEAN : OnAccountUpdated(ready)
         \/ StartOnboarding \/ OnboardingStatus \/ AccountChanges
  PROVE  C!Next \/ UNCHANGED C!vars
<1>1. UNCHANGED <<orders, ledger, refunds, crossed>>
  BY OutsideSteps
<1>2. \A p \in Orders : BooksSay(p)' = BooksSay(p)
  BY <1>1, SameBooks DEF Posted
<1>3. CASE UNCHANGED transfers
  BY <1>1, <1>2, <1>3, SameMoney, NeitherStutters
<1>4. ASSUME NEW o \in Orders,
             transfers[o].fate = "live", payouts[o].transfer # 0,
             transfers' = [transfers EXCEPT ![o].fate = "reversed"]
      PROVE  C!Next \/ UNCHANGED C!vars
  <2>1. \A p \in Orders :
          /\ p # o => transfers'[p] = transfers[p]
          /\ transfers'[o].fate = "reversed"
    BY <1>4 DEF Kept, TypeOK
  <2>2. \A p \in Orders : p # o => MoneyIs(p)' = MoneyIs(p)
    BY <1>1, <2>1 DEF MoneyIs, PaidArtist, RefundedWhole
  <2>3. CASE o \in crossed
    BY <1>1, <1>2, <2>2, <2>3, NeitherStutters
  <2>4. CASE o \notin crossed
    <3>1. /\ Posted("payout_released", o) /\ ~Posted("transfer_reversed", o)
          /\ transfers[o].made > 0
      BY <1>4 DEF Kept, PayoutBooked, TransfersBooked, OneWay
    <3>2. ~RefundedWhole(o) /\ ~Posted("refund_issued", o)
      BY <2>4, <3>1, Where
    <3>3. MoneyIs(o) = "artist" /\ BooksSay(o) = "artist" /\ MoneyIs(o)' = "held"
      BY <1>1, <1>4, <2>1, <3>1, <3>2 DEF MoneyIs, PaidArtist, BooksSay, RefundedWhole
    <3>4. C!Bounce(o)
      BY <1>1, <1>2, <2>2, <2>4, <3>3, MoveMoves DEF C!Bounce
    <3> QED
      BY <3>4 DEF C!Next
  <2> QED
    BY <2>3, <2>4
<1> QED
  BY <1>3, <1>4, OutsideSteps

\* An order is completed over a refund: it goes astray.
LEMMA CompletedCustody ==
  ASSUME Kept, NEW w \in Workers, NEW o \in Orders, ConfirmReceived(w, o) \/ ReleaseOrder(w, o)
  PROVE  C!Next \/ UNCHANGED C!vars
<1>1. UNCHANGED <<ledger, transfers, refunds>>
  BY OtherSteps
<1>2. \A p \in Orders : orders'[p].auctioned = orders[p].auctioned
  BY Completes DEF Kept
<1>3. \A p \in Orders : MoneyIs(p)' = MoneyIs(p) /\ BooksSay(p)' = BooksSay(p)
  BY <1>1, <1>2, SameMoney, SameBooks DEF Posted
<1>4. crossed' = crossed \/ crossed' = crossed \cup {o}
  BY DEF ConfirmReceived, ReleaseOrder, CompletedOver
<1>5. CASE crossed' = crossed
  BY <1>3, <1>5, NeitherStutters
<1>6. CASE crossed' = crossed \cup {o}
  <2>1. orders[o].status \in {"disputed", "awaiting_confirmation"}
    BY Completes DEF Kept
  <2>2. ~orders[o].received
    BY <2>1 DEF Kept, OneWay
  <2>3. o \notin crossed /\ ~(transfers[o].made > 0)
    BY <2>2 DEF Kept, OneWay, ReceivedFirst
  <2>4. ~Posted("refund_issued", o)
    BY <2>1 DEF Kept, RefundBooked
  <2>5. MoneyIs(o) \in {"held", "collector"} /\ BooksSay(o) = "held"
    BY <2>3, <2>4, Where DEF MoneyIs, BooksSay
  <2>6. C!GoAstray(o)
    BY <1>3, <1>6, <2>3, <2>5 DEF C!GoAstray
  <2> QED
    BY <2>6 DEF C!Next
<1> QED
  BY <1>4, <1>5, <1>6

LEMMA StepCustody == Steady /\ Kept /\ [Next]_vars => [C!Next]_(C!vars)
<1> SUFFICES ASSUME Steady, Kept, [Next]_vars PROVE C!Next \/ UNCHANGED C!vars
  OBVIOUS
<1>1. ASSUME NEW o \in Orders,
             \/ CreateShipment(o) \/ Delivered(o) \/ RecordCost(o) \/ ReportIssue(o) \/ Cancel(o)
      PROVE  UNCHANGED C!vars
  <2>1. /\ UNCHANGED <<transfers, refunds, crossed>>
        /\ ledger' = ledger \/ Post("shipping_cost", o)
    BY <1>1, OrderStepMoves DEF stripeVars, calls
  <2>2. \A p \in Orders : orders'[p].auctioned = orders[p].auctioned
    BY <1>1, OrderStepMoves, StatusMoves DEF Kept
  <2>3. \A p \in Orders : \A t \in {"refund_issued", "payout_released", "transfer_reversed"} :
          Posted(t, p)' <=> Posted(t, p)
    BY <2>1, PostAdds DEF Posted
  <2> QED
    BY <2>1, <2>2, <2>3, SameMoney, SameBooks, NeitherStutters
<1>2. CASE \/ \E o \in Orders, w \in Workers : RetryPayout(w, o)
           \/ \E o \in Orders, a \in Admins : BeginRefund(a, o)
           \/ Crash \/ UNCHANGED vars
  <2>1. UNCHANGED <<orders, crossed>>
    BY <1>2 DEF RetryPayout, BeginRefund, Crash, vars, rows, calls
  <2>2. UNCHANGED <<ledger, transfers, refunds>>
    BY <1>2, OtherSteps
  <2> QED
    BY <2>1, <2>2, SameMoney, SameBooks, NeitherStutters DEF Posted
<1> QED
  BY <1>1, <1>2, CompletedCustody, PayoutCustody, RefundCustody, WebhookCustody, OutsideCustody DEF Next

LEMMA InitCustody == Init => C!Init
<1> SUFFICES ASSUME Init PROVE C!Init
  OBVIOUS
<1>1. \A o \in Orders : MoneyIs(o) = "held"
  BY DEF Init, MoneyIs, PaidArtist, RefundedWhole
<1>2. \A o \in Orders : BooksSay(o) = "held"
  BY DEF Init, BooksSay, Posted, Txn
<1>3. crossed = {}
  BY DEF Init
<1> QED
  BY <1>1, <1>2, <1>3 DEF C!Init

\* The payment of an order moves once, whole, and only while the books agree
\* where it is, unless its order is completed over a refund: the handlers implement
\* Custody.
THEOREM ImplementsCustody ==
  ASSUME Steady
  PROVE  Spec => KeepsCustody
BY StepKept, StepCustody, InitKept, InitCustody, PTL DEF Spec, KeepsCustody, C!Spec

-----------------------------------------------------------------------------
(* The books, to the cent. *)

\* Whatever the price and whatever rate the configuration may hold, the commission
\* takes no more than the price and is the exact rate to half a cent, so that the
\* artist's share is never negative (commission, split_order).
THEOREM CommissionIsFair ==
  /\ Commission \in 0..Artwork /\ Share \in 0..Artwork
  /\ 2 * (10000 * Commission - Artwork * Bps) <= 10000
  /\ 2 * (Artwork * Bps - 10000 * Commission) <= 10000
<1> DEFINE n == Artwork * Bps
           q == n \div 10000
           r == n % 10000
<1>1. Artwork \in Nat /\ Bps \in 0..10000
  BY AmountsAssumption
<1>2. n \in Nat /\ n <= 10000 * Artwork
  <2>1. Artwork * Bps \in Nat /\ Artwork * (10000 - Bps) >= 0
    BY <1>1
  <2>2. Artwork * (10000 - Bps) = Artwork * 10000 - Artwork * Bps
    BY <1>1
  <2> QED
    BY <1>1, <2>1, <2>2
<1>3. Commission = RoundHalfEven(n, 10000)
  BY DEF Commission
<1> HIDE DEF n
<1>4. q \in Nat /\ r \in 0..9999 /\ n = 10000 * q + r
  BY <1>2
<1>5. q = n \div 10000 /\ r = n % 10000
  OBVIOUS
<1> HIDE DEF q, r
<1>6. (Commission = q /\ 2 * r <= 10000) \/ (Commission = q + 1 /\ 2 * r >= 10000)
  <2>1. Commission = IF 2 * r > 10000 \/ (2 * r = 10000 /\ q % 2 = 1) THEN q + 1 ELSE q
    BY <1>3, <1>5 DEF RoundHalfEven
  <2>2. CASE 2 * r > 10000
    BY <1>4, <2>1, <2>2
  <2>3. CASE 2 * r = 10000
    BY <1>4, <2>1, <2>3
  <2>4. CASE 2 * r < 10000
    BY <1>4, <2>1, <2>4
  <2> QED
    BY <1>4, <2>2, <2>3, <2>4
<1>7. /\ Commission \in 0..Artwork
      /\ 2 * (10000 * Commission - n) <= 10000 /\ 2 * (n - 10000 * Commission) <= 10000
  <2>1. CASE Commission = q /\ 2 * r <= 10000
    BY <1>1, <1>2, <1>4, <2>1
  <2>2. CASE Commission = q + 1 /\ 2 * r >= 10000
    BY <1>1, <1>2, <1>4, <2>2
  <2> QED
    BY <1>6, <2>1, <2>2
<1>8. Share \in 0..Artwork
  BY <1>1, <1>7 DEF Share
<1> QED
  BY <1>7, <1>8 DEF n

\* Amounts are integers, whichever way the commission was rounded.
LEMMA Amounts ==
  /\ Artwork \in Int /\ Shipping \in Int /\ Tax \in Int /\ CourierCost \in Int
  /\ Fee \in Int /\ PrepaidFee \in Int /\ Commission \in Int
<1>1. /\ Artwork \in Int /\ Shipping \in Int /\ Tax \in Int /\ CourierCost \in Int
      /\ Fee \in Int /\ PrepaidFee \in Int /\ Bps \in Int
  BY AmountsAssumption
<1>2. Artwork * Bps \in Int
  BY <1>1
<1>3. \A n \in Int : RoundHalfEven(n, 10000) \in Int
  BY DEF RoundHalfEven
<1> QED
  BY <1>1, <1>2, <1>3 DEF Commission

\* What each transaction enters, account by account.
LEMMA PaidEntered ==
  ASSUME NEW o \in Orders, Posted("order_paid", o)
  PROVE  /\ Entered("order_paid", o, "platform_clearing") = Fee - (Total - Prepaid(o))
         /\ Entered("order_paid", o, "platform_bank") = 0
         /\ Entered("order_paid", o, "platform_revenue") = Commission + Shipping
         /\ Entered("order_paid", o, "stripe_fees") = -Fee
         /\ Entered("order_paid", o, "shipping_costs") = 0
         /\ Entered("order_paid", o, "tax_payable") = Tax
         /\ Entered("order_paid", o, "seller_payable") = Share
         /\ Entered("order_paid", o, "auction_escrow") = -Prepaid(o)
<1>1. Entries(Txn("order_paid", o)) = BookOrderPaid(o)
  BY DEF Entries, Txn
<1> QED
  BY <1>1 DEF Entered, BookOrderPaid

LEMMA RefundEntered ==
  ASSUME NEW o \in Orders, Posted("refund_issued", o)
  PROVE  /\ Entered("refund_issued", o, "platform_clearing") = Total - KeptFee(o)
         /\ Entered("refund_issued", o, "platform_bank") = 0
         /\ Entered("refund_issued", o, "platform_revenue") = -(Commission + Shipping)
         /\ Entered("refund_issued", o, "stripe_fees") = KeptFee(o)
         /\ Entered("refund_issued", o, "shipping_costs") = 0
         /\ Entered("refund_issued", o, "tax_payable") = -Tax
         /\ Entered("refund_issued", o, "seller_payable") = -Share
         /\ Entered("refund_issued", o, "auction_escrow") = 0
<1>1. Entries(Txn("refund_issued", o)) = BookRefundIssued(o)
  BY DEF Entries, Txn
<1> QED
  BY <1>1 DEF Entered, BookRefundIssued

LEMMA PayoutEntered ==
  ASSUME NEW o \in Orders, Posted("payout_released", o)
  PROVE  /\ Entered("payout_released", o, "platform_clearing") = Share
         /\ Entered("payout_released", o, "platform_bank") = 0
         /\ Entered("payout_released", o, "platform_revenue") = 0
         /\ Entered("payout_released", o, "stripe_fees") = 0
         /\ Entered("payout_released", o, "shipping_costs") = 0
         /\ Entered("payout_released", o, "tax_payable") = 0
         /\ Entered("payout_released", o, "seller_payable") = -Share
         /\ Entered("payout_released", o, "auction_escrow") = 0
<1>1. Entries(Txn("payout_released", o)) = BookPayoutReleased
  BY DEF Entries, Txn
<1> QED
  BY <1>1 DEF Entered, BookPayoutReleased

LEMMA ReversalEntered ==
  ASSUME NEW o \in Orders, Posted("transfer_reversed", o)
  PROVE  /\ Entered("transfer_reversed", o, "platform_clearing") = -Share
         /\ Entered("transfer_reversed", o, "platform_bank") = 0
         /\ Entered("transfer_reversed", o, "platform_revenue") = 0
         /\ Entered("transfer_reversed", o, "stripe_fees") = 0
         /\ Entered("transfer_reversed", o, "shipping_costs") = 0
         /\ Entered("transfer_reversed", o, "tax_payable") = 0
         /\ Entered("transfer_reversed", o, "seller_payable") = Share
         /\ Entered("transfer_reversed", o, "auction_escrow") = 0
<1>1. Entries(Txn("transfer_reversed", o)) = BookTransferReversed
  BY DEF Entries, Txn
<1> QED
  BY <1>1 DEF Entered, BookTransferReversed

LEMMA CostEntered ==
  ASSUME NEW o \in Orders, Posted("shipping_cost", o)
  PROVE  /\ Entered("shipping_cost", o, "platform_clearing") = 0
         /\ Entered("shipping_cost", o, "platform_bank") = CourierCost
         /\ Entered("shipping_cost", o, "platform_revenue") = 0
         /\ Entered("shipping_cost", o, "stripe_fees") = 0
         /\ Entered("shipping_cost", o, "shipping_costs") = -CourierCost
         /\ Entered("shipping_cost", o, "tax_payable") = 0
         /\ Entered("shipping_cost", o, "seller_payable") = 0
         /\ Entered("shipping_cost", o, "auction_escrow") = 0
<1>1. Entries(Txn("shipping_cost", o)) = BookShippingCost
  BY DEF Entries, Txn
<1> QED
  BY <1>1 DEF Entered, BookShippingCost

LEMMA NotEntered ==
  ASSUME NEW o \in Orders, NEW type, ~Posted(type, o)
  PROVE  \A account : Entered(type, o, account) = 0
BY DEF Entered

\* Each booking balances on its own.
LEMMA EachBalances ==
  ASSUME NEW o \in Orders, NEW type \in TxnTypes
  PROVE  /\ Entered(type, o, "platform_clearing") + Entered(type, o, "platform_bank")
            + Entered(type, o, "platform_revenue") + Entered(type, o, "stripe_fees")
            + Entered(type, o, "shipping_costs") + Entered(type, o, "tax_payable")
            + Entered(type, o, "seller_payable") + Entered(type, o, "auction_escrow") = 0
         /\ \A account \in {"platform_clearing", "platform_bank", "platform_revenue", "stripe_fees",
                            "shipping_costs", "tax_payable", "seller_payable", "auction_escrow"} :
              Entered(type, o, account) \in Int
<1> USE Amounts
<1>1. Share = Artwork - Commission /\ Total = Artwork + Shipping + Tax
  BY DEF Share, Total
<1>2. Prepaid(o) \in Int /\ KeptFee(o) \in Int
  BY DEF Prepaid, KeptFee
<1>3. CASE ~Posted(type, o)
  BY <1>3, NotEntered
<1>4. CASE Posted(type, o) /\ type = "order_paid"
  BY <1>1, <1>2, <1>4, PaidEntered
<1>5. CASE Posted(type, o) /\ type = "refund_issued"
  BY <1>1, <1>2, <1>5, RefundEntered
<1>6. CASE Posted(type, o) /\ type = "payout_released"
  BY <1>1, <1>2, <1>6, PayoutEntered
<1>7. CASE Posted(type, o) /\ type = "transfer_reversed"
  BY <1>1, <1>2, <1>7, ReversalEntered
<1>8. CASE Posted(type, o) /\ type = "shipping_cost"
  BY <1>1, <1>2, <1>8, CostEntered
<1> QED
  BY <1>3, <1>4, <1>5, <1>6, <1>7, <1>8 DEF TxnTypes

LEMMA AllBalance == \A o \in Orders : OrderBalances(o)
<1> TAKE o \in Orders
<1> DEFINE E(t, account) == Entered(t, o, account)
<1>1. TxnTypes =
        {"order_paid", "payout_released", "refund_issued", "shipping_cost", "transfer_reversed"}
  BY DEF TxnTypes
<1>2. \A t \in TxnTypes :
        /\ E(t, "platform_clearing") \in Int /\ E(t, "platform_bank") \in Int
        /\ E(t, "platform_revenue") \in Int /\ E(t, "stripe_fees") \in Int
        /\ E(t, "shipping_costs") \in Int /\ E(t, "tax_payable") \in Int
        /\ E(t, "seller_payable") \in Int /\ E(t, "auction_escrow") \in Int
  BY EachBalances
<1>3. \A t \in TxnTypes :
        E(t, "platform_clearing") + E(t, "platform_bank") + E(t, "platform_revenue")
        + E(t, "stripe_fees") + E(t, "shipping_costs") + E(t, "tax_payable")
        + E(t, "seller_payable") + E(t, "auction_escrow") = 0
  BY EachBalances
<1>4. \A account : Balance(o, account) =
        E("order_paid", account) + E("payout_released", account) + E("refund_issued", account)
        + E("shipping_cost", account) + E("transfer_reversed", account)
  BY DEF Balance
<1> HIDE DEF E
<1> QED
  BY <1>1, <1>2, <1>3, <1>4 DEF OrderBalances

\* The accounts of an order that the properties look at.
LEMMA ClearingBalance ==
  ASSUME NEW o \in Orders, Posted("order_paid", o)
  PROVE  Balance(o, "platform_clearing") =
           Fee - (Total - Prepaid(o))
           + (IF Posted("payout_released", o) THEN Share ELSE 0)
           + (IF Posted("refund_issued", o) THEN Total - KeptFee(o) ELSE 0)
           - (IF Posted("transfer_reversed", o) THEN Share ELSE 0)
<1>1. Share \in Int /\ Total \in Int /\ Prepaid(o) \in Int /\ KeptFee(o) \in Int /\ Fee \in Int
  BY Amounts DEF Share, Total, Prepaid, KeptFee
<1>2. /\ Entered("order_paid", o, "platform_clearing") = Fee - (Total - Prepaid(o))
      /\ Entered("shipping_cost", o, "platform_clearing") = 0
  BY PaidEntered, CostEntered, NotEntered
<1>3. Entered("payout_released", o, "platform_clearing") =
        IF Posted("payout_released", o) THEN Share ELSE 0
  BY PayoutEntered, NotEntered
<1>4. Entered("refund_issued", o, "platform_clearing") =
        IF Posted("refund_issued", o) THEN Total - KeptFee(o) ELSE 0
  BY RefundEntered, NotEntered
<1>5. Entered("transfer_reversed", o, "platform_clearing") =
        IF Posted("transfer_reversed", o) THEN -Share ELSE 0
  BY ReversalEntered, NotEntered
<1> QED
  BY <1>1, <1>2, <1>3, <1>4, <1>5 DEF Balance

LEMMA SellerPayable ==
  ASSUME NEW o \in Orders, Posted("order_paid", o)
  PROVE  Balance(o, "seller_payable") =
           Share
           - (IF Posted("payout_released", o) THEN Share ELSE 0)
           - (IF Posted("refund_issued", o) THEN Share ELSE 0)
           + (IF Posted("transfer_reversed", o) THEN Share ELSE 0)
<1>1. Share \in Int
  BY Amounts DEF Share
<1>2. /\ Entered("order_paid", o, "seller_payable") = Share
      /\ Entered("shipping_cost", o, "seller_payable") = 0
  BY PaidEntered, CostEntered, NotEntered
<1>3. Entered("payout_released", o, "seller_payable") =
        IF Posted("payout_released", o) THEN -Share ELSE 0
  BY PayoutEntered, NotEntered
<1>4. Entered("refund_issued", o, "seller_payable") =
        IF Posted("refund_issued", o) THEN -Share ELSE 0
  BY RefundEntered, NotEntered
<1>5. Entered("transfer_reversed", o, "seller_payable") =
        IF Posted("transfer_reversed", o) THEN Share ELSE 0
  BY ReversalEntered, NotEntered
<1> QED
  BY <1>1, <1>2, <1>3, <1>4, <1>5 DEF Balance

PaidBooked == \A o \in Orders : Posted("order_paid", o)

\* No step takes a transaction out of the ledger.
LEMMA LedgerGrows ==
  ASSUME [Next]_vars
  PROVE  ledger \subseteq ledger'
<1>1. ASSUME NEW o \in Orders,
             \/ CreateShipment(o) \/ Delivered(o) \/ RecordCost(o) \/ ReportIssue(o) \/ Cancel(o)
      PROVE  ledger \subseteq ledger'
  BY <1>1, OrderStepMoves DEF Post
<1>2. ASSUME NEW o \in Orders, NEW w \in Workers,
             ConfirmReceived(w, o) \/ ReleaseOrder(w, o) \/ RetryPayout(w, o)
      PROVE  ledger' = ledger
  BY <1>2 DEF ConfirmReceived, ReleaseOrder, RetryPayout, rows
<1>3. ASSUME NEW w \in Workers, PayoutStep(w) PROVE ledger \subseteq ledger'
  BY <1>3, PayoutPosts DEF Post
<1>4. ASSUME NEW a \in Admins, RefundStep(a) PROVE ledger \subseteq ledger'
  BY <1>4, RefundPosts DEF Post
<1>5. ASSUME NEW o \in Orders, Webhook(o) PROVE ledger \subseteq ledger'
  BY <1>5, WebhookPosts DEF Post
<1>6. ASSUME \/ \E o \in Orders :
                  \/ \E a \in Admins : BeginRefund(a, o)
                  \/ \E part \in BOOLEAN : RefundByHand(o, part)
                  \/ OpenChargeback(o)
                  \/ \E won \in BOOLEAN : CloseChargeback(o, won)
                  \/ \E fate \in {"failed", "reversed"} : TransferReturns(o, fate)
             \/ \E ready \in BOOLEAN : OnAccountUpdated(ready)
             \/ StartOnboarding \/ OnboardingStatus \/ AccountChanges \/ Crash
             \/ UNCHANGED vars
      PROVE  UNCHANGED rows
  BY <1>6 DEF BeginRefund, RefundByHand, OpenChargeback, CloseChargeback, TransferReturns,
              OnAccountUpdated, StartOnboarding, OnboardingStatus, AccountChanges, Crash, vars
<1> QED
  BY <1>1, <1>2, <1>3, <1>4, <1>5, <1>6 DEF Next, rows

LEMMA AlwaysPaidBooked == Spec => []PaidBooked
<1>1. Init => PaidBooked
  BY DEF Init, PaidBooked, Posted
<1>2. PaidBooked /\ [Next]_vars => PaidBooked'
  BY LedgerGrows DEF PaidBooked, Posted
<1> QED
  BY <1>1, <1>2, PTL DEF Spec

\* Under every hazard the books of each order balance, and where they have caught
\* up with an order that was not refunded they hold what Stripe holds.
LEMMA ClearingTrue ==
  ASSUME TypeOK, PayoutBooked, PaidBooked
  PROVE  ClearingIsStripe
<1> SUFFICES ASSUME NEW o \in Orders, BooksSay(o) = MoneyIs(o), refunds[o] = {}
    PROVE  BooksHold(o) = StripeHolds(o)
  BY DEF ClearingIsStripe
<1>1. ~RefundedWhole(o) /\ MoneyIs(o) # "collector"
  BY DEF RefundedWhole, MoneyIs
<1>2. ~Posted("refund_issued", o)
  BY <1>1 DEF BooksSay
<1>3. Posted("transfer_reversed", o) => Posted("payout_released", o)
  BY DEF PayoutBooked
<1>4. PaidArtist(o) <=> Posted("payout_released", o) /\ ~Posted("transfer_reversed", o)
  BY <1>1, <1>2 DEF BooksSay, MoneyIs
<1>5. Share \in Int /\ Total \in Int /\ Fee \in Int /\ PrepaidFee \in Int /\ Artwork \in Int
  BY Amounts DEF Share, Total
<1>6. Balance(o, "platform_clearing") =
        Fee - (Total - Prepaid(o)) + (IF PaidArtist(o) THEN Share ELSE 0)
  BY <1>2, <1>3, <1>4, <1>5, ClearingBalance DEF PaidBooked, Prepaid
<1>7. StripeHolds(o) = Total - KeptFee(o) - (IF PaidArtist(o) THEN Share ELSE 0)
  BY <1>5 DEF StripeHolds, KeptFee
<1> QED
  BY <1>5, <1>6, <1>7 DEF BooksHold, Prepaid, KeptFee

\* Every order's books sum to nothing, and once they have caught up with an order that
\* was not refunded, its clearing balance is what Stripe holds, under every hazard.
THEOREM ClearingAlwaysTrue ==
  Spec => [](ClearingIsStripe /\ \A o \in Orders : OrderBalances(o))
<1>1. TypeOK /\ PayoutBooked /\ PaidBooked => ClearingIsStripe /\ \A o \in Orders : OrderBalances(o)
  BY ClearingTrue, AllBalance
<1> QED
  BY <1>1, AlwaysPaidBooked, InitTyped, StepTyped, InitBooked, StepPayoutBooked, StepMade, PTL
  DEF Spec

\* The artist is owed what is held, unless a completion and a refund crossed.
LEMMA OwedTrue ==
  ASSUME Kept, PaidBooked
  PROVE  OwedIsHeld
<1> SUFFICES ASSUME NEW o \in Orders, o \notin crossed
    PROVE  Balance(o, "seller_payable") = IF BooksSay(o) = "held" THEN Share ELSE 0
  BY DEF OwedIsHeld
<1>1. Share \in Int
  BY Amounts DEF Share
<1>2. /\ Posted("transfer_reversed", o) => Posted("payout_released", o)
      /\ ~(Posted("payout_released", o) /\ Posted("refund_issued", o))
  BY Where DEF Kept, PayoutBooked
<1> QED
  BY <1>1, <1>2, SellerPayable DEF PaidBooked, BooksSay

\* The books balance and are true, of Stripe and of the artist.
THEOREM BooksTrue ==
  ASSUME Steady
  PROVE  Spec => []BooksAreTrue
<1>1. Kept /\ PaidBooked => BooksAreTrue
  BY ClearingTrue, OwedTrue, AllBalance DEF BooksAreTrue, Kept
<1> QED
  BY <1>1, StepKept, InitKept, AlwaysPaidBooked, PTL DEF Spec
===============================================================================
