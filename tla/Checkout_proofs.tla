---------------------------- MODULE Checkout_proofs ----------------------------
(***************************************************************************)
(* Theorems about Checkout.  What concerns the books, and that a work is   *)
(* sold once unless orders were crossed, holds whatever the environment    *)
(* does; that the work's status follows its orders, and the refinement of  *)
(* OneWork, need checkouts that do not overlap and owners who leave        *)
(* committed works alone; that a cancelled order is not charged needs the  *)
(* sweep to be the only one who cancels.                                   *)
(***************************************************************************)
EXTENDS Checkout, TLAPS

\* An event says what Stripe has done, and a charge needs a payment sheet,
\* which the buyer has only for an order with its reference.
StripeTruthful ==
  \A o \in Orders :
    /\ "succeeded" \in events[o] => intents[o] = "succeeded"
    /\ intents[o] \in {"processing", "succeeded"} => orders[o].referenced

\* An order that does not exist has nothing.
Blank ==
  \A o \in Orders : orders[o].status = "none" =>
    orders[o] = NoOrderRow /\ intents[o] = "none" /\ events[o] = {}

Inv == TypeOK /\ StripeTruthful /\ Blank /\ PaidIsCharged

-----------------------------------------------------------------------------
(* The books, under every hazard. *)

\* Initially no order exists.
LEMMA InitInv == Init => Inv
<1> SUFFICES ASSUME Init PROVE Inv
  OBVIOUS
<1>1. crossed \in BOOLEAN
  BY Zenon DEF Init
<1>2. TypeOK
  BY <1>1 DEF Init, TypeOK, PieceStatuses, AuctionStatuses, OrderRows, OrderStatuses,
              NoOrderRow, Views, IntentStatuses
<1>3. StripeTruthful /\ Blank /\ PaidIsCharged
  BY DEF Init, StripeTruthful, Blank, PaidIsCharged, NoOrderRow
<1> QED
  BY <1>2, <1>3 DEF Inv

\* The history stays what it is, a truth value.
LEMMA CrossedTyped ==
  ASSUME TypeOK, Next
  PROVE  crossed' \in BOOLEAN
<1>1. ASSUME NEW o \in Orders,
             \/ Collect(o) \/ AuctionCheckout(o) \/ OnPaymentFailed(o)
             \/ Cancel(o) \/ ExpireAbandoned(o) \/ Refund(o)
      PROVE  crossed' \in BOOLEAN
  BY <1>1 DEF Collect, AuctionCheckout, OnPaymentFailed, Cancel, ExpireAbandoned, Refund, Crosses
<1>2. ASSUME NEW o \in Orders,
             \/ LoadPiece(o) \/ CreateIntent(o) \/ Confirm(o) \/ OnPaymentSucceeded(o)
             \/ Ship(o) \/ Settle(o, "succeeded") \/ Settle(o, "failed")
      PROVE  crossed' \in BOOLEAN
  BY <1>2 DEF LoadPiece, CreateIntent, Confirm, OnPaymentSucceeded, Ship, Settle, TypeOK
<1>3. ASSUME (\E s \in PieceStatuses : EditStatus(s)) \/ EditTerms PROVE crossed' \in BOOLEAN
  BY <1>3 DEF EditStatus, EditTerms, Crosses, TypeOK
<1> QED
  BY <1>1, <1>2, <1>3 DEF Next

\* A piece is released to a status it may have.
LEMMA ReleaseTyped ==
  ASSUME TypeOK, ReleasePieces
  PROVE  piece' \in PieceStatuses
BY DEF TypeOK, ReleasePieces, ReleaseTarget, AuctionStatuses, RunningAuction, PieceStatuses

\* A checkout makes a new order out of a slot that has nothing.
LEMMA CheckoutInv ==
  ASSUME Inv, Next, NEW o \in Orders, Collect(o) \/ AuctionCheckout(o)
  PROVE  Inv'
<1>1. /\ NewOrder \in OrderRows
      /\ piece' \in PieceStatuses /\ auction' \in AuctionStatuses
      /\ listing' \in {"fixed", "auction"} /\ loaded' \in [Orders -> Views]
  BY DEF Inv, TypeOK, Collect, AuctionCheckout, NewOrder, NoOrderRow, OrderRows,
         OrderStatuses, PieceStatuses, AuctionStatuses, Views
<1>2. /\ orders' = [orders EXCEPT ![o] = NewOrder]
      /\ intents' = intents /\ events' = events
      /\ orders[o].status = "none"
  BY DEF Collect, AuctionCheckout, stripeVars
<1>3. orders[o] = NoOrderRow /\ intents[o] = "none" /\ events[o] = {}
  BY <1>2 DEF Inv, Blank
<1>4. NewOrder.status = "pending_payment" /\ NewOrder.booked = FALSE
  BY DEF NewOrder, NoOrderRow
<1>5. TypeOK'
  BY CrossedTyped, <1>1, <1>2 DEF Inv, TypeOK
<1>6. StripeTruthful' /\ Blank' /\ PaidIsCharged'
  BY <1>2, <1>3, <1>4 DEF Inv, TypeOK, StripeTruthful, Blank, PaidIsCharged
<1> QED
  BY <1>5, <1>6 DEF Inv

\* An existing order changes its status alone, to one that does not claim more
\* than its books, and Stripe does not learn of it.
LEMMA StatusInv ==
  ASSUME Inv, NEW o \in Orders, NEW s \in OrderStatuses \ {"none"}, SetStatus(o, s),
         orders[o].status # "none",
         s \in {"paid", "shipped", "refunded"} => orders[o].booked,
         intents' = intents,
         events' = events \/ \E e \in {"succeeded", "failed"} : events' = [events EXCEPT ![o] = @ \ {e}]
  PROVE  /\ orders' \in [Orders -> OrderRows]
         /\ events' \in [Orders -> SUBSET {"succeeded", "failed"}]
         /\ StripeTruthful' /\ Blank' /\ PaidIsCharged'
<1>1. orders' \in [Orders -> OrderRows]
  BY DEF Inv, TypeOK, SetStatus, OrderRows
<1>2. \A p \in Orders : /\ orders'[p].booked = orders[p].booked
                        /\ orders'[p].referenced = orders[p].referenced
                        /\ p # o => orders'[p] = orders[p]
  BY DEF Inv, TypeOK, SetStatus, OrderRows
<1>3. orders'[o].status = s
  BY DEF Inv, TypeOK, SetStatus, OrderRows
<1>4. /\ events' \in [Orders -> SUBSET {"succeeded", "failed"}]
      /\ \A p \in Orders : events'[p] \subseteq events[p]
  BY DEF Inv, TypeOK
<1> QED
  BY <1>1, <1>2, <1>3, <1>4 DEF Inv, TypeOK, StripeTruthful, Blank, PaidIsCharged

\* Everything about orders and Stripe stays, except that events are acknowledged.
LEMMA QuietInv ==
  ASSUME Inv, orders' = orders, intents' = intents,
         \/ events' = events
         \/ \E o \in Orders, e \in {"succeeded", "failed"} : events' = [events EXCEPT ![o] = @ \ {e}]
  PROVE  /\ events' \in [Orders -> SUBSET {"succeeded", "failed"}]
         /\ StripeTruthful' /\ Blank' /\ PaidIsCharged'
<1>1. /\ events' \in [Orders -> SUBSET {"succeeded", "failed"}]
      /\ \A p \in Orders : events'[p] \subseteq events[p]
  BY DEF Inv, TypeOK
<1> QED
  BY <1>1 DEF Inv, StripeTruthful, Blank, PaidIsCharged

\* A payment webhook leaves an order that Stripe has charged, booked.
LEMMA SucceededInv ==
  ASSUME Inv, Next, NEW o \in Orders, OnPaymentSucceeded(o)
  PROVE  Inv'
<1>1. intents[o] = "succeeded" /\ intents' = intents /\ listing' = listing
      /\ auction' = auction /\ loaded' = loaded
  BY DEF Inv, StripeTruthful, OnPaymentSucceeded
<1>2. piece' \in PieceStatuses
  BY DEF Inv, TypeOK, OnPaymentSucceeded, PieceStatuses
<1>3. /\ events' \in [Orders -> SUBSET {"succeeded", "failed"}]
      /\ \A p \in Orders : events'[p] \subseteq events[p]
  BY DEF Inv, TypeOK, OnPaymentSucceeded, Acknowledge
<1>4. \/ orders' = orders
      \/ orders' = [orders EXCEPT ![o] = [status |-> "paid", referenced |-> TRUE, booked |-> TRUE]]
  <2>1. CASE Pending(o)
    BY <2>1 DEF OnPaymentSucceeded, Pending
  <2>2. CASE orders[o].status = "paid"
    BY <2>2 DEF OnPaymentSucceeded, Pending, Inv, TypeOK, OrderRows
  <2>3. CASE orders[o].status \notin {"pending_payment", "paid"}
    BY <2>3 DEF OnPaymentSucceeded, Pending
  <2> QED
    BY <2>1, <2>2, <2>3 DEF Pending
<1>5. /\ orders' \in [Orders -> OrderRows]
      /\ \A p \in Orders : \/ orders'[p] = orders[p]
                           \/ p = o /\ orders'[p] = [status |-> "paid", referenced |-> TRUE, booked |-> TRUE]
  <2>1. [status |-> "paid", referenced |-> TRUE, booked |-> TRUE] \in OrderRows
    BY DEF OrderRows, OrderStatuses
  <2> QED
    BY <1>4, <2>1 DEF Inv, TypeOK
<1>6. TypeOK'
  BY CrossedTyped, <1>1, <1>2, <1>3, <1>5 DEF Inv, TypeOK
<1>7. StripeTruthful' /\ Blank' /\ PaidIsCharged'
  BY <1>1, <1>3, <1>5 DEF Inv, TypeOK, StripeTruthful, Blank, PaidIsCharged
<1> QED
  BY <1>6, <1>7 DEF Inv

\* A declined payment fails a pending order, and no other.
LEMMA FailedInv ==
  ASSUME Inv, Next, NEW o \in Orders, OnPaymentFailed(o)
  PROVE  Inv'
<1>1. /\ intents' = intents /\ listing' = listing /\ auction' = auction /\ loaded' = loaded
      /\ \/ events' = events
         \/ \E e \in {"succeeded", "failed"} : events' = [events EXCEPT ![o] = @ \ {e}]
  BY DEF OnPaymentFailed, Acknowledge
<1>2. CASE Pending(o)
  <2>1. SetStatus(o, "failed") /\ ReleasePieces
    BY <1>2 DEF OnPaymentFailed
  <2>2. piece' \in PieceStatuses
    BY <2>1, ReleaseTyped DEF Inv
  <2>3. /\ orders' \in [Orders -> OrderRows]
        /\ events' \in [Orders -> SUBSET {"succeeded", "failed"}]
        /\ StripeTruthful' /\ Blank' /\ PaidIsCharged'
    BY <1>1, <1>2, <2>1, StatusInv DEF OrderStatuses, Pending
  <2> QED
    BY CrossedTyped, <1>1, <2>2, <2>3 DEF Inv, TypeOK
<1>3. CASE ~Pending(o)
  <2>1. piece' = piece /\ orders' = orders
    BY <1>3 DEF OnPaymentFailed
  <2> QED
    BY CrossedTyped, <1>1, <2>1, QuietInv DEF Inv, TypeOK
<1> QED
  BY <1>2, <1>3

\* Cancelling, refunding and shipping change the status of an order.
LEMMA EndInv ==
  ASSUME Inv, Next, NEW o \in Orders, Cancel(o) \/ Refund(o) \/ Ship(o)
  PROVE  Inv'
<1>1. /\ intents' = intents /\ events' = events /\ listing' = listing
      /\ auction' = auction /\ loaded' = loaded
  BY DEF Cancel, Refund, Ship, stripeVars, pieceVars
<1>2. piece' \in PieceStatuses
  BY ReleaseTyped DEF Inv, TypeOK, Cancel, Refund, Ship, pieceVars
<1>3. /\ orders' \in [Orders -> OrderRows]
      /\ StripeTruthful' /\ Blank' /\ PaidIsCharged'
  <2>1. CASE Cancel(o)
    BY <2>1, <1>1, StatusInv DEF Cancel, OrderStatuses
  <2>2. CASE Refund(o)
    BY <2>2, <1>1, StatusInv DEF Refund, OrderStatuses, Inv, PaidIsCharged
  <2>3. CASE Ship(o)
    BY <2>3, <1>1, StatusInv DEF Ship, OrderStatuses, Inv, PaidIsCharged
  <2> QED
    BY <2>1, <2>2, <2>3
<1> QED
  BY CrossedTyped, <1>1, <1>2, <1>3 DEF Inv, TypeOK

\* The sweep closes an intent nobody is paying, and then cancels the order.
LEMMA ExpireInv ==
  ASSUME Inv, Next, NEW o \in Orders, ExpireAbandoned(o)
  PROVE  Inv'
<1>1. /\ events' = events /\ listing' = listing /\ auction' = auction /\ loaded' = loaded
      /\ orders[o].status = "pending_payment"
      /\ intents[o] # "succeeded" /\ intents[o] # "processing"
  BY DEF ExpireAbandoned, Pending, Inv, StripeTruthful
<1>2. /\ intents' \in [Orders -> IntentStatuses]
      /\ \A p \in Orders : intents'[p] = intents[p] \/ (p = o /\ intents'[p] = "canceled")
  BY DEF ExpireAbandoned, Inv, TypeOK, IntentStatuses
<1>3. \/ piece' = piece /\ orders' = orders
      \/ ReleasePieces /\ orders' = [orders EXCEPT ![o].status = "cancelled"]
  BY DEF ExpireAbandoned, CommitsOrDies, SetStatus
<1>4. piece' \in PieceStatuses
  BY <1>3, ReleaseTyped DEF Inv, TypeOK
<1>5. /\ orders' \in [Orders -> OrderRows]
      /\ \A p \in Orders :
           /\ orders'[p].booked = orders[p].booked
           /\ orders'[p].referenced = orders[p].referenced
           /\ orders'[p] = orders[p] \/ (p = o /\ orders'[p].status = "cancelled")
  BY <1>3 DEF Inv, TypeOK, OrderRows, OrderStatuses
<1>6. TypeOK'
  BY CrossedTyped, <1>1, <1>2, <1>4, <1>5 DEF Inv, TypeOK
<1>7. StripeTruthful' /\ Blank' /\ PaidIsCharged'
  BY <1>1, <1>2, <1>5 DEF Inv, StripeTruthful, Blank, PaidIsCharged
<1> QED
  BY <1>6, <1>7 DEF Inv

\* An intent is made for a pending order, and confirmed and settled by Stripe.
LEMMA IntentInv ==
  ASSUME Inv, Next, NEW o \in Orders,
         CreateIntent(o) \/ Confirm(o) \/ Settle(o, "succeeded") \/ Settle(o, "failed")
  PROVE  Inv'
<1>1. CASE CreateIntent(o)
  <2>1. /\ listing' = listing /\ auction' = auction /\ loaded' = loaded /\ events' = events
        /\ orders[o].status = "pending_payment"
        /\ intents' = [intents EXCEPT ![o] = IF @ = "none" THEN "open" ELSE @]
        /\ piece' = piece
        /\ orders' = orders \/ orders' = [orders EXCEPT ![o].referenced = TRUE]
    BY <1>1 DEF CreateIntent, Pending, CommitsOrDies
  <2>2. /\ intents' \in [Orders -> IntentStatuses]
        /\ \A p \in Orders : intents'[p] = intents[p]
             \/ (p = o /\ intents[p] = "none" /\ intents'[p] = "open")
    BY <2>1 DEF Inv, TypeOK, IntentStatuses
  <2>3. /\ orders' \in [Orders -> OrderRows]
        /\ \A p \in Orders : /\ orders'[p].status = orders[p].status
                             /\ orders'[p].booked = orders[p].booked
                             /\ orders[p].referenced => orders'[p].referenced
                             /\ p # o => orders'[p] = orders[p]
    <3>1. CASE orders' = orders
      BY <3>1 DEF Inv, TypeOK
    <3>2. CASE orders' = [orders EXCEPT ![o].referenced = TRUE]
      BY <3>2 DEF Inv, TypeOK, OrderRows
    <3> QED
      BY <2>1, <3>1, <3>2
  <2>4. TypeOK'
    BY CrossedTyped, <2>1, <2>2, <2>3 DEF Inv, TypeOK
  <2>5. StripeTruthful' /\ Blank' /\ PaidIsCharged'
    BY <2>1, <2>2, <2>3 DEF Inv, StripeTruthful, Blank, PaidIsCharged
  <2> QED
    BY <2>4, <2>5 DEF Inv
<1>2. CASE Confirm(o)
  BY <1>2 DEF Confirm, Inv, TypeOK, StripeTruthful, Blank, PaidIsCharged, IntentStatuses, pieceVars
<1>3. CASE Settle(o, "succeeded")
  BY <1>3 DEF Settle, Inv, TypeOK, StripeTruthful, Blank, PaidIsCharged, IntentStatuses, pieceVars
<1>4. CASE Settle(o, "failed")
  BY <1>4 DEF Settle, Inv, TypeOK, StripeTruthful, Blank, PaidIsCharged, IntentStatuses, pieceVars
<1> QED
  BY <1>1, <1>2, <1>3, <1>4

\* Loading a piece and editing it touch no order.
LEMMA PieceInv ==
  ASSUME Inv, Next,
         (\E o \in Orders : LoadPiece(o)) \/ (\E s \in PieceStatuses : EditStatus(s)) \/ EditTerms
  PROVE  Inv'
<1>1. orders' = orders /\ intents' = intents /\ events' = events
  BY DEF LoadPiece, EditStatus, EditTerms, stripeVars
<1>2. StripeTruthful' /\ Blank' /\ PaidIsCharged'
  BY <1>1, QuietInv
<1>3. TypeOK'
  BY CrossedTyped, <1>1 DEF Inv, TypeOK, LoadPiece, EditStatus, EditTerms, pieceVars, Views, PieceStatuses
<1> QED
  BY <1>2, <1>3 DEF Inv

\* Every step keeps the invariant.
LEMMA StepInv == Inv /\ [Next]_vars => Inv'
<1>1. ASSUME Inv, UNCHANGED vars PROVE Inv'
  BY <1>1 DEF vars, pieceVars, stripeVars, Inv, TypeOK, StripeTruthful, Blank, PaidIsCharged
<1> QED
  BY <1>1, CheckoutInv, SucceededInv, FailedInv, EndInv, ExpireInv, IntentInv, PieceInv DEF Next

\* The inductive invariant of the books holds.
THEOREM Invariance == Spec => []Inv
BY InitInv, StepInv, PTL DEF Spec

\* Every variable keeps its type.
THEOREM Typed == Spec => []TypeOK
<1>1. Inv => TypeOK
  BY DEF Inv
<1> QED
  BY <1>1, Invariance, PTL

\* Whatever overlaps, crashes, repeats or is edited: an order is paid and booked
\* only with Stripe's money behind it, and never paid without being booked.
THEOREM BooksFollowStripe == Spec => []PaidIsCharged
<1>1. Inv => PaidIsCharged
  BY DEF Inv
<1> QED
  BY <1>1, Invariance, PTL

\* One step leaves a released order released, and its books alone.
LEMMA ReleasedStep ==
  ASSUME Inv, Next, NEW p \in Orders, orders[p].status \in Released
  PROVE  orders'[p].status = orders[p].status /\ orders'[p].booked = orders[p].booked
<1> USE DEF Inv, TypeOK, Released
<1>1. ASSUME NEW o \in Orders, Collect(o) \/ AuctionCheckout(o) PROVE orders'[p] = orders[p]
  BY <1>1 DEF Collect, AuctionCheckout
<1>2. ASSUME NEW o \in Orders, CreateIntent(o) PROVE orders'[p] = orders[p]
  BY <1>2 DEF CreateIntent, CommitsOrDies, Pending
<1>3. ASSUME NEW o \in Orders, OnPaymentSucceeded(o) PROVE orders'[p] = orders[p]
  BY <1>3 DEF OnPaymentSucceeded, Pending
<1>4. ASSUME NEW o \in Orders, OnPaymentFailed(o) PROVE orders'[p] = orders[p]
  BY <1>4 DEF OnPaymentFailed, SetStatus, Pending
<1>5. ASSUME NEW o \in Orders, Cancel(o) \/ Refund(o) \/ Ship(o) PROVE orders'[p] = orders[p]
  BY <1>5 DEF Cancel, Refund, Ship, SetStatus
<1>6. ASSUME NEW o \in Orders, ExpireAbandoned(o) PROVE orders'[p] = orders[p]
  BY <1>6 DEF ExpireAbandoned, CommitsOrDies, SetStatus, Pending
<1>7. ASSUME \/ EditTerms
             \/ \E s \in PieceStatuses : EditStatus(s)
             \/ \E o \in Orders : \/ LoadPiece(o) \/ Confirm(o)
                                  \/ Settle(o, "succeeded") \/ Settle(o, "failed")
      PROVE orders'[p] = orders[p]
  BY <1>7 DEF EditTerms, EditStatus, LoadPiece, Confirm, Settle
<1> QED
  BY <1>1, <1>2, <1>3, <1>4, <1>5, <1>6, <1>7 DEF Next

\* No late, repeated or reordered event revives a released order.
THEOREM NeverRevived == Spec => ReleasedForGood
<1>1. Inv /\ [Next]_vars =>
        [\A o \in Orders : orders[o].status \in Released =>
           /\ orders'[o].status = orders[o].status
           /\ orders'[o].booked = orders[o].booked]_vars
  BY ReleasedStep DEF vars
<1> QED
  BY <1>1, Invariance, PTL DEF Spec, ReleasedForGood

-----------------------------------------------------------------------------
(* A work is sold once.                                                      *)

Single == \A o, p \in Holding : o = p

OneHolder == Inv /\ Single /\ PieceFollowsOrders

\* The piece tells whether any order holds it.
LEMMA PieceTells ==
  ASSUME PieceFollowsOrders
  PROVE  piece \in {"reserved", "sold"} <=> Holding # {}
BY DEF PieceFollowsOrders, Holding, Paid, Pending

\* A work is released to a status that says no order holds it.
LEMMA ReleaseFrees ==
  ASSUME TypeOK, ReleasePieces
  PROVE  piece' \notin {"reserved", "sold"}
BY DEF TypeOK, ReleasePieces, ReleaseTarget, AuctionStatuses, RunningAuction

\* An order that holds the work lets it go, and nobody holds it.
LEMMA LetGoStep ==
  ASSUME OneHolder, NEW o \in Holding, NEW s \in Released, SetStatus(o, s), ReleasePieces
  PROVE  Holding' = {} /\ Paid' = {} /\ Single' /\ PieceFollowsOrders'
<1>1. \A p \in Orders : p # o => orders'[p] = orders[p] /\ p \notin Holding
  BY DEF OneHolder, Inv, TypeOK, Single, SetStatus, Holding
<1>2. orders'[o].status \in Released
  BY DEF OneHolder, Inv, TypeOK, OrderRows, SetStatus, Holding
<1>3. \A p \in Orders : orders'[p].status \notin {"pending_payment", "paid", "shipped"}
  BY <1>1, <1>2 DEF Holding, Released
<1>4. piece' \notin {"reserved", "sold"}
  BY ReleaseFrees DEF OneHolder, Inv
<1> QED
  BY <1>3, <1>4 DEF Holding, Paid, Pending, Single, PieceFollowsOrders

\* A checkout takes a work nobody holds.
LEMMA TakeStep ==
  ASSUME OneHolder, ~crossed', NEW o \in Orders, Collect(o) \/ AuctionCheckout(o)
  PROVE  /\ Holding = {} /\ Holding' = {o} /\ Paid = {} /\ Paid' = {}
         /\ orders[o].status = "none"
         /\ Single' /\ PieceFollowsOrders'
<1>3. /\ orders[o].status = "none"
      /\ \A p \in Orders : p # o => orders'[p] = orders[p]
      /\ orders'[o].status = "pending_payment"
  BY DEF Collect, AuctionCheckout, NewOrder, NoOrderRow, OneHolder, Inv, TypeOK
<1>1. o \in Holding' /\ piece' = "reserved"
  BY <1>3 DEF Collect, AuctionCheckout, Holding
<1>2. Holding = {} /\ Paid = {}
  <2>1. Holding = {} \/ piece \notin {"reserved", "sold"}
    BY <1>1 DEF Collect, AuctionCheckout, Crosses, Buyable, Claimable
  <2> QED
    BY <2>1, PieceTells DEF OneHolder, Holding, Paid
<1>4. Holding' = {o} /\ Paid' = {}
  BY <1>2, <1>3 DEF Holding, Paid
<1> QED
  BY <1>1, <1>2, <1>3, <1>4 DEF Single, PieceFollowsOrders, Pending, Paid

\* A pending order is paid for, and the work it holds is sold.
LEMMA SellStep ==
  ASSUME OneHolder, NEW o \in Orders, OnPaymentSucceeded(o), Pending(o)
  PROVE  Holding = {o} /\ Holding' = {o} /\ Paid' = {o} /\ Single' /\ PieceFollowsOrders'
<1>1. piece' = "sold" /\ orders' = [orders EXCEPT ![o] = [status |-> "paid", referenced |-> TRUE, booked |-> TRUE]]
  BY DEF OnPaymentSucceeded, Pending
<1>2. o \in Holding /\ \A p \in Orders : p # o => p \notin Holding
  BY DEF OneHolder, Single, Holding, Pending
<1>3. Holding = {o}
  BY <1>2 DEF Holding
<1>4. /\ \A p \in Orders : p # o => orders'[p] = orders[p]
      /\ orders'[o].status = "paid"
  BY <1>1 DEF OneHolder, Inv, TypeOK
<1>5. Holding' = {o} /\ Paid' = {o}
  BY <1>2, <1>4 DEF Holding, Paid
<1>6. \A p \in Orders : ~Pending(p)'
  BY <1>2, <1>4 DEF Holding, Pending
<1>7. Single'
  BY <1>5 DEF Single
<1>8. PieceFollowsOrders'
  BY <1>1, <1>5, <1>6 DEF PieceFollowsOrders
<1> QED
  BY <1>3, <1>5, <1>7, <1>8

\* A paid order is shipped, and the work stays sold.
LEMMA ShipStep ==
  ASSUME OneHolder, NEW o \in Orders, Ship(o)
  PROVE  Holding' = Holding /\ Paid' = Paid /\ Single' /\ PieceFollowsOrders'
<1>1. /\ \A p \in Orders : p # o => orders'[p] = orders[p]
      /\ orders[o].status = "paid" /\ orders'[o].status = "shipped" /\ piece' = piece
  BY DEF Ship, SetStatus, OneHolder, Inv, TypeOK, OrderRows, pieceVars
<1>2. Holding' = Holding /\ Paid' = Paid
  BY <1>1 DEF Holding, Paid
<1>3. \A p \in Orders : Pending(p)' <=> Pending(p)
  BY <1>1 DEF Pending
<1> QED
  BY <1>1, <1>2, <1>3 DEF OneHolder, Single, PieceFollowsOrders

\* The piece moves, if at all, between statuses in which nobody holds it.
Untouched ==
  piece' = piece \/ (piece \notin {"reserved", "sold"} /\ piece' \notin {"reserved", "sold"})

\* A step that changes no order's status and leaves the piece untouched.
LEMMA StillStep ==
  ASSUME OneHolder, \A p \in Orders : orders'[p].status = orders[p].status, Untouched
  PROVE  Holding' = Holding /\ Paid' = Paid /\ Single' /\ PieceFollowsOrders'
<1>1. Holding' = Holding /\ Paid' = Paid
  BY DEF Holding, Paid
<1>2. \A p \in Orders : Pending(p)' <=> Pending(p)
  BY DEF Pending
<1> QED
  BY <1>1, <1>2 DEF OneHolder, Single, PieceFollowsOrders, Untouched

\* The steps StillStep speaks of.
Still(o) ==
  \/ LoadPiece(o) \/ CreateIntent(o) \/ Confirm(o)
  \/ Settle(o, "succeeded") \/ Settle(o, "failed")
  \/ OnPaymentSucceeded(o) /\ ~Pending(o)
  \/ OnPaymentFailed(o) /\ ~Pending(o)

\* They change neither the piece nor any status.
LEMMA StillFacts ==
  ASSUME Inv, NEW o \in Orders, Still(o)
  PROVE  piece' = piece /\ \A p \in Orders : orders'[p].status = orders[p].status
<1>1. CASE LoadPiece(o) \/ Confirm(o) \/ Settle(o, "succeeded") \/ Settle(o, "failed")
  BY <1>1 DEF LoadPiece, Confirm, Settle, pieceVars
<1>2. CASE CreateIntent(o)
  BY <1>2 DEF CreateIntent, CommitsOrDies, Inv, TypeOK, OrderRows
<1>3. CASE OnPaymentSucceeded(o) /\ ~Pending(o)
  BY <1>3 DEF OnPaymentSucceeded, Inv, TypeOK, OrderRows
<1>4. CASE OnPaymentFailed(o) /\ ~Pending(o)
  BY <1>4 DEF OnPaymentFailed
<1> QED
  BY <1>1, <1>2, <1>3, <1>4 DEF Still

\* Edits of the owner that cross no order leave the piece untouched.
LEMMA OwnerFacts ==
  ASSUME OneHolder, ~crossed', (\E s \in PieceStatuses : EditStatus(s)) \/ EditTerms
  PROVE  Untouched /\ orders' = orders
<1>1. CASE EditTerms
  BY <1>1 DEF EditTerms, Untouched
<1>2. ASSUME NEW s \in PieceStatuses, EditStatus(s) PROVE Untouched /\ orders' = orders
  <2>1. orders' = orders /\ piece' \notin {"reserved", "sold"}
    BY <1>2 DEF EditStatus
  <2>2. Holding' = Holding
    BY <2>1 DEF Holding
  <2>3. piece \notin {"reserved", "sold"}
    BY <1>2, <2>2, PieceTells DEF EditStatus, Crosses, Committed, OneHolder
  <2> QED
    BY <2>1, <2>3 DEF Untouched
<1> QED
  BY <1>1, <1>2

\* An order that holds the work lets go of it.
Ends(o) ==
  \/ Cancel(o)
  \/ Refund(o)
  \/ OnPaymentFailed(o) /\ Pending(o)
  \/ ExpireAbandoned(o) /\ orders' # orders

\* Whichever way it ends.
LEMMA EndFacts ==
  ASSUME NEW o \in Orders, Ends(o)
  PROVE  o \in Holding /\ ReleasePieces /\ \E s \in Released : SetStatus(o, s)
BY DEF Ends, Cancel, Refund, OnPaymentFailed, ExpireAbandoned, CommitsOrDies, Pending, Holding, Released

\* A sweep that died before its commit.
LEMMA DiedFacts ==
  ASSUME NEW o \in Orders, ExpireAbandoned(o), orders' = orders, Inv
  PROVE  piece' = piece
BY DEF ExpireAbandoned, CommitsOrDies, SetStatus, Pending, Inv, TypeOK, OrderRows

\* The four kinds of steps there are.
LEMMA Kinds ==
  ASSUME OneHolder, ~crossed', Next
  PROVE  \/ \E o \in Orders : Collect(o) \/ AuctionCheckout(o)
         \/ \E o \in Orders : OnPaymentSucceeded(o) /\ Pending(o)
         \/ \E o \in Orders : Ends(o)
         \/ \E o \in Orders : Ship(o)
         \/ /\ \A p \in Orders : orders'[p].status = orders[p].status
            /\ Untouched
BY StillFacts, OwnerFacts, DiedFacts DEF Next, Still, Ends, OneHolder, Untouched

\* Every step that crosses no order keeps one holder.
LEMMA StepOneHolder == OneHolder /\ ~crossed' /\ [Next]_vars => OneHolder'
<1> SUFFICES ASSUME OneHolder, ~crossed', [Next]_vars PROVE OneHolder'
  OBVIOUS
<1>1. Inv'
  BY StepInv DEF OneHolder
<1>2. CASE UNCHANGED vars
  BY <1>1, <1>2 DEF OneHolder, vars, pieceVars, Single, PieceFollowsOrders, Holding, Paid, Pending
<1>3. CASE Next
  BY <1>1, <1>3, Kinds, TakeStep, SellStep, EndFacts, LetGoStep, ShipStep, StillStep DEF OneHolder
<1> QED
  BY <1>2, <1>3

\* Initially nobody holds the work.
LEMMA InitOneHolder == Init => OneHolder
BY InitInv DEF Init, OneHolder, Single, PieceFollowsOrders, Holding, Paid, Pending, NoOrderRow

\* Only a step that lets go of the work, or the owner's, can be the end of a crossing.
LEMMA UncrossingEnds ==
  ASSUME Inv, crossed => Holding # {}, Next
  PROVE  /\ crossed' => Holding' # {}
         /\ crossed /\ ~crossed' => OneHolder'
<1>1. Inv'
  BY StepInv
<1>2. crossed' \in BOOLEAN
  BY <1>1 DEF Inv, TypeOK
<1>3. ASSUME \A p \in Orders : orders'[p].status = orders[p].status PROVE Holding' = Holding
  BY <1>3 DEF Holding
<1>4. ASSUME NEW o \in Orders, Collect(o) \/ AuctionCheckout(o)
      PROVE  Holding' # {} /\ (crossed => crossed')
  <2>1. o \in Holding'
    BY <1>4 DEF Collect, AuctionCheckout, NewOrder, NoOrderRow, Holding, Inv, TypeOK
  <2> QED
    BY <1>4, <2>1 DEF Collect, AuctionCheckout, Crosses
<1>5. ASSUME NEW o \in Orders, OnPaymentSucceeded(o) \/ Ship(o)
      PROVE  Holding' = Holding /\ crossed' = crossed
  <2>1. CASE Ship(o)
    BY <2>1 DEF Ship, SetStatus, Inv, TypeOK, OrderRows, Holding
  <2>2. CASE OnPaymentSucceeded(o)
    BY <2>2 DEF OnPaymentSucceeded, Pending, Inv, TypeOK, OrderRows, Holding
  <2> QED
    BY <1>5, <2>1, <2>2
<1>6. ASSUME NEW o \in Orders,
             LoadPiece(o) \/ CreateIntent(o) \/ Confirm(o)
               \/ Settle(o, "succeeded") \/ Settle(o, "failed")
      PROVE  Holding' = Holding /\ crossed' = crossed
  <2>1. \A p \in Orders : orders'[p].status = orders[p].status
    BY <1>6, StillFacts DEF Still
  <2> QED
    BY <1>3, <1>6, <2>1 DEF LoadPiece, CreateIntent, Confirm, Settle
<1>7. ASSUME EditTerms PROVE Holding' = Holding /\ crossed' = crossed
  BY <1>7 DEF EditTerms, Holding
<1>8. ASSUME NEW s \in PieceStatuses, EditStatus(s)
      PROVE  /\ Holding' = Holding
             /\ crossed' => Holding' # {}
             /\ crossed => crossed'
  BY <1>8 DEF EditStatus, Crosses, Holding
<1>9. ASSUME NEW o \in Orders,
             OnPaymentFailed(o) \/ Cancel(o) \/ ExpireAbandoned(o) \/ Refund(o)
      PROVE  /\ crossed' => Holding' # {}
             /\ crossed /\ ~crossed' => OneHolder'
  <2>1. crossed' = (crossed /\ Holding' # {})
    BY <1>9 DEF OnPaymentFailed, Cancel, ExpireAbandoned, Refund, Crosses
  <2>2. ASSUME crossed, Holding' = {} PROVE OneHolder'
    <3>1. orders' # orders
      BY <2>2 DEF Holding
    <3>2. ReleasePieces
      BY <1>9, <3>1 DEF OnPaymentFailed, Cancel, ExpireAbandoned, Refund, CommitsOrDies
    <3>3. piece' \notin {"reserved", "sold"}
      BY <3>2, ReleaseFrees DEF Inv
    <3> QED
      BY <1>1, <2>2, <3>3 DEF OneHolder, Single, PieceFollowsOrders, Holding, Paid, Pending
  <2> QED
    BY <2>1, <2>2
<1> QED
  BY <1>4, <1>5, <1>6, <1>7, <1>8, <1>9 DEF Next

\* A crossing lasts as long as some order holds the work, and outside it one does.
Tidy == Inv /\ (crossed => Holding # {}) /\ (~crossed => OneHolder)

LEMMA StepTidy == Tidy /\ [Next]_vars => Tidy'
<1> SUFFICES ASSUME Tidy, [Next]_vars PROVE Tidy'
  OBVIOUS
<1>1. Inv'
  BY StepInv DEF Tidy
<1>2. CASE UNCHANGED vars
  BY <1>1, <1>2 DEF Tidy, OneHolder, vars, pieceVars, Single, PieceFollowsOrders, Holding, Paid, Pending
<1>3. CASE Next
  <2>1. crossed' => Holding' # {}
    BY <1>3, UncrossingEnds DEF Tidy
  <2>2. ~crossed' => OneHolder'
    BY <1>3, UncrossingEnds, StepOneHolder DEF Tidy
  <2> QED
    BY <1>1, <2>1, <2>2 DEF Tidy
<1> QED
  BY <1>2, <1>3

\* One physical artwork is never kept for, or sold to, two orders at once, under every
\* hazard, unless a checkout went by an outdated row or the owner moved the work from
\* under an order (create_order, release_pieces, _on_payment_succeeded, patch).
THEOREM NoDoubleSale == Spec => []SoldOnce
<1>1. Tidy => SoldOnce
  BY DEF Tidy, OneHolder, Single, SoldOnce
<1>2. Init => Tidy
  BY InitOneHolder DEF Tidy, OneHolder, Init
<1> QED
  BY <1>1, <1>2, StepTidy, PTL DEF Spec

-----------------------------------------------------------------------------
(* Where no checkout overlaps another and the owner leaves committed works   *)
(* alone, no order is ever crossed.                                          *)

Careful == "overlap" \notin Hazards /\ "edit_committed" \notin Hazards

Calm == OneHolder /\ ~crossed

LEMMA StepUncrossed ==
  ASSUME Careful, ~crossed, [Next]_vars
  PROVE  ~crossed'
<1>1. ASSUME NEW o \in Orders, Collect(o) \/ AuctionCheckout(o) PROVE ~crossed'
  BY <1>1 DEF Careful, Collect, AuctionCheckout, Crosses
<1>2. ASSUME NEW s \in PieceStatuses, EditStatus(s) PROVE ~crossed'
  BY <1>2 DEF Careful, EditStatus, Crosses
<1>3. ASSUME NEW o \in Orders,
             OnPaymentFailed(o) \/ Cancel(o) \/ ExpireAbandoned(o) \/ Refund(o)
      PROVE  ~crossed'
  BY <1>3 DEF OnPaymentFailed, Cancel, ExpireAbandoned, Refund, Crosses
<1>4. ASSUME NEW o \in Orders,
             \/ LoadPiece(o) \/ CreateIntent(o) \/ Confirm(o) \/ OnPaymentSucceeded(o)
             \/ Ship(o) \/ Settle(o, "succeeded") \/ Settle(o, "failed")
      PROVE  ~crossed'
  BY <1>4 DEF LoadPiece, CreateIntent, Confirm, OnPaymentSucceeded, Ship, Settle
<1>5. EditTerms \/ UNCHANGED vars => ~crossed'
  BY DEF EditTerms, vars
<1> QED
  BY <1>1, <1>2, <1>3, <1>4, <1>5 DEF Next

LEMMA StepCalm == Calm /\ Careful /\ [Next]_vars => Calm'
BY StepUncrossed, StepOneHolder DEF Calm

LEMMA InitCalm == Init => Calm
BY InitOneHolder DEF Calm, Init

\* The piece's status and the orders never disagree.
THEOREM PieceAndOrdersAgree == Careful => (Spec => []PieceFollowsOrders)
<1>1. Calm => PieceFollowsOrders
  BY DEF Calm, OneHolder
<1>2. SUFFICES ASSUME Careful PROVE Spec => []PieceFollowsOrders
  OBVIOUS
<1>3. Calm /\ [Next]_vars => Calm'
  BY <1>2, StepCalm
<1> QED
  BY <1>1, <1>3, InitCalm, PTL DEF Spec

-----------------------------------------------------------------------------
(* Checkout implements OneWork. *)

Past == {o \in Orders : orders[o].status \in Released}

\* A released order stays past, and an order becomes past by letting go.
LEMMA PastStep ==
  ASSUME Inv, Next,
         NEW o \in Orders, \A p \in Orders : p # o => orders'[p].status = orders[p].status
  PROVE  Past' = IF orders'[o].status \in Released THEN Past \cup {o} ELSE Past
BY ReleasedStep DEF Past

\* Taking the work is Keep.
LEMMA TakeKeeps ==
  ASSUME OneHolder, ~crossed', Next, NEW o \in Orders, Collect(o) \/ AuctionCheckout(o)
  PROVE  Promise!Keep(o)
<1>1. /\ Holding = {} /\ Holding' = {o} /\ Paid = {} /\ Paid' = {}
      /\ orders[o].status = "none"
  BY TakeStep
<1>2. /\ \A p \in Orders : p # o => orders'[p].status = orders[p].status
      /\ orders'[o].status = "pending_payment"
  BY DEF Collect, AuctionCheckout, NewOrder, NoOrderRow, OneHolder, Inv, TypeOK
<1>3. Past' = Past /\ o \notin Past
  BY <1>1, <1>2, PastStep DEF OneHolder, Released, Past
<1> QED
  BY <1>1, <1>3 DEF Promise!Keep, Past

\* Being paid for is Sell.
LEMMA PaymentSells ==
  ASSUME OneHolder, Next, NEW o \in Orders, OnPaymentSucceeded(o), Pending(o)
  PROVE  Promise!Sell
<1>1. Holding = {o} /\ Holding' = {o} /\ Paid' = {o}
  BY SellStep
<1>2. /\ \A p \in Orders : p # o => orders'[p].status = orders[p].status
      /\ orders'[o].status = "paid"
  BY DEF OnPaymentSucceeded, Pending, OneHolder, Inv, TypeOK
<1>3. Past' = Past
  BY <1>2, PastStep DEF OneHolder, Released
<1> QED
  BY <1>1, <1>3 DEF Promise!Sell, Past

\* Every end of an order is LetGo.
LEMMA EndLetsGo ==
  ASSUME OneHolder, Next, NEW o \in Orders, Ends(o)
  PROVE  Promise!LetGo
<1>1. PICK s \in Released : o \in Holding /\ ReleasePieces /\ SetStatus(o, s)
  BY EndFacts
<1>2. Holding' = {} /\ Paid' = {}
  BY <1>1, LetGoStep
<1>3. Holding = {o}
  BY <1>1 DEF OneHolder, Single, Holding
<1>4. /\ \A p \in Orders : p # o => orders'[p].status = orders[p].status
      /\ orders'[o].status \in Released
  BY <1>1 DEF SetStatus, OneHolder, Inv, TypeOK, OrderRows
<1>5. Past' = Past \cup Holding
  BY <1>3, <1>4, PastStep DEF OneHolder
<1> QED
  BY <1>2, <1>3, <1>5 DEF Promise!LetGo, Past

\* Steps that keep holder, sale and past are stutters of OneWork.
LEMMA StillStutters ==
  ASSUME \A p \in Orders : orders'[p].status = orders[p].status
  PROVE  UNCHANGED Promise!workVars
BY DEF Promise!workVars, Holding, Paid, Released

\* Shipping is no step of OneWork either.
LEMMA ShipStutters ==
  ASSUME OneHolder, Next, NEW o \in Orders, Ship(o)
  PROVE  UNCHANGED Promise!workVars
<1>1. Holding' = Holding /\ Paid' = Paid
  BY ShipStep
<1>2. /\ \A p \in Orders : p # o => orders'[p].status = orders[p].status
      /\ orders'[o].status = "shipped"
  BY DEF Ship, SetStatus, OneHolder, Inv, TypeOK, OrderRows
<1>3. Past' = Past
  BY <1>2, PastStep DEF OneHolder, Released
<1> QED
  BY <1>1, <1>3 DEF Promise!workVars, Past

\* Initially the work is free.
LEMMA InitPromise == Init => Promise!WorkInit
BY DEF Init, Promise!WorkInit, Holding, Paid, Released, NoOrderRow

\* Every step is a step or a stutter of OneWork.
LEMMA StepPromise == OneHolder /\ ~crossed' /\ [Next]_vars => [Promise!WorkNext]_(Promise!workVars)
<1> SUFFICES ASSUME OneHolder, ~crossed', [Next]_vars
             PROVE  Promise!WorkNext \/ UNCHANGED Promise!workVars
  OBVIOUS
<1>1. CASE UNCHANGED vars
  BY <1>1, StillStutters DEF vars
<1>2. CASE Next
  <2>1. ASSUME NEW o \in Orders, Collect(o) \/ AuctionCheckout(o) PROVE Promise!WorkNext
    BY <1>2, <2>1, TakeKeeps DEF Promise!WorkNext
  <2>2. ASSUME NEW o \in Orders, OnPaymentSucceeded(o), Pending(o) PROVE Promise!WorkNext
    BY <1>2, <2>2, PaymentSells DEF Promise!WorkNext
  <2>3. ASSUME NEW o \in Orders, Ends(o) PROVE Promise!WorkNext
    BY <1>2, <2>3, EndLetsGo DEF Promise!WorkNext
  <2> QED
    BY <1>2, <2>1, <2>2, <2>3, Kinds, ShipStutters, StillStutters DEF OneHolder
<1> QED
  BY <1>1, <1>2

\* A work is kept for one order at a time, sold only to that order, and never
\* returned to an order that has lost it.
THEOREM ImplementsOneWork == Careful => (Spec => KeepsPromise)
<1>1. SUFFICES ASSUME Careful PROVE Spec => KeepsPromise
  OBVIOUS
<1>2. Calm /\ [Next]_vars => Calm'
  BY <1>1, StepCalm
<1>3. Calm /\ [Next]_vars => [Promise!WorkNext]_(Promise!workVars)
  BY <1>1, StepPromise, StepUncrossed DEF Calm
<1> QED
  BY <1>2, <1>3, InitCalm, InitPromise, PTL DEF Spec, KeepsPromise, Promise!WorkSpec

-----------------------------------------------------------------------------
(* The sweep does not cancel an order that can still be charged. *)

\* No payment sheet is left open on a cancelled order.
SheetClosed ==
  \A o \in Orders : orders[o].status = "cancelled" /\ ~orders[o].booked =>
    /\ intents[o] \notin {"processing", "succeeded"}
    /\ intents[o] = "open" => ~orders[o].referenced

\* Every step but a participant's cancelling keeps it closed.
LEMMA StepSheet ==
  ASSUME "cancel" \notin Hazards, Inv, SheetClosed, [Next]_vars
  PROVE  SheetClosed'
<1> USE DEF SheetClosed, Inv, TypeOK
<1>1. CASE UNCHANGED vars
  BY <1>1 DEF vars, stripeVars
<1>2. ASSUME NEW o \in Orders, Collect(o) \/ AuctionCheckout(o) PROVE SheetClosed'
  BY <1>2 DEF Collect, AuctionCheckout, NewOrder, NoOrderRow, stripeVars
<1>3. ASSUME NEW o \in Orders, CreateIntent(o) PROVE SheetClosed'
  BY <1>3 DEF CreateIntent, CommitsOrDies, Pending, OrderRows
<1>4. ASSUME NEW o \in Orders, Confirm(o) \/ Settle(o, "succeeded") \/ Settle(o, "failed")
      PROVE SheetClosed'
  BY <1>4 DEF Confirm, Settle
<1>5. ASSUME NEW o \in Orders, OnPaymentSucceeded(o) PROVE SheetClosed'
  BY <1>5 DEF OnPaymentSucceeded, Pending, OrderRows
<1>6. ASSUME NEW o \in Orders, OnPaymentFailed(o) \/ Refund(o) \/ Ship(o) PROVE SheetClosed'
  <2>1. UNCHANGED intents
    BY <1>6 DEF OnPaymentFailed, Refund, Ship, stripeVars
  <2>2. CASE UNCHANGED orders
    BY <2>1, <2>2
  <2>3. ASSUME NEW s \in {"failed", "refunded", "shipped"}, SetStatus(o, s) PROVE SheetClosed'
    <3>1. orders' = [orders EXCEPT ![o].status = s]
      BY <2>3 DEF SetStatus
    <3>2. \A p \in Orders : p # o => orders'[p] = orders[p]
      BY <3>1
    <3>3. orders'[o].status = s
      BY <3>1 DEF OrderRows
    <3> QED
      BY <2>1, <3>2, <3>3
  <2> QED
    BY <1>6, <2>2, <2>3 DEF OnPaymentFailed, Refund, Ship
<1>7. ASSUME NEW o \in Orders, ExpireAbandoned(o) PROVE SheetClosed'
  <2>1. intents[o] \notin {"processing", "succeeded"}
    BY <1>7 DEF ExpireAbandoned, StripeTruthful
  <2>2. /\ \A p \in Orders : p # o => intents'[p] = intents[p] /\ orders'[p] = orders[p]
        /\ orders'[o].referenced = orders[o].referenced
    BY <1>7 DEF ExpireAbandoned, CommitsOrDies, SetStatus, OrderRows
  <2>3. intents'[o] = IF orders[o].referenced THEN "canceled" ELSE intents[o]
    BY <1>7 DEF ExpireAbandoned
  <2> QED
    BY <2>1, <2>2, <2>3
<1>8. ASSUME \/ EditTerms
             \/ \E s \in PieceStatuses : EditStatus(s)
             \/ \E o \in Orders : LoadPiece(o)
      PROVE SheetClosed'
  BY <1>8 DEF EditTerms, EditStatus, LoadPiece, stripeVars
<1> QED
  BY <1>1, <1>2, <1>3, <1>4, <1>5, <1>6, <1>7, <1>8 DEF Next, Cancel

\* Where only the sweep cancels, a cancelled order is never charged: whatever
\* overlaps, crashes, repeats or is edited.
THEOREM SweepIsSafe == "cancel" \notin Hazards => (Spec => []CancelledIsUncharged)
<1>1. SUFFICES ASSUME "cancel" \notin Hazards PROVE Spec => []CancelledIsUncharged
  OBVIOUS
<1>2. Init => SheetClosed
  BY DEF Init, SheetClosed, NoOrderRow
<1>3. Inv /\ SheetClosed /\ [Next]_vars => SheetClosed'
  BY <1>1, StepSheet
<1>4. SheetClosed => CancelledIsUncharged
  BY DEF SheetClosed, CancelledIsUncharged
<1> QED
  BY <1>2, <1>3, <1>4, Invariance, PTL DEF Spec

=============================================================================
