------------------------------- MODULE Auction -------------------------------
(***************************************************************************)
(* One run of one auction: the auctions row, the bids placed on it, the    *)
(* card authorisation ("hold") behind every bid, and the ledger entry that *)
(* books the hammer price.  Web requests (place_bid, extend, cancel,       *)
(* retry_winner_payment, the owner's piece edits) run concurrently with    *)
(* the worker's sweeps (close_expired_auctions, expire_winner_windows,     *)
(* refresh_expiring_holds).                                                *)
(*                                                                         *)
(* Sections the code runs under SELECT .. FOR UPDATE on the auction row    *)
(* are one action each.  A request that loaded a row before it took the    *)
(* lock keeps using the attributes it loaded, because the session's        *)
(* identity map is not refreshed by the locking SELECT: such a row is a    *)
(* snapshot taken by an action of its own.                                 *)
(***************************************************************************)
EXTENDS Integers, FiniteSets

CONSTANTS
  Bidders,        \* users who may bid (the seller is not one of them)
  NoBidder,       \* the bidder of a bid that does not exist
  MaxBids,        \* bound: bids on this auction
  MaxRefresh,     \* bound: re-authorisations of one hold
  Prices,         \* amounts a bid may carry
  StartingBid,    \* starting_bid_cents
  Reserve,        \* reserve_cents, 0 for none
  Increment(_),   \* bid_increment_cents
  SoftClose,      \* soft_close_enabled: TRUE standalone, FALSE event auction
  OpensAt,        \* opens_at; bids before it are refused
  Duration,       \* closes_at as first set
  SoftWindow,     \* SOFT_CLOSE_WINDOW
  ExtendFloor,    \* the "more than 3 days out" of extend_auction
  MaxExtend,      \* the "up to 3 days" of extend_auction
  RetryWindow,    \* retry_window: what a winner has to fix a payment
  RequestLife,    \* longest a web request lives between its read and its lock
  MaxDepth,       \* MAX_CASCADE_DEPTH
  Hazards         \* which misbehaviours of the environment happen

HazardKinds == {"bid_overlap", "refresh_overlap", "crash", "edit", "cancel"}

ASSUME BidsAssumption == MaxBids \in Nat \ {0} /\ MaxRefresh \in Nat
ASSUME BiddersAssumption == NoBidder \notin Bidders
ASSUME PricesAssumption ==
  /\ Prices \subseteq Nat \ {0}
  /\ StartingBid \in Nat \ {0}
  /\ Reserve \in Nat
  /\ \A p \in Prices : Increment(p) \in Nat \ {0}
ASSUME TimesAssumption ==
  /\ SoftClose \in BOOLEAN
  /\ OpensAt \in Nat /\ Duration \in Nat /\ OpensAt < Duration
  /\ SoftWindow \in Nat \ {0} /\ ExtendFloor \in Nat /\ MaxExtend \in Nat
  /\ RetryWindow \in Nat \ {0} /\ RequestLife \in Nat /\ MaxDepth \in Nat
  /\ SoftWindow + RequestLife <= ExtendFloor
ASSUME HazardsAssumption == Hazards \subseteq HazardKinds

Bids == 1 .. MaxBids          \* numbered in the order of created_at
NoBid == 0
Gens == 0 .. MaxRefresh       \* the n of the Stripe key  hold:{id}:{n}

Running == {"live", "closing"}
AuctionStatuses == Running \cup
  {"awaiting_payment", "awaiting_winner", "closed_no_bids",
   "needs_seller_action", "cancelled"}
PieceStatuses == {"draft", "live", "auction_won", "delisted", "deleted"}
BidStatuses ==
  {"none", "rolled_back", "active", "outbid", "won", "lost", "forfeited", "cancelled"}
HoldStatuses == {"none", "held", "captured", "released", "capture_failed", "expired"}
KeyStatuses == {"unused", "refused", "authorised", "cancelled", "captured", "torn"}

(***************************************************************************)
(* A bid, its hold and what Stripe knows under each of the hold's          *)
(* idempotency keys.  "intent" is the key whose PaymentIntent the hold row *)
(* points at; "refreshes" is refresh_count; "booked" says the ledger has   *)
(* the transaction  auction_captured:{hold}.  "torn" is "captured" to      *)
(* Stripe and to the code: it marks a charge whose section never committed *)
(* and that no later section has taken up.                                 *)
(***************************************************************************)
BidRows ==
  [status : BidStatuses, bidder : Bidders \cup {NoBidder}, amount : Nat,
   hold : HoldStatuses, intent : Gens, refreshes : Gens,
   keys : [Gens -> KeyStatuses], booked : BOOLEAN]

NoBidRow ==
  [status |-> "none", bidder |-> NoBidder, amount |-> 0, hold |-> "none",
   intent |-> 0, refreshes |-> 0, keys |-> [g \in Gens |-> "unused"],
   booked |-> FALSE]

NoRequest == [open |-> FALSE, closing |-> FALSE, closesAt |-> 0, at |-> 0]
Requests == [open : BOOLEAN, closing : BOOLEAN, closesAt : Nat, at : Nat]
NoSweep == [bid |-> NoBid, intent |-> 0, refreshes |-> 0]
Sweeps == [bid : Bids \cup {NoBid}, intent : Gens, refreshes : Gens]

VARIABLES
  now,        \* wall clock
  status,     \* auctions.status
  closesAt,   \* auctions.closes_at
  extended,   \* auctions.extended_once
  winner,     \* auctions.winning_bid_id
  deadline,   \* auctions.winner_deadline_at; 0 is null
  depth,      \* auctions.cascade_depth
  piece,      \* pieces.status
  listing,    \* pieces.listing_type = 'auction'
  bids,       \* bids, holds, Stripe's keys and the ledger, by bid
  request,    \* the auction row a bidder's open request has already loaded
  sweep       \* the hold row the refresh sweep has already loaded

auctionVars == <<status, closesAt, extended, winner, deadline, depth>>
pieceVars == <<piece, listing>>
inFlight == <<request, sweep>>
vars == <<now, auctionVars, pieceVars, bids, inFlight>>

Init ==
  /\ now = 0
  /\ status = "live"
  /\ closesAt = Duration
  /\ extended = FALSE
  /\ winner = NoBid
  /\ deadline = 0
  /\ depth = 0
  /\ piece = "live"
  /\ listing = TRUE
  /\ bids = [b \in Bids |-> NoBidRow]
  /\ request = [u \in Bidders |-> NoRequest]
  /\ sweep = NoSweep

-----------------------------------------------------------------------------
(* Operations on one bid's row. *)

\* PaymentIntent.cancel: a no-op on anything but a live authorisation.
CancelIntent(keys, g) ==
  IF keys[g] = "authorised" THEN [keys EXCEPT ![g] = "cancelled"] ELSE keys

\* holds_service.release_hold
Release(r) ==
  IF r.hold \in {"released", "captured"} THEN r
  ELSE [r EXCEPT !.hold = "released", !.keys = CancelIntent(r.keys, r.intent)]

\* A bid leaves the running with this status and its money is given back.
Void(r, s) == [Release(r) EXCEPT !.status = s]

\* Every live bid voided: cancel_active_bids, and _release_runners_up.
VoidActive(B, s) ==
  [b \in Bids |-> IF B[b].status = "active" THEN Void(B[b], s) ELSE B[b]]

\* capture_hold cannot fail on a captured hold, nor when Stripe has captured
\* already: it answers a repeated capture key with its first answer.  It may
\* succeed while Stripe still has the authorisation.
AlreadyPaid(r) ==
  \/ r.hold = "captured"
  \/ r.hold = "held" /\ r.keys[r.intent] \in {"captured", "torn"}

Capturable(r) ==
  AlreadyPaid(r) \/ (r.hold = "held" /\ r.keys[r.intent] = "authorised")

\* capture_hold, book_auction_captured and the bid's status, on success.
Captured(r) ==
  [r EXCEPT !.hold = "captured", !.booked = TRUE, !.status = "won",
            !.keys = [r.keys EXCEPT ![r.intent] = "captured"]]

\* capture_hold when Stripe declines, or when the hold is not capturable.
Declined(r) ==
  IF r.hold = "held" THEN [r EXCEPT !.hold = "capture_failed"] ELSE r

\* Mutation: the superseded authorisation is left in place.
ReauthorisedTwice(r, intent, n) ==
  [r EXCEPT !.refreshes = n, !.intent = n,
            !.keys = [r.keys EXCEPT ![n] = IF @ = "unused" THEN "authorised" ELSE @]]

\* holds_service.reauthorize on a hold row loaded as (intent, refreshes):
\* the new authorisation first, then the old one is let go.
Reauthorised(r, intent, n) ==
  [r EXCEPT !.refreshes = n, !.intent = n,
            !.keys = CancelIntent(
                [r.keys EXCEPT ![n] = IF @ = "unused" THEN "authorised" ELSE @],
                intent)]

\* Mutation: the ledger entry is committed by itself.
LedgerSurvives(r, after) == [r EXCEPT !.keys = after.keys, !.booked = after.booked]

\* What is left of an update when its transaction is rolled back: only what
\* Stripe has already done, a charge among it unknown to the rows.
StripeOnly(r, after) ==
  [r EXCEPT !.keys = [g \in Gens |->
     IF after.keys[g] = "captured" /\ r.keys[g] # "captured" THEN "torn" ELSE after.keys[g]]]

\* place_bid's INSERT of the bid and its hold.
PlacedBid(u, a) ==
  [NoBidRow EXCEPT !.status = "active", !.bidder = u, !.amount = a,
                   !.hold = "held", !.keys = [NoBidRow.keys EXCEPT ![0] = "authorised"]]

-----------------------------------------------------------------------------
(* Reading the auction. *)

Open == status \in Running

ActiveBids(B) == {b \in Bids : B[b].status = "active"}

\* get_highest_bid: highest amount, the earlier bid first on a tie.
Highest(B) ==
  {b \in ActiveBids(B) : \A x \in ActiveBids(B) :
     \/ B[x].amount < B[b].amount
     \/ B[x].amount = B[b].amount /\ b <= x}

\* Mutation: matching the highest bid is enough.
MatchesHighest(a) ==
  IF ActiveBids(bids) = {} THEN a >= StartingBid
  ELSE \A b \in Highest(bids) : a >= bids[b].amount

\* min_next_bid_cents
ClearsMinimum(a) ==
  IF ActiveBids(bids) = {} THEN a >= StartingBid
  ELSE \A b \in Highest(bids) : a >= bids[b].amount + Increment(bids[b].amount)

LiveHolds(u) == {b \in Bids : bids[b].bidder = u /\ bids[b].hold = "held"}

\* Mutation: the newest live hold of anybody.
IsNewestHold(b, u) ==
  bids[b].hold = "held" /\ \A x \in Bids : bids[x].hold = "held" => x <= b

\* Mutation: the bidder's hold, but only while it leads.
IsLeadingHold(b, u) == b \in LiveHolds(u) \cap Highest(bids)

\* live_hold_for_bidder: the newest live hold of this bidder on this auction.
IsPreviousHold(b, u) == b \in LiveHolds(u) /\ \A x \in LiveHolds(u) : x <= b

NextSlot(b) ==
  /\ bids[b].status = "none"
  /\ \A x \in Bids : x < b => bids[x].status # "none"

\* How a locked section ends.  ok: nothing in it raises, so the new rows are
\* committed.  Otherwise, or when the process dies before the commit, the rows
\* keep their old values and only what Stripe has done is left.
Conclude(ok, after, s, w, dl, d, p) ==
  \/ /\ ok
     /\ bids' = after
     /\ status' = s
     /\ winner' = w
     /\ deadline' = dl
     /\ depth' = d
     /\ piece' = p
  \/ /\ ~ok \/ "crash" \in Hazards
     /\ bids' = [b \in Bids |-> StripeOnly(bids[b], after[b])]
     /\ UNCHANGED <<status, winner, deadline, depth, piece>>

-----------------------------------------------------------------------------
(* Bidding. *)

\* bid_controller.place_bid loads the auction before place_bid locks it.
ReadAuction(u) ==
  /\ "bid_overlap" \in Hazards
  /\ request[u] = NoRequest
  /\ Open
  /\ request' = [request EXCEPT ![u] =
       [open |-> TRUE, closing |-> status = "closing", closesAt |-> closesAt, at |-> now]]
  /\ UNCHANGED <<now, auctionVars, pieceVars, bids, sweep>>

\* The row place_bid's checks see.
LoadedRow(u) ==
  IF "bid_overlap" \in Hazards THEN request[u]
  ELSE [open |-> Open, closing |-> status = "closing", closesAt |-> closesAt, at |-> now]

\* Mutation: only the status is checked.
AcceptsOnStatus(row) == row.open /\ now <= row.at + RequestLife /\ now >= OpensAt

\* The status and the clock, checked under the lock on the loaded row.
AcceptsBids(row) ==
  /\ row.open
  /\ now <= row.at + RequestLife
  /\ now >= OpensAt
  /\ now < row.closesAt

\* Mutation: an auction that is closing already is not pushed out again.
ApplySoftCloseOnce(row) ==
  IF SoftClose /\ ~row.closing /\ row.closesAt - now <= SoftWindow
  THEN closesAt' = now + SoftWindow /\ status' = "closing"
  ELSE UNCHANGED <<closesAt, status>>

\* apply_soft_close.  Only the attributes that differ from the loaded row
\* are in the UPDATE.
ApplySoftClose(row) ==
  IF SoftClose /\ row.closesAt - now <= SoftWindow
  THEN /\ closesAt' = IF now + SoftWindow = row.closesAt THEN closesAt ELSE now + SoftWindow
       /\ status' = IF row.closing THEN status ELSE "closing"
  ELSE UNCHANGED <<closesAt, status>>

\* place_bid: the new authorisation first, then the bidder's previous bid and
\* hold are let go, then the soft close.  A refused card changes nothing.
PlaceBid(u, a) ==
  LET row == LoadedRow(u) IN
  /\ AcceptsBids(row)
  /\ ClearsMinimum(a)
  /\ \E b \in Bids :
       /\ NextSlot(b)
       /\ bids' = [x \in Bids |-> IF x = b THEN PlacedBid(u, a)
                                  ELSE IF IsPreviousHold(x, u) THEN Void(bids[x], "outbid")
                                  ELSE bids[x]]
  /\ ApplySoftClose(row)
  /\ request' = [request EXCEPT ![u] = NoRequest]
  /\ UNCHANGED <<now, extended, winner, deadline, depth, pieceVars, sweep>>

\* The same request dies after its calls to Stripe: no bid row exists, but the
\* card is authorised under a hold id nobody has kept.
PlaceBidCrashes(u, a) ==
  /\ "crash" \in Hazards
  /\ AcceptsBids(LoadedRow(u))
  /\ ClearsMinimum(a)
  /\ \E b \in Bids :
       /\ NextSlot(b)
       /\ bids' = [x \in Bids |->
            IF x = b THEN [PlacedBid(u, a) EXCEPT !.status = "rolled_back", !.hold = "none"]
            ELSE IF IsPreviousHold(x, u) THEN StripeOnly(bids[x], Void(bids[x], "outbid"))
            ELSE bids[x]]
  /\ request' = [request EXCEPT ![u] = NoRequest]
  /\ UNCHANGED <<now, auctionVars, pieceVars, sweep>>

-----------------------------------------------------------------------------
(* Settling: auction_winner. *)

\* _move_piece_off_market raises unless the piece is live or already moved.
PieceMovable == piece \in {"live", "auction_won"}

\* settle_on with the money taken: booked, and the runners-up released.
Settle(B, b, d) ==
  Conclude(PieceMovable, VoidActive([B EXCEPT ![b] = Captured(B[b])], "lost"),
           "awaiting_winner", b, 0, d, "auction_won")

\* Mutation: the runners-up get their money back while they are still needed.
ParkReleasing(B, b, d) ==
  Conclude(PieceMovable,
           [x \in Bids |-> IF x = b THEN Declined(B[x]) ELSE Release(B[x])],
           "awaiting_payment", b, now + RetryWindow, d, "auction_won")

\* _park_for_payment: a fresh window, and every fallback stays funded.
Park(B, b, d) ==
  Conclude(PieceMovable, [B EXCEPT ![b] = Declined(B[b])],
           "awaiting_payment", b, now + RetryWindow, d, "auction_won")

SettleOn(B, b, d) ==
  \/ Capturable(B[b]) /\ Settle(B, b, d)
  \/ ~AlreadyPaid(B[b]) /\ Park(B, b, d)

\* _give_up
GiveUp(B, d) ==
  Conclude(TRUE, VoidActive(B, "cancelled"), "needs_seller_action", NoBid, 0, d,
           IF piece = "auction_won" THEN "delisted" ELSE piece)

\* _close_without_sale; its transition_piece raises unless the piece is live
\* or delisted already.
CloseWithoutSale(s) ==
  Conclude(piece \in {"live", "delisted"}, VoidActive(bids, "cancelled"),
           s, winner, deadline, depth, "delisted")

ReserveMet(b) == Reserve = 0 \/ bids[b].amount >= Reserve

\* Mutation: an auction in its soft close is never due.
DueIfUnextended == status = "live" /\ closesAt <= now

\* _close_one re-checks status and clock on the locked row.
DueToClose == Open /\ closesAt <= now

CloseOne ==
  /\ DueToClose
  /\ \/ Highest(bids) = {} /\ CloseWithoutSale("closed_no_bids")
     \/ \E b \in Highest(bids) :
          \/ ~ReserveMet(b) /\ CloseWithoutSale("needs_seller_action")
          \/ ReserveMet(b) /\ SettleOn(bids, b, depth)
  /\ UNCHANGED <<now, closesAt, extended, listing, inFlight>>

\* Mutation: the bid is not marked forfeited.
ForfeitHoldOnly(B, w) == IF w = NoBid THEN B ELSE [B EXCEPT ![w] = Release(B[w])]

\* The current winner is out: cascade's first half.
Forfeit(B, w) == IF w = NoBid THEN B ELSE [B EXCEPT ![w] = Void(B[w], "forfeited")]

\* Mutation: past the depth limit nothing is done.
CascadeStops(B, d) ==
  \/ d <= MaxDepth /\ Highest(B) = {} /\ GiveUp(B, d)
  \/ d <= MaxDepth /\ \E b \in Highest(B) : SettleOn(B, b, d)

\* cascade, once the winner who did not pay is out
Cascade(B, d) ==
  \/ d > MaxDepth /\ GiveUp(B, d)
  \/ d <= MaxDepth /\ Highest(B) = {} /\ GiveUp(B, d)
  \/ d <= MaxDepth /\ \E b \in Highest(B) : SettleOn(B, b, d)

\* _expire_one
ExpireOne ==
  /\ status = "awaiting_payment"
  /\ deadline <= now
  /\ Cascade(Forfeit(bids, winner), depth + 1)
  /\ UNCHANGED <<now, closesAt, extended, listing, inFlight>>

\* retry_winner_payment: re-authorise on the new card, then settle.
RetryPayment ==
  /\ status = "awaiting_payment"
  /\ winner # NoBid
  /\ bids[winner].hold # "captured"
  /\ bids[winner].refreshes < MaxRefresh
  /\ LET r == bids[winner]
         n == r.refreshes + 1 IN
     \/ /\ r.keys[n] # "refused"
        /\ SettleOn([bids EXCEPT ![winner] =
             [Reauthorised(r, r.intent, n) EXCEPT !.hold = "held"]], winner, depth)
     \* Refused: reauthorize raises, the request commits nothing, and Stripe
     \* remembers the refusal under the key.
     \/ /\ r.keys[n] = "unused"
        /\ bids' = [bids EXCEPT ![winner].keys[n] = "refused"]
        /\ UNCHANGED <<status, winner, deadline, depth, piece>>
  /\ UNCHANGED <<now, closesAt, extended, listing, inFlight>>

-----------------------------------------------------------------------------
(* Keeping holds authorised: hold_refresh. *)

HoldRow(b) == [bid |-> b, intent |-> bids[b].intent, refreshes |-> bids[b].refreshes]

\* refresh_expiring_holds loads the holds that are due.
ReadDueHold(b) ==
  /\ "refresh_overlap" \in Hazards
  /\ sweep = NoSweep
  /\ Open
  /\ bids[b].hold = "held"
  /\ bids[b].refreshes < MaxRefresh
  /\ sweep' = HoldRow(b)
  /\ UNCHANGED <<now, auctionVars, pieceVars, bids, request>>

\* _refresh_one on a hold loaded as row (whose status was live).
Refresh(row) ==
  LET b == row.bid
      n == row.refreshes + 1
      r == bids[b]
      ok == Reauthorised(r, row.intent, n) IN
  \/ /\ r.keys[n] # "refused"
     /\ bids' = [bids EXCEPT ![b] = ok]
  \/ /\ r.keys[n] # "refused" /\ "crash" \in Hazards
     /\ bids' = [bids EXCEPT ![b] = StripeOnly(r, ok)]
  \/ /\ r.keys[n] \in {"unused", "refused"}
     /\ bids' = [bids EXCEPT ![b] =
          [r EXCEPT !.hold = "expired", !.refreshes = n, !.keys[n] = "refused"]]

RefreshOne ==
  /\ \/ sweep # NoSweep /\ Refresh(sweep)
     \/ "refresh_overlap" \notin Hazards
        /\ Open
        /\ \E b \in Bids : /\ bids[b].hold = "held"
                           /\ bids[b].refreshes < MaxRefresh
                           /\ Refresh(HoldRow(b))
  /\ sweep' = NoSweep
  /\ UNCHANGED <<now, auctionVars, pieceVars, request>>

-----------------------------------------------------------------------------
(* The seller. *)

\* extend_auction
Extended(k) ==
  /\ SoftClose
  /\ ~extended
  /\ closesAt - now > ExtendFloor
  /\ closesAt' = closesAt + k
  /\ extended' = TRUE

Extend(k) ==
  /\ Open
  /\ Extended(k)
  /\ UNCHANGED <<now, status, winner, deadline, depth, pieceVars, bids, inFlight>>

\* cancel_auction
CancelAuction ==
  /\ "cancel" \in Hazards
  /\ listing
  /\ Open
  /\ Conclude(TRUE, VoidActive(bids, "cancelled"), "cancelled", winner, deadline, depth,
              IF piece = "live" THEN "delisted" ELSE piece)
  /\ UNCHANGED <<now, closesAt, extended, listing, inFlight>>

\* count_active_bids_for_piece: only a running auction's bids count.
PieceHasBids == Open /\ ActiveBids(bids) # {}

\* VALID_TRANSITIONS, to the statuses an owner may ask for or delete_piece sets.
OwnerMoves ==
  {<<"draft", "live">>, <<"draft", "deleted">>, <<"live", "delisted">>,
   <<"live", "draft">>, <<"live", "deleted">>, <<"auction_won", "delisted">>,
   <<"delisted", "live">>, <<"delisted", "draft">>, <<"delisted", "deleted">>}

\* pieces_controller.patch with a status, or delete
EditStatus(s) ==
  /\ "edit" \in Hazards
  /\ <<piece, s>> \in OwnerMoves
  /\ (piece = "live" /\ s \in {"delisted", "draft"} /\ listing) => ~PieceHasBids
  /\ piece' = s
  /\ UNCHANGED <<now, auctionVars, listing, bids, inFlight>>

\* pieces_controller.patch with listing terms: auction or something else
EditTerms ==
  /\ "edit" \in Hazards
  /\ piece \notin {"auction_won", "deleted"}
  /\ (listing /\ piece = "live") => ~PieceHasBids
  /\ listing' = ~listing
  /\ UNCHANGED <<now, auctionVars, piece, bids, inFlight>>

-----------------------------------------------------------------------------
\* Time passes while some deadline of this auction is still ahead; past the
\* last one the clock makes no difference to the code.
Tick ==
  /\ (Open /\ now < closesAt) \/ now < deadline
  /\ now' = now + 1
  /\ UNCHANGED <<auctionVars, pieceVars, bids, inFlight>>

Next ==
  \/ Tick
  \/ \E u \in Bidders : ReadAuction(u)
  \/ \E u \in Bidders, a \in Prices : PlaceBid(u, a)
  \/ \E u \in Bidders, a \in Prices : PlaceBidCrashes(u, a)
  \/ CloseOne
  \/ ExpireOne
  \/ RetryPayment
  \/ \E b \in Bids : ReadDueHold(b)
  \/ RefreshOne
  \/ \E k \in 1 .. MaxExtend : Extend(k)
  \/ CancelAuction
  \/ \E s \in PieceStatuses : EditStatus(s)
  \/ EditTerms

Spec == Init /\ [][Next]_vars

\* The beat runs close_expired_auctions and expire_winner_windows every minute;
\* nobody is obliged to bid, to pay or to edit.
FairSpec == Spec /\ WF_vars(CloseOne) /\ WF_vars(ExpireOne)

-----------------------------------------------------------------------------
(* Properties. *)

TypeOK ==
  /\ now \in Nat
  /\ status \in AuctionStatuses
  /\ closesAt \in Nat
  /\ extended \in BOOLEAN
  /\ winner \in Bids \cup {NoBid}
  /\ deadline \in Nat
  /\ depth \in Nat
  /\ piece \in PieceStatuses
  /\ listing \in BOOLEAN
  /\ bids \in [Bids -> BidRows]
  /\ request \in [Bidders -> Requests]
  /\ sweep \in Sweeps

Booked == {b \in Bids : bids[b].booked}

\* The captures of this auction, by bid and key, that Stripe knows as k.
Charges(k) == {x \in Bids \X Gens : bids[x[1]].keys[x[2]] = k}

\* Whom the next sweep, or the winner's own retry, settles on.
NextInLine ==
  CASE Open -> Highest(bids)
    [] status = "awaiting_payment" -> {winner} \cup Highest(Forfeit(bids, winner))
    [] OTHER -> {}

\* At most one charge of an auction stands, it is booked, and its bidder has the
\* work, whatever races, crashes, edits or cancellations happen.  A charge whose
\* section died is unknown to the rows, and a second bidder can be charged after
\* it (_expire_one forfeits a winner whose retry died after its capture); but as
\* long as its bid is in the running, that bid is the one the next sweep or retry
\* settles on: nothing but a forfeit or the winner's own retry moves past it.
OneSale ==
  /\ \A x, y \in Charges("captured") : x = y
  /\ \A x \in Charges("captured") : bids[x[1]].booked /\ bids[x[1]].status = "won"
  /\ \A b \in Booked : \E x \in Charges("captured") : x[1] = b
  /\ \A x \in Charges("torn") : bids[x[1]].status = "active" => x[1] \in NextInLine

\* awaiting_winner means the winner has paid and everybody else has been let go
\* (module comment of auction_winner).
SettledCleanly ==
  status = "awaiting_winner" =>
    /\ winner \in Booked
    /\ bids[winner].status = "won"
    /\ \A b \in Bids : bids[b].hold # "held" /\ bids[b].status # "active"

\* awaiting_payment means nobody has paid and every fallback is still there:
\* a runner-up's hold is authorised, or known to need a new card.
FallbackFunded ==
  status = "awaiting_payment" =>
    /\ Booked = {}
    /\ winner \in ActiveBids(bids)
    /\ \A b \in ActiveBids(bids) \ {winner} :
         \/ bids[b].hold = "expired"
         \/ bids[b].hold = "held" /\ bids[b].keys[bids[b].intent] = "authorised"

Ended == status \in {"cancelled", "closed_no_bids", "needs_seller_action", "awaiting_winner"}
OnCard(b) == \E g \in Gens : bids[b].keys[g] = "authorised"

\* Once an auction is over no card keeps an authorisation made for it.
NothingLeftOnCards == Ended => \A b \in Bids : ~OnCard(b)

\* A bidder has at most one live hold on an auction: raising a bid moves the
\* hold, it does not add one.
OneLiveHold ==
  \A b, c \in Bids : bids[b].hold = "held" /\ bids[c].hold = "held"
                       /\ bids[b].bidder = bids[c].bidder => b = c

\* Nobody outbid by the settled winner had offered as much.
LosersBidLess ==
  status = "awaiting_winner" =>
    \A b \in Bids : bids[b].status = "lost" => bids[b].amount < bids[winner].amount

\* Everything Stripe has captured for this auction is in the ledger.  Does not hold
\* under "edit": a work deleted before the close fails settle_on after the capture.
CapturedIsBooked ==
  Charges("torn") = {} /\ \A x \in Charges("captured") : bids[x[1]].booked

\* A bidder who was passed over has not paid ("Nothing was charged to you",
\* says the notice of _expire_one).  Does not hold under "crash": the charge of a
\* retry that died stays, and the window expires all the same.
ForfeitedNotCharged ==
  \A x \in Charges("captured") \cup Charges("torn") : bids[x[1]].status # "forfeited"

\* No bid joins an auction the close sweep has closed, not even one whose
\* request read the auction while it was open: the clock, read after the lock,
\* is past every close time such a request can have loaded.
NoBidAfterClose ==
  [][~Open /\ status # "cancelled" => ActiveBids(bids') \subseteq ActiveBids(bids)]_vars

\* A bid accepted on a soft-close auction leaves everybody at least the whole
\* window to answer it.
NoSniping ==
  [][SoftClose /\ ~(ActiveBids(bids') \subseteq ActiveBids(bids))
       => closesAt' >= now + SoftWindow]_vars

\* "Never shorter, under any circumstance": the close only moves later.
NeverShorter == [][closesAt' >= closesAt]_vars

\* A cancelled auction has no bid left in it ("Every bid is voided, every hold
\* released", says the API of cancel).  Does not hold under "bid_overlap": a bid
\* that loaded the auction before the cancellation is accepted after it.
VoidedOnCancel == status = "cancelled" => ActiveBids(bids) = {}

Active(u, B) == \E b \in ActiveBids(B) : B[b].bidder = u

\* While bidding is open nobody loses their place in it: not by raising their
\* bid, not by a hold that could not be renewed.
NobodyDropped ==
  [][Open /\ status' \in Running =>
       \A u \in Bidders : Active(u, bids) => Active(u, bids')]_vars

\* The sweep closes every auction whose time has come.
DueAuctionCloses == (Open /\ closesAt <= now) ~> ~Open

\* A payment window that has run out is acted on: the sale passes down, is
\* given up, or the winner's own retry has opened a new window.
WindowPassed == status = "awaiting_payment" /\ deadline <= now
WindowEnds == WindowPassed ~> ~WindowPassed

\* Neither the bidders nor a winner's successors wait for ever on the beat.
NothingWaits == DueAuctionCloses /\ WindowEnds

\* The auction keeps the promise of module Sale.
Promise == INSTANCE Sale WITH
  Bid <- Bids,
  Nobody <- NoBid,
  phase <- CASE Open -> "bidding"
             [] status = "awaiting_payment" -> "offered"
             [] status = "awaiting_winner" -> "sold"
             [] status = "cancelled" -> "withdrawn"
             [] OTHER -> "unsold",
  buyer <- winner,
  passed <- {b \in Bids : bids[b].status = "forfeited"},
  charged <- Booked

KeepsPromise == Promise!SaleSpec

=============================================================================
