---------------------------- MODULE Auction_proofs ----------------------------
(***************************************************************************)
(* Theorems about Auction, for every value of its constants.  Whatever     *)
(* hazards the environment has, one inductive invariant holds, Inv: what   *)
(* the rows say at each status of the auction (Sound), that a closed       *)
(* auction's close lies in the past (PastClose), and how far a row that a  *)
(* request still holds can be from the row in the database (Loaded).  On   *)
(* it rest five more: Rank (who bid more), Charge (who has been charged),  *)
(* Unsettled (the refinement of Sale), and, for fewer hazards, Funded (the *)
(* fallbacks of a sale) and Clear (what is left on cards).                 *)
(***************************************************************************)
EXTENDS Auction, WellFoundedInduction, TLAPS

(* What holds of the bids B of an auction with status s and winner w. *)
HeldActive(B) == \A b \in Bids : B[b].hold = "held" => B[b].status = "active"
NobodyBooked(B) == \A b \in Bids : ~B[b].booked
OneHold(B) ==
  \A b, c \in Bids : B[b].hold = "held" /\ B[c].hold = "held"
                       /\ B[b].bidder = B[c].bidder => b = c
SoldTo(B, w) ==
  /\ w \in Bids
  /\ B[w].booked
  /\ B[w].status = "won"
  /\ \A b \in Bids : B[b].booked => b = w
  /\ \A b \in Bids : B[b].hold # "held" /\ B[b].status # "active"
OfferedTo(B, w) == w \in Bids /\ B[w].status = "active"

Sound(B, s, w) ==
  /\ HeldActive(B)
  /\ OneHold(B)
  /\ s # "awaiting_winner" => NobodyBooked(B)
  /\ s = "awaiting_winner" => SoldTo(B, w)
  /\ s = "awaiting_payment" => OfferedTo(B, w)

\* Only a cancelled auction can be closed ahead of its time.
PastClose == status \notin Running \cup {"cancelled"} => closesAt <= now

\* The row a request has loaded is never ahead of the database's, and where the
\* two differ a soft close explains it, or the close is still so far away that
\* the request will not live to see the soft close window.
Loaded ==
  \A u \in Bidders : request[u].open =>
    /\ request[u].at <= now
    /\ request[u].closesAt <= closesAt
    /\ \/ closesAt = request[u].closesAt
       \/ closesAt <= now + SoftWindow
       \/ request[u].closesAt > request[u].at + RequestLife + SoftWindow

\* The refresh sweep has loaded a hold it can still refresh.
SweepLoaded == sweep # NoSweep => sweep.bid \in Bids /\ sweep.refreshes < MaxRefresh

Inv ==
  /\ TypeOK
  /\ Sound(bids, status, winner)
  /\ PastClose
  /\ Loaded
  /\ SweepLoaded

-----------------------------------------------------------------------------
(* The operations on one row. *)

\* Generations are numbers that start at 0, and 0 is one of them.
LEMMA GensFacts == Gens \subseteq Nat /\ 0 \in Gens /\ \A n \in Nat : n <= MaxRefresh => n \in Gens
  BY BidsAssumption, SMT DEF Gens

\* NoBidRow is a row, and nothing is going on in it.
LEMMA NoBidRowType == NoBidRow \in BidRows
  BY GensFacts, SMT DEF NoBidRow, BidRows, BidStatuses, HoldStatuses, KeyStatuses

\* PaymentIntent.cancel leaves a state of Stripe's behind for every key.
LEMMA CancelIntentType ==
  ASSUME NEW k \in [Gens -> KeyStatuses], NEW g \in Gens
  PROVE  CancelIntent(k, g) \in [Gens -> KeyStatuses]
  BY SMT DEF CancelIntent, KeyStatuses

\* release_hold ends the hold and leaves the bid as it is.
LEMMA ReleaseFacts ==
  ASSUME NEW r \in BidRows
  PROVE  /\ Release(r) \in BidRows
         /\ Release(r).hold # "held"
         /\ Release(r).status = r.status
         /\ Release(r).booked = r.booked
         /\ Release(r).amount = r.amount
  <1> DEFINE k == CancelIntent(r.keys, r.intent)
  <1>1. k \in [Gens -> KeyStatuses]
    BY CancelIntentType, SMT DEF BidRows
  <1>2. Release(r) = IF r.hold \in {"released", "captured"} THEN r
                     ELSE [r EXCEPT !.hold = "released", !.keys = k]
    BY DEF Release
  <1> HIDE DEF k
  <1>3. "released" \in HoldStatuses
    BY DEF HoldStatuses
  <1>4. [r EXCEPT !.hold = "released", !.keys = k] \in BidRows
    BY <1>1, <1>3, Zenon DEF BidRows
  <1>5. QED
    BY <1>2, <1>4, SMT DEF BidRows

\* A voided bid has its new status and no live hold.
LEMMA VoidFacts ==
  ASSUME NEW r \in BidRows, NEW s \in BidStatuses
  PROVE  /\ Void(r, s) \in BidRows
         /\ Void(r, s).hold # "held"
         /\ Void(r, s).status = s
         /\ Void(r, s).booked = r.booked
         /\ Void(r, s).amount = r.amount
  <1>1. /\ Release(r) \in BidRows /\ Release(r).hold # "held" /\ Release(r).booked = r.booked
        /\ Release(r).amount = r.amount
    BY ReleaseFacts
  <1>2. QED
    BY <1>1, SMT DEF Void, BidRows

\* After cancel_active_bids or _release_runners_up no bid is active or held.
LEMMA VoidActiveFacts ==
  ASSUME NEW B \in [Bids -> BidRows], HeldActive(B), NEW s \in BidStatuses \ {"active"}
  PROVE  /\ VoidActive(B, s) \in [Bids -> BidRows]
         /\ \A b \in Bids : /\ VoidActive(B, s)[b].hold # "held"
                            /\ VoidActive(B, s)[b].status # "active"
                            /\ VoidActive(B, s)[b].booked = B[b].booked
                            /\ VoidActive(B, s)[b].amount = B[b].amount
                            /\ B[b].status # "active" => VoidActive(B, s)[b] = B[b]
                            /\ B[b].status = "active" => VoidActive(B, s)[b].status = s
  <1>1. \A b \in Bids : /\ Void(B[b], s) \in BidRows
                        /\ Void(B[b], s).hold # "held"
                        /\ Void(B[b], s).status = s
                        /\ Void(B[b], s).booked = B[b].booked
                        /\ Void(B[b], s).amount = B[b].amount
    BY VoidFacts
  <1>2. QED
    BY <1>1, SMT DEF VoidActive, HeldActive

\* A captured hold is booked and its bid has won.
LEMMA CapturedFacts ==
  ASSUME NEW r \in BidRows
  PROVE  /\ Captured(r) \in BidRows
         /\ Captured(r).hold = "captured"
         /\ Captured(r).status = "won"
         /\ Captured(r).booked
         /\ Captured(r).amount = r.amount
  <1> DEFINE k == [r.keys EXCEPT ![r.intent] = "captured"]
  <1>1. k \in [Gens -> KeyStatuses]
    BY SMT DEF BidRows, KeyStatuses
  <1>2. Captured(r)
          = [r EXCEPT !.hold = "captured", !.booked = TRUE, !.status = "won", !.keys = k]
    BY DEF Captured
  <1> HIDE DEF k
  <1>3. "captured" \in HoldStatuses /\ "won" \in BidStatuses
    BY DEF HoldStatuses, BidStatuses
  <1>4. Captured(r) \in BidRows
    BY <1>1, <1>2, <1>3, Zenon DEF BidRows
  <1>5. QED
    BY <1>2, <1>4, SMT DEF BidRows

\* A declined capture leaves the bid in the running without a live hold.
LEMMA DeclinedFacts ==
  ASSUME NEW r \in BidRows
  PROVE  /\ Declined(r) \in BidRows
         /\ Declined(r).hold # "held"
         /\ Declined(r).status = r.status
         /\ Declined(r).booked = r.booked
         /\ Declined(r).bidder = r.bidder
         /\ Declined(r).amount = r.amount
  BY SMT DEF Declined, BidRows, HoldStatuses

\* reauthorize renews a hold's funding and leaves the rest of the row alone.
LEMMA ReauthorisedFacts ==
  ASSUME NEW r \in BidRows, NEW i \in Gens, NEW n \in Gens
  PROVE  /\ Reauthorised(r, i, n) \in BidRows
         /\ Reauthorised(r, i, n).hold = r.hold
         /\ Reauthorised(r, i, n).status = r.status
         /\ Reauthorised(r, i, n).booked = r.booked
         /\ Reauthorised(r, i, n).bidder = r.bidder
         /\ Reauthorised(r, i, n).amount = r.amount
  <1> DEFINE k == [r.keys EXCEPT ![n] = IF @ = "unused" THEN "authorised" ELSE @]
  <1>1. k \in [Gens -> KeyStatuses]
    BY SMT DEF BidRows, KeyStatuses
  <1>2. CancelIntent(k, i) \in [Gens -> KeyStatuses]
    BY <1>1, CancelIntentType
  <1>3. Reauthorised(r, i, n)
          = [r EXCEPT !.refreshes = n, !.intent = n, !.keys = CancelIntent(k, i)]
    BY DEF Reauthorised
  <1> HIDE DEF k
  <1>4. Reauthorised(r, i, n) \in BidRows
    BY <1>2, <1>3, Zenon DEF BidRows
  <1>5. QED
    BY <1>3, <1>4, SMT DEF BidRows

\* A rolled-back update changes nothing in the row but what Stripe knows.
LEMMA StripeOnlyFacts ==
  ASSUME NEW r \in BidRows, NEW after \in BidRows
  PROVE  /\ StripeOnly(r, after) \in BidRows
         /\ StripeOnly(r, after).hold = r.hold
         /\ StripeOnly(r, after).status = r.status
         /\ StripeOnly(r, after).booked = r.booked
         /\ StripeOnly(r, after).bidder = r.bidder
         /\ StripeOnly(r, after).amount = r.amount
  <1> DEFINE k == [g \in Gens |->
               IF after.keys[g] = "captured" /\ r.keys[g] # "captured" THEN "torn"
               ELSE after.keys[g]]
  <1>1. k \in [Gens -> KeyStatuses]
    BY DEF BidRows, KeyStatuses
  <1>2. StripeOnly(r, after) = [r EXCEPT !.keys = k]
    BY DEF StripeOnly
  <1> HIDE DEF k
  <1>3. StripeOnly(r, after) \in BidRows
    BY <1>1, <1>2, Zenon DEF BidRows
  <1> QED
    BY <1>2, <1>3, SMT DEF BidRows

\* A new bid is active, held and not booked.
LEMMA PlacedBidFacts ==
  ASSUME NEW u \in Bidders, NEW a \in Prices
  PROVE  /\ PlacedBid(u, a) \in BidRows
         /\ PlacedBid(u, a).hold = "held"
         /\ PlacedBid(u, a).status = "active"
         /\ PlacedBid(u, a).bidder = u
         /\ PlacedBid(u, a).amount = a
         /\ ~PlacedBid(u, a).booked
  <1> DEFINE k == [NoBidRow.keys EXCEPT ![0] = "authorised"]
  <1>1. k \in [Gens -> KeyStatuses] /\ a \in Nat
    BY GensFacts, NoBidRowType, PricesAssumption, SMT DEF BidRows, KeyStatuses
  <1>2. PlacedBid(u, a) = [NoBidRow EXCEPT !.status = "active", !.bidder = u,
                                           !.amount = a, !.hold = "held", !.keys = k]
    BY DEF PlacedBid
  <1> HIDE DEF k
  <1>3. "active" \in BidStatuses /\ "held" \in HoldStatuses
    BY DEF BidStatuses, HoldStatuses
  <1>4. PlacedBid(u, a) \in BidRows
    BY <1>1, <1>2, <1>3, NoBidRowType, Zenon DEF BidRows
  <1>5. NoBidRow.booked = FALSE
    BY Zenon DEF NoBidRow
  <1>6. QED
    BY <1>2, <1>4, <1>5, NoBidRowType, SMT DEF BidRows

-----------------------------------------------------------------------------
(* The sections that run under the lock of the auction row. *)

\* Every bid is in the running as before.
SamePlaces ==
  \A b \in Bids : bids'[b].status = bids[b].status /\ bids'[b].bidder = bids[b].bidder

\* What every such section leaves behind.
Outcome ==
  /\ bids' \in [Bids -> BidRows]
  /\ status' \in AuctionStatuses
  /\ winner' \in Bids \cup {NoBid}
  /\ deadline' \in Nat
  /\ depth' \in Nat
  /\ piece' \in PieceStatuses
  /\ Sound(bids', status', winner')
  /\ ActiveBids(bids') \subseteq ActiveBids(bids)
  /\ status' \in Running => SamePlaces


\* The rows a section starts settling from: nobody has paid yet.
Ready(B) ==
  /\ B \in [Bids -> BidRows]
  /\ HeldActive(B)
  /\ NobodyBooked(B)
  /\ ActiveBids(B) \subseteq ActiveBids(bids)

OneHoldBut(B, w) ==
  \A b, c \in Bids \ {w} : B[b].hold = "held" /\ B[c].hold = "held"
                             /\ B[b].bidder = B[c].bidder => b = c

\* A section whose committed rows are sound ends sound, also when it is rolled
\* back and only Stripe remembers it.
LEMMA ConcludeOutcome ==
  ASSUME TypeOK, Sound(bids, status, winner),
         NEW ok, NEW after \in [Bids -> BidRows], NEW s \in AuctionStatuses \ Running,
         NEW w \in Bids \cup {NoBid}, NEW dl \in Nat, NEW d \in Nat,
         NEW p \in PieceStatuses,
         Sound(after, s, w),
         ActiveBids(after) \subseteq ActiveBids(bids),
         Conclude(ok, after, s, w, dl, d, p)
  PROVE  Outcome /\ status' \in {s, status}
  <1> DEFINE kept == [b \in Bids |-> StripeOnly(bids[b], after[b])]
  <1>1. CASE /\ bids' = after /\ status' = s /\ winner' = w
             /\ deadline' = dl /\ depth' = d /\ piece' = p
    BY <1>1 DEF Outcome
  <1>2. CASE bids' = kept /\ UNCHANGED <<status, winner, deadline, depth, piece>>
    <2>1. \A b \in Bids : /\ kept[b] \in BidRows
                          /\ kept[b].hold = bids[b].hold
                          /\ kept[b].status = bids[b].status
                          /\ kept[b].booked = bids[b].booked
                          /\ kept[b].bidder = bids[b].bidder
      BY StripeOnlyFacts DEF TypeOK
    <2>2. kept \in [Bids -> BidRows]
      BY <2>1
    <2> HIDE DEF kept
    <2>3. Sound(kept, status, winner)
      BY <2>1, SMT DEF Sound, HeldActive, OneHold, NobodyBooked, SoldTo, OfferedTo
    <2>4. ActiveBids(kept) = ActiveBids(bids)
      BY <2>1 DEF ActiveBids
    <2>5. SamePlaces
      BY <1>2, <2>1 DEF SamePlaces
    <2>6. QED
      BY <1>2, <2>2, <2>3, <2>4, <2>5 DEF Outcome, TypeOK
  <1>3. QED
    BY <1>1, <1>2 DEF Conclude

\* Voiding every active bid leaves nothing active and nothing held.
LEMMA VoidedSound ==
  ASSUME NEW B, Ready(B), NEW v \in BidStatuses \ {"active"},
         NEW s \in AuctionStatuses \ {"awaiting_winner", "awaiting_payment"}, NEW w
  PROVE  /\ VoidActive(B, v) \in [Bids -> BidRows]
         /\ Sound(VoidActive(B, v), s, w)
         /\ ActiveBids(VoidActive(B, v)) = {}
  <1>1. /\ VoidActive(B, v) \in [Bids -> BidRows]
        /\ \A b \in Bids : /\ VoidActive(B, v)[b].hold # "held"
                           /\ VoidActive(B, v)[b].status # "active"
                           /\ VoidActive(B, v)[b].booked = B[b].booked
    BY VoidActiveFacts DEF Ready
  <1>2. QED
    BY <1>1 DEF Sound, HeldActive, OneHold, NobodyBooked, Ready, ActiveBids

\* settle_on with the money taken
LEMMA SettleOutcome ==
  ASSUME TypeOK, Sound(bids, status, winner),
         NEW B, Ready(B), NEW b \in ActiveBids(B), NEW d \in Nat,
         Settle(B, b, d)
  PROVE  Outcome /\ status' \in {"awaiting_winner", status}
  <1> DEFINE C == [B EXCEPT ![b] = Captured(B[b])]
             after == VoidActive(C, "lost")
  <1>1. b \in Bids /\ B \in [Bids -> BidRows]
    BY DEF ActiveBids, Ready
  <1>2. /\ Captured(B[b]) \in BidRows
        /\ Captured(B[b]).hold = "captured"
        /\ Captured(B[b]).status = "won"
        /\ Captured(B[b]).booked
    BY <1>1, CapturedFacts
  <1>3. /\ C \in [Bids -> BidRows]
        /\ C[b] = Captured(B[b])
        /\ \A x \in Bids \ {b} : C[x] = B[x]
    BY <1>1, <1>2
  <1>4. HeldActive(C)
    BY <1>2, <1>3 DEF HeldActive, Ready
  <1> HIDE DEF C
  <1>5. /\ after \in [Bids -> BidRows]
        /\ \A x \in Bids : /\ after[x].hold # "held"
                           /\ after[x].status # "active"
                           /\ after[x].booked = C[x].booked
                           /\ C[x].status # "active" => after[x] = C[x]
    BY <1>3, <1>4, VoidActiveFacts, "lost" \in BidStatuses \ {"active"} DEF BidStatuses
  <1>6. SoldTo(after, b)
    BY <1>1, <1>2, <1>3, <1>5 DEF SoldTo, Ready, NobodyBooked
  <1>7. Sound(after, "awaiting_winner", b) /\ ActiveBids(after) = {}
    BY <1>5, <1>6 DEF Sound, HeldActive, OneHold, ActiveBids
  <1>8. Conclude(PieceMovable, after, "awaiting_winner", b, 0, d, "auction_won")
    BY DEF Settle, C
  <1> HIDE DEF after
  <1>9. QED
    BY <1>1, <1>5, <1>7, <1>8, ConcludeOutcome DEF AuctionStatuses, Running, PieceStatuses

\* _park_for_payment
LEMMA ParkOutcome ==
  ASSUME TypeOK, Sound(bids, status, winner),
         NEW B, Ready(B), NEW b \in ActiveBids(B), OneHoldBut(B, b), NEW d \in Nat,
         Park(B, b, d)
  PROVE  Outcome /\ status' \in {"awaiting_payment", status}
  <1> DEFINE after == [B EXCEPT ![b] = Declined(B[b])]
  <1>1. b \in Bids /\ B \in [Bids -> BidRows] /\ B[b].status = "active"
    BY DEF ActiveBids, Ready
  <1>2. /\ Declined(B[b]) \in BidRows
        /\ Declined(B[b]).hold # "held"
        /\ Declined(B[b]).status = B[b].status
        /\ Declined(B[b]).booked = B[b].booked
    BY <1>1, DeclinedFacts
  <1>3. /\ after \in [Bids -> BidRows]
        /\ after[b] = Declined(B[b])
        /\ \A x \in Bids \ {b} : after[x] = B[x]
    BY <1>1, <1>2
  <1>4. Conclude(PieceMovable, after, "awaiting_payment", b, now + RetryWindow, d,
                 "auction_won")
    BY DEF Park
  <1> HIDE DEF after
  <1>5. HeldActive(after) /\ NobodyBooked(after) /\ OfferedTo(after, b)
    BY <1>1, <1>2, <1>3 DEF HeldActive, NobodyBooked, OfferedTo, Ready
  <1>6. OneHold(after)
    BY <1>2, <1>3 DEF OneHold, OneHoldBut
  <1>7. Sound(after, "awaiting_payment", b)
    BY <1>5, <1>6 DEF Sound
  <1>8. ActiveBids(after) \subseteq ActiveBids(bids)
    BY <1>1, <1>2, <1>3 DEF ActiveBids, Ready
  <1>9. now + RetryWindow \in Nat
    BY TimesAssumption DEF TypeOK
  <1>10. QED
    BY <1>1, <1>3, <1>4, <1>7, <1>8, <1>9, ConcludeOutcome
      DEF AuctionStatuses, Running, PieceStatuses

\* settle_on
LEMMA SettleOnOutcome ==
  ASSUME TypeOK, Sound(bids, status, winner),
         NEW B, Ready(B), NEW b \in ActiveBids(B), OneHoldBut(B, b), NEW d \in Nat,
         SettleOn(B, b, d)
  PROVE  Outcome /\ status' \in {"awaiting_winner", "awaiting_payment", status}
  <1>1. CASE Settle(B, b, d)
    BY <1>1, SettleOutcome
  <1>2. CASE Park(B, b, d)
    BY <1>2, ParkOutcome
  <1>3. QED
    BY <1>1, <1>2 DEF SettleOn

\* _give_up
LEMMA GiveUpOutcome ==
  ASSUME TypeOK, Sound(bids, status, winner),
         NEW B, Ready(B), NEW d \in Nat, GiveUp(B, d)
  PROVE  Outcome /\ status' \in {"needs_seller_action", status}
  <1> DEFINE after == VoidActive(B, "cancelled")
             p == IF piece = "auction_won" THEN "delisted" ELSE piece
  <1>1. /\ after \in [Bids -> BidRows]
        /\ Sound(after, "needs_seller_action", NoBid)
        /\ ActiveBids(after) = {}
    BY VoidedSound DEF BidStatuses, AuctionStatuses
  <1>2. Conclude(TRUE, after, "needs_seller_action", NoBid, 0, d, p)
    BY DEF GiveUp
  <1>3. p \in PieceStatuses
    BY DEF TypeOK, PieceStatuses
  <1> HIDE DEF after, p
  <1>4. QED
    BY <1>1, <1>2, <1>3, ConcludeOutcome DEF AuctionStatuses, Running

-----------------------------------------------------------------------------
(* Every action keeps the invariant and has the action properties. *)

Good ==
  /\ Inv'
  /\ closesAt' >= closesAt
  /\ ~Open /\ status # "cancelled" => ActiveBids(bids') \subseteq ActiveBids(bids)
  /\ SoftClose /\ ~(ActiveBids(bids') \subseteq ActiveBids(bids)) => closesAt' >= now + SoftWindow
  /\ Open /\ status' \in Running => \A u \in Bidders : Active(u, bids) => Active(u, bids')

\* Bids that are in the running as before keep their bidders in it.
LEMMA SamePlacesKept ==
  ASSUME SamePlaces
  PROVE  \A u \in Bidders : Active(u, bids) => Active(u, bids')
  BY DEF SamePlaces, Active, ActiveBids

\* A locked section that leaves the close alone.
LEMMA SectionGood ==
  ASSUME Inv, Outcome, UNCHANGED <<now, closesAt, extended, listing, inFlight>>,
         status' \in Running \cup {"cancelled"} \/ closesAt <= now
  PROVE  Good
  <1>1. TypeOK'
    BY DEF Inv, TypeOK, Outcome, inFlight
  <1>2. PastClose' /\ Loaded' /\ SweepLoaded'
    BY DEF Inv, PastClose, Loaded, SweepLoaded, inFlight
  <1>3. closesAt' >= closesAt
    BY DEF Inv, TypeOK
  <1>4. QED
    BY <1>1, <1>2, <1>3, SamePlacesKept DEF Good, Inv, Outcome

\* An action on the rows alone, which no bid joins.
LEMMA RowsGood ==
  ASSUME Inv, UNCHANGED <<now, auctionVars, pieceVars, request>>,
         bids' \in [Bids -> BidRows], sweep' \in Sweeps, SweepLoaded',
         \A b \in Bids : /\ bids'[b].hold = "held" => bids[b].hold = "held"
                         /\ bids'[b].status = bids[b].status
                         /\ bids'[b].booked = bids[b].booked
                         /\ bids'[b].bidder = bids[b].bidder
  PROVE  Good
  <1>1. TypeOK'
    BY DEF Inv, TypeOK, auctionVars, pieceVars
  <1>2. PastClose' /\ Loaded'
    BY DEF Inv, PastClose, Loaded, auctionVars
  <1>3. Sound(bids', status', winner')
    <2>1. Sound(bids, status, winner)
      BY DEF Inv
    <2>2. Sound(bids', status, winner)
      BY <2>1, SMT DEF Sound, HeldActive, OneHold, NobodyBooked, SoldTo, OfferedTo
    <2>3. QED
      BY <2>2 DEF auctionVars
  <1>4. closesAt' >= closesAt
    BY DEF Inv, TypeOK, auctionVars
  <1>5. ActiveBids(bids') = ActiveBids(bids) /\ SamePlaces
    BY DEF ActiveBids, SamePlaces
  <1>6. QED
    BY <1>1, <1>2, <1>3, <1>4, <1>5, SamePlacesKept DEF Good, Inv

\* An action that leaves the rows and the auction alone.
LEMMA ElsewhereGood ==
  ASSUME Inv, TypeOK', UNCHANGED <<bids, status, winner, closesAt>>, now' >= now,
         Loaded', SweepLoaded'
  PROVE  Good
  <1>1. PastClose'
    BY DEF Inv, TypeOK, PastClose
  <1>2. Sound(bids', status', winner')
    BY DEF Inv
  <1>3. ActiveBids(bids') = ActiveBids(bids) /\ SamePlaces
    BY DEF SamePlaces
  <1>4. QED
    BY <1>1, <1>2, <1>3, SamePlacesKept DEF Good, Inv, TypeOK

\* What a request that gets through the checks knows of the row under the lock.
LEMMA LoadedRowFacts ==
  ASSUME Inv, NEW u \in Bidders, AcceptsBids(LoadedRow(u))
  PROVE  /\ LoadedRow(u).closesAt \in Nat
         /\ LoadedRow(u).closing \in BOOLEAN
         /\ LoadedRow(u).closesAt <= closesAt
         /\ now < closesAt
         /\ LoadedRow(u).closesAt - now <= SoftWindow => closesAt <= now + SoftWindow
         /\ status \in Running \cup {"cancelled"}
  <1>1. /\ LoadedRow(u).closesAt \in Nat
        /\ LoadedRow(u).closing \in BOOLEAN
        /\ LoadedRow(u).closesAt <= closesAt
        /\ LoadedRow(u).closesAt - now <= SoftWindow => closesAt <= now + SoftWindow
    <2>1. CASE "bid_overlap" \notin Hazards
      <3>1. LoadedRow(u).closesAt = closesAt /\ LoadedRow(u).closing = (status = "closing")
        BY <2>1, Zenon DEF LoadedRow
      <3>2. LoadedRow(u).closing \in BOOLEAN
        BY <3>1, Zenon
      <3>3. QED
        BY <3>1, <3>2, TimesAssumption, SMT DEF Inv, TypeOK
    <2>2. CASE "bid_overlap" \in Hazards
      <3>1. LoadedRow(u) = request[u]
        BY <2>2 DEF LoadedRow
      <3>2. /\ request[u] \in Requests
            /\ request[u].open
            /\ now <= request[u].at + RequestLife
        BY <3>1, Zenon DEF AcceptsBids, Inv, TypeOK
      <3>3. /\ request[u].closesAt <= closesAt
            /\ \/ closesAt = request[u].closesAt
               \/ closesAt <= now + SoftWindow
               \/ request[u].closesAt > request[u].at + RequestLife + SoftWindow
        BY <3>2 DEF Inv, Loaded
      <3>4. request[u].closesAt \in Nat /\ request[u].at \in Nat /\ request[u].closing \in BOOLEAN
        BY <3>2, Zenon DEF Requests
      <3>5. QED
        BY <3>1, <3>2, <3>3, <3>4, TimesAssumption, SMT DEF Inv, TypeOK
    <2>3. QED
      BY <2>1, <2>2
  <1>2. now < LoadedRow(u).closesAt
    BY DEF AcceptsBids
  <1>3. now < closesAt
    BY <1>1, <1>2 DEF Inv, TypeOK
  <1>4. QED
    BY <1>1, <1>3 DEF Inv, PastClose, TypeOK

\* The soft close moves the close later or not at all.
LEMMA SoftCloseFacts ==
  ASSUME Inv, NEW u \in Bidders, AcceptsBids(LoadedRow(u)), ApplySoftClose(LoadedRow(u))
  PROVE  /\ closesAt' \in Nat
         /\ closesAt' >= closesAt
         /\ closesAt' = closesAt \/ closesAt' = now + SoftWindow
         /\ status' \in Running \cup {"cancelled"}
         /\ SoftClose => closesAt' >= now + SoftWindow
  <1>1. /\ closesAt \in Nat /\ now \in Nat /\ SoftWindow \in Nat
        /\ status \in Running \cup {"cancelled"}
    BY LoadedRowFacts, TimesAssumption DEF Inv, TypeOK
  <1>2. QED
    BY <1>1, LoadedRowFacts, SMT DEF ApplySoftClose, Running

\* A bid joins: place_bid.
LEMMA PlaceBidGood ==
  ASSUME Inv, NEW u \in Bidders, NEW a \in Prices, PlaceBid(u, a)
  PROVE  Good
  <1> DEFINE row == LoadedRow(u)
  <1>1. AcceptsBids(row) /\ ApplySoftClose(row)
    BY DEF PlaceBid
  <1>2. PICK n \in Bids :
          /\ NextSlot(n)
          /\ bids' = [x \in Bids |-> IF x = n THEN PlacedBid(u, a)
                                     ELSE IF IsPreviousHold(x, u) THEN Void(bids[x], "outbid")
                                     ELSE bids[x]]
    BY DEF PlaceBid
  <1>3. /\ UNCHANGED <<now, extended, winner, deadline, depth, piece, listing, sweep>>
        /\ request' = [request EXCEPT ![u] = NoRequest]
    BY DEF PlaceBid, pieceVars
  <1>4. /\ closesAt' \in Nat
        /\ closesAt' >= closesAt
        /\ closesAt' = closesAt \/ closesAt' = now + SoftWindow
        /\ status' \in Running \cup {"cancelled"}
    BY <1>1, SoftCloseFacts
  <1>5. status \in Running \cup {"cancelled"}
    BY <1>1, LoadedRowFacts
  <1>6. /\ bids \in [Bids -> BidRows]
        /\ HeldActive(bids) /\ OneHold(bids) /\ NobodyBooked(bids)
    BY <1>5 DEF Inv, TypeOK, Sound, Running
  <1>7. /\ bids'[n] = PlacedBid(u, a)
        /\ PlacedBid(u, a) \in BidRows
        /\ PlacedBid(u, a).hold = "held"
        /\ PlacedBid(u, a).status = "active"
        /\ PlacedBid(u, a).bidder = u
        /\ ~PlacedBid(u, a).booked
    BY <1>2, PlacedBidFacts
  <1>8. \A x \in Bids \ {n} :
          IF IsPreviousHold(x, u)
          THEN /\ bids'[x] \in BidRows
               /\ bids'[x].hold # "held"
               /\ bids'[x].booked = bids[x].booked
          ELSE bids'[x] = bids[x]
    <2>1. \A x \in Bids : /\ Void(bids[x], "outbid") \in BidRows
                          /\ Void(bids[x], "outbid").hold # "held"
                          /\ Void(bids[x], "outbid").booked = bids[x].booked
      BY <1>6, VoidFacts, "outbid" \in BidStatuses DEF BidStatuses
    <2>2. QED
      BY <1>2, <2>1
  <1>9. \A x \in Bids \ {n} : bids[x].hold = "held" /\ bids[x].bidder = u
                                => IsPreviousHold(x, u)
    BY <1>6, GensFacts, SMT DEF IsPreviousHold, LiveHolds, OneHold, Bids
  <1>10. bids' \in [Bids -> BidRows]
    <2>1. \A x \in Bids : bids'[x] \in BidRows
      BY <1>6, <1>7, <1>8
    <2>2. QED
      BY <1>2, <2>1
  <1>11. HeldActive(bids') /\ NobodyBooked(bids')
    BY <1>6, <1>7, <1>8 DEF HeldActive, NobodyBooked
  <1>12. OneHold(bids')
    BY <1>6, <1>7, <1>8, <1>9 DEF OneHold
  <1>13. Sound(bids', status', winner')
    BY <1>4, <1>11, <1>12 DEF Sound, Running
  <1>14. request' \in [Bidders -> Requests]
    BY <1>3, NoRequest \in Requests DEF Inv, TypeOK, NoRequest, Requests
  <1>15. TypeOK'
    BY <1>3, <1>4, <1>10, <1>14 DEF Inv, TypeOK, AuctionStatuses
  <1>16. PastClose'
    BY <1>4 DEF PastClose
  <1>17. Loaded'
    <2> SUFFICES ASSUME NEW v \in Bidders, request'[v].open
                 PROVE  /\ request'[v].at <= now
                        /\ request'[v].closesAt <= closesAt'
                        /\ \/ closesAt' = request'[v].closesAt
                           \/ closesAt' <= now + SoftWindow
                           \/ request'[v].closesAt > request'[v].at + RequestLife + SoftWindow
      BY <1>3 DEF Loaded
    <2>1. v # u /\ request'[v] = request[v]
      BY <1>3, Zenon DEF Inv, TypeOK, NoRequest
    <2>2. request[v].at \in Nat /\ request[v].closesAt \in Nat
      BY DEF Inv, TypeOK, Requests
    <2>3. QED
      BY <1>4, <2>1, <2>2, TimesAssumption DEF Inv, TypeOK, Loaded
  <1>18. SweepLoaded'
    BY <1>3 DEF Inv, SweepLoaded
  <1>19. ~(~Open /\ status # "cancelled")
    BY <1>5 DEF Open
  <1>20. ASSUME NEW v \in Bidders, Active(v, bids) PROVE Active(v, bids')
    <2>1. CASE v = u
      BY <1>7, <2>1 DEF Active, ActiveBids
    <2>2. CASE v # u
      <3>1. PICK x \in Bids : bids[x].status = "active" /\ bids[x].bidder = v
        BY <1>20 DEF Active, ActiveBids
      <3>2. x # n /\ ~IsPreviousHold(x, u)
        BY <1>2, <2>2, <3>1 DEF NextSlot, IsPreviousHold, LiveHolds
      <3>3. bids'[x] = bids[x]
        BY <1>8, <3>2
      <3>4. QED
        BY <3>1, <3>3 DEF Active, ActiveBids
    <2>3. QED
      BY <2>1, <2>2
  <1>21. SoftClose => closesAt' >= now + SoftWindow
    BY <1>1, SoftCloseFacts
  <1>22. QED
    BY <1>4, <1>13, <1>15, <1>16, <1>17, <1>18, <1>19, <1>20, <1>21 DEF Good, Inv

\* A bid's request dies after its calls to Stripe.
LEMMA PlaceBidCrashesGood ==
  ASSUME Inv, NEW u \in Bidders, NEW a \in Prices, PlaceBidCrashes(u, a)
  PROVE  Good
  <1> DEFINE dead == [PlacedBid(u, a) EXCEPT !.status = "rolled_back", !.hold = "none"]
  <1>1. PICK n \in Bids :
          /\ NextSlot(n)
          /\ bids' = [x \in Bids |->
               IF x = n THEN dead
               ELSE IF IsPreviousHold(x, u) THEN StripeOnly(bids[x], Void(bids[x], "outbid"))
               ELSE bids[x]]
    BY DEF PlaceBidCrashes
  <1>2. /\ UNCHANGED <<now, auctionVars, pieceVars, sweep>>
        /\ request' = [request EXCEPT ![u] = NoRequest]
    BY DEF PlaceBidCrashes
  <1>3. bids \in [Bids -> BidRows]
    BY DEF Inv, TypeOK
  <1>4. /\ dead \in BidRows /\ dead.hold = "none" /\ dead.status = "rolled_back"
        /\ ~dead.booked
    <2>1. PlacedBid(u, a) \in BidRows /\ ~PlacedBid(u, a).booked
      BY PlacedBidFacts
    <2>2. "rolled_back" \in BidStatuses /\ "none" \in HoldStatuses
      BY DEF BidStatuses, HoldStatuses
    <2>3. dead \in BidRows
      BY <2>1, <2>2, Zenon DEF BidRows
    <2>4. QED
      BY <2>1, <2>3, SMT DEF BidRows
  <1> HIDE DEF dead
  <1>5. \A x \in Bids \ {n} : /\ bids'[x] \in BidRows
                              /\ bids'[x].hold = bids[x].hold
                              /\ bids'[x].status = bids[x].status
                              /\ bids'[x].booked = bids[x].booked
                              /\ bids'[x].bidder = bids[x].bidder
    <2> SUFFICES ASSUME NEW x \in Bids \ {n}
                 PROVE  /\ bids'[x] \in BidRows
                        /\ bids'[x].hold = bids[x].hold
                        /\ bids'[x].status = bids[x].status
                        /\ bids'[x].booked = bids[x].booked
                        /\ bids'[x].bidder = bids[x].bidder
      OBVIOUS
    <2>1. Void(bids[x], "outbid") \in BidRows
      BY <1>3, VoidFacts, "outbid" \in BidStatuses DEF BidStatuses
    <2>2. QED
      BY <1>1, <1>3, <2>1, StripeOnlyFacts
  <1>6. bids'[n] = dead /\ bids[n].status = "none" /\ bids' \in [Bids -> BidRows]
    BY <1>1, <1>4, <1>5 DEF NextSlot
  <1>7. Sound(bids', status', winner')
    <2>1. Sound(bids, status, winner)
      BY DEF Inv
    <2>2. HeldActive(bids') /\ OneHold(bids')
      BY <1>4, <1>5, <1>6, <2>1, SMT DEF Sound, HeldActive, OneHold
    <2>3. NobodyBooked(bids) => NobodyBooked(bids')
      BY <1>4, <1>5, <1>6 DEF NobodyBooked
    <2>4. SoldTo(bids, winner) => SoldTo(bids', winner)
      BY <1>4, <1>5, <1>6 DEF SoldTo
    <2>5. OfferedTo(bids, winner) => OfferedTo(bids', winner)
      BY <1>4, <1>5, <1>6 DEF OfferedTo
    <2>6. QED
      BY <1>2, <2>1, <2>2, <2>3, <2>4, <2>5 DEF Sound, auctionVars
  <1>8. request' \in [Bidders -> Requests]
    BY <1>2, NoRequest \in Requests DEF Inv, TypeOK, NoRequest, Requests
  <1>9. TypeOK'
    BY <1>2, <1>6, <1>8 DEF Inv, TypeOK, auctionVars, pieceVars
  <1>10. PastClose' /\ SweepLoaded'
    BY <1>2 DEF Inv, PastClose, SweepLoaded, auctionVars
  <1>11. Loaded'
    <2>1. \A v \in Bidders : request'[v].open => request'[v] = request[v]
      BY <1>2, Zenon DEF Inv, TypeOK, NoRequest
    <2>2. QED
      BY <1>2, <2>1 DEF Inv, Loaded, auctionVars
  <1>12. ActiveBids(bids') \subseteq ActiveBids(bids)
    BY <1>4, <1>5, <1>6 DEF ActiveBids
  <1>13. closesAt' >= closesAt
    BY <1>2 DEF Inv, TypeOK, auctionVars
  <1>14. ASSUME NEW v \in Bidders, Active(v, bids) PROVE Active(v, bids')
    BY <1>5, <1>6, <1>14 DEF Active, ActiveBids
  <1>15. QED
    BY <1>7, <1>9, <1>10, <1>11, <1>12, <1>13, <1>14 DEF Good, Inv

\* Rows nobody has been charged for, as the sections find them.
LEMMA RunningReady ==
  ASSUME Inv, status # "awaiting_winner"
  PROVE  Ready(bids) /\ OneHold(bids)
  BY DEF Inv, TypeOK, Sound, Ready

\* The rows a cascade goes on with, once the winner who did not pay is out.
LEMMA ForfeitRows ==
  ASSUME bids \in [Bids -> BidRows], winner \in Bids
  PROVE  /\ Forfeit(bids, winner) \in [Bids -> BidRows]
         /\ Forfeit(bids, winner)[winner] = Void(bids[winner], "forfeited")
         /\ Forfeit(bids, winner)[winner].hold # "held"
         /\ Forfeit(bids, winner)[winner].status = "forfeited"
         /\ Forfeit(bids, winner)[winner].booked = bids[winner].booked
         /\ Forfeit(bids, winner)[winner].amount = bids[winner].amount
         /\ \A x \in Bids \ {winner} : Forfeit(bids, winner)[x] = bids[x]
  <1>1. /\ Void(bids[winner], "forfeited") \in BidRows
        /\ Void(bids[winner], "forfeited").hold # "held"
        /\ Void(bids[winner], "forfeited").status = "forfeited"
        /\ Void(bids[winner], "forfeited").booked = bids[winner].booked
        /\ Void(bids[winner], "forfeited").amount = bids[winner].amount
    BY VoidFacts, "forfeited" \in BidStatuses DEF BidStatuses
  <1>2. winner # NoBid
    BY DEF Bids, NoBid
  <1> QED
    BY <1>1, <1>2 DEF Forfeit

\* The winner's row once retry_winner_payment has authorised another card.
Renewed ==
  [Reauthorised(bids[winner], bids[winner].intent, bids[winner].refreshes + 1)
     EXCEPT !.hold = "held"]

LEMMA RenewedFacts ==
  ASSUME Inv, RetryPayment
  PROVE  /\ winner \in Bids /\ bids[winner].status = "active"
         /\ bids[winner].refreshes + 1 \in Gens
         /\ Renewed \in BidRows
         /\ Renewed.hold = "held"
         /\ Renewed.status = "active"
         /\ Renewed.booked = bids[winner].booked
         /\ Renewed.amount = bids[winner].amount
         /\ [bids EXCEPT ![winner] = Renewed] \in [Bids -> BidRows]
  <1> DEFINE r == bids[winner]
             n == r.refreshes + 1
  <1>1. winner \in Bids /\ r.status = "active" /\ r \in BidRows /\ bids \in [Bids -> BidRows]
    BY RunningReady DEF Inv, TypeOK, Sound, OfferedTo, RetryPayment
  <1>2. r.intent \in Gens /\ r.refreshes \in Gens /\ r.refreshes < MaxRefresh
    BY <1>1, Zenon DEF BidRows, RetryPayment
  <1>3. n \in Gens
    BY <1>2, BidsAssumption, SMT DEF Gens
  <1>4. /\ Reauthorised(r, r.intent, n) \in BidRows
        /\ Reauthorised(r, r.intent, n).status = r.status
        /\ Reauthorised(r, r.intent, n).booked = r.booked
        /\ Reauthorised(r, r.intent, n).amount = r.amount
    <2> HIDE DEF r, n
    <2> QED
      BY <1>1, <1>2, <1>3, ReauthorisedFacts
  <1>5. Renewed = [Reauthorised(r, r.intent, n) EXCEPT !.hold = "held"]
    BY DEF Renewed
  <1>6. /\ Renewed \in BidRows /\ Renewed.hold = "held" /\ Renewed.status = r.status
        /\ Renewed.booked = r.booked /\ Renewed.amount = r.amount
    BY <1>4, <1>5, "held" \in HoldStatuses, SMT DEF BidRows, HoldStatuses
  <1> QED
    BY <1>1, <1>3, <1>6

\* A card that is refused on a retry: only Stripe's memory of the key changes.
LEMMA RefusedRows ==
  ASSUME Inv, RetryPayment,
         bids' = [bids EXCEPT ![winner].keys[bids[winner].refreshes + 1] = "refused"]
  PROVE  /\ bids' \in [Bids -> BidRows]
         /\ \A b \in Bids : /\ bids'[b].hold = bids[b].hold
                            /\ bids'[b].status = bids[b].status
                            /\ bids'[b].booked = bids[b].booked
                            /\ bids'[b].bidder = bids[b].bidder
                            /\ bids'[b].amount = bids[b].amount
  <1> DEFINE r == bids[winner]
             k == [r.keys EXCEPT ![r.refreshes + 1] = "refused"]
  <1>1. winner \in Bids /\ r \in BidRows /\ bids \in [Bids -> BidRows] /\ r.refreshes + 1 \in Gens
    BY RenewedFacts DEF Inv, TypeOK
  <1>2. k \in [Gens -> KeyStatuses]
    BY <1>1 DEF BidRows, KeyStatuses
  <1>3. bids' = [bids EXCEPT ![winner] = [r EXCEPT !.keys = k]]
    OBVIOUS
  <1> HIDE DEF k
  <1>4. /\ [r EXCEPT !.keys = k] \in BidRows
        /\ [r EXCEPT !.keys = k].amount = r.amount /\ [r EXCEPT !.keys = k].status = r.status
        /\ [r EXCEPT !.keys = k].booked = r.booked /\ [r EXCEPT !.keys = k].hold = r.hold
        /\ [r EXCEPT !.keys = k].bidder = r.bidder
    BY <1>1, <1>2, SMT DEF BidRows
  <1> QED
    BY <1>1, <1>3, <1>4

\* The sweep refreshes one hold, loaded as a row that can still be refreshed.
LEMMA RefreshOneRow ==
  ASSUME Inv, RefreshOne
  PROVE  \E row \in Sweeps : row.bid \in Bids /\ row.refreshes < MaxRefresh /\ Refresh(row)
  <1>1. CASE sweep # NoSweep /\ Refresh(sweep)
    BY <1>1 DEF Inv, TypeOK, SweepLoaded
  <1>2. CASE \E b \in Bids : bids[b].refreshes < MaxRefresh /\ Refresh(HoldRow(b))
    <2>1. PICK b \in Bids : bids[b].refreshes < MaxRefresh /\ Refresh(HoldRow(b))
      BY <1>2
    <2>2. bids[b].intent \in Gens /\ bids[b].refreshes \in Gens
      BY DEF Inv, TypeOK, BidRows
    <2>3. /\ HoldRow(b) \in Sweeps /\ HoldRow(b).bid = b
          /\ HoldRow(b).refreshes = bids[b].refreshes
      BY <2>2 DEF HoldRow, Sweeps
    <2> QED
      BY <2>1, <2>3
  <1> QED
    BY <1>1, <1>2, Zenon DEF RefreshOne

\* Voiding everything and recording that the auction is over.
LEMMA VoidingGood ==
  ASSUME Inv, NEW ok,
         NEW s \in AuctionStatuses \ ({"awaiting_winner", "awaiting_payment"} \cup Running),
         status # "awaiting_winner",
         s \in Running \cup {"cancelled"} \/ closesAt <= now,
         status \in Running \/ closesAt <= now,
         NEW p \in PieceStatuses,
         Conclude(ok, VoidActive(bids, "cancelled"), s, winner, deadline, depth, p),
         UNCHANGED <<now, closesAt, extended, listing, inFlight>>
  PROVE  Good
  <1>1. /\ VoidActive(bids, "cancelled") \in [Bids -> BidRows]
        /\ Sound(VoidActive(bids, "cancelled"), s, winner)
        /\ ActiveBids(VoidActive(bids, "cancelled")) = {}
    BY RunningReady, VoidedSound DEF BidStatuses
  <1>2. Outcome /\ status' \in {s, status}
    BY <1>1, ConcludeOutcome DEF Inv, TypeOK
  <1>3. QED
    BY <1>2, SectionGood

\* close_expired_auctions
LEMMA CloseOneGood ==
  ASSUME Inv, CloseOne
  PROVE  Good
  <1>1. /\ status \in Running /\ closesAt <= now
        /\ UNCHANGED <<now, closesAt, extended, listing, inFlight>>
    BY DEF CloseOne, DueToClose, Open
  <1>2. status # "awaiting_winner"
    BY <1>1 DEF Running
  <1>3. CASE CloseWithoutSale("closed_no_bids") \/ CloseWithoutSale("needs_seller_action")
    BY <1>1, <1>2, <1>3, VoidingGood DEF CloseWithoutSale, AuctionStatuses, Running, PieceStatuses
  <1>4. CASE \E b \in Highest(bids) : SettleOn(bids, b, depth)
    <2>1. PICK b \in Highest(bids) : SettleOn(bids, b, depth)
      BY <1>4
    <2>2. b \in ActiveBids(bids)
      BY <2>1 DEF Highest
    <2>3. OneHoldBut(bids, b)
      BY <1>2, RunningReady DEF OneHoldBut, OneHold
    <2>4. Outcome
      BY <1>2, <2>1, <2>2, <2>3, RunningReady, SettleOnOutcome DEF Inv, TypeOK
    <2>5. QED
      BY <1>1, <2>4, SectionGood
  <1>5. QED
    BY <1>3, <1>4 DEF CloseOne

\* expire_winner_windows
LEMMA ExpireOneGood ==
  ASSUME Inv, ExpireOne
  PROVE  Good
  <1> DEFINE B == Forfeit(bids, winner)
  <1>1. /\ status = "awaiting_payment"
        /\ Cascade(B, depth + 1)
        /\ UNCHANGED <<now, closesAt, extended, listing, inFlight>>
    BY DEF ExpireOne
  <1>2. closesAt <= now
    BY <1>1 DEF Inv, PastClose, Running
  <1>3. winner \in Bids /\ winner # NoBid /\ Ready(bids) /\ OneHold(bids)
    BY <1>1, RunningReady DEF Inv, Sound, OfferedTo, Bids, NoBid
  <1>4. /\ B \in [Bids -> BidRows]
        /\ B[winner].hold # "held" /\ B[winner].status = "forfeited"
        /\ B[winner].booked = bids[winner].booked
        /\ \A x \in Bids \ {winner} : B[x] = bids[x]
    BY <1>3, ForfeitRows DEF Ready
  <1> HIDE DEF B
  <1>5. Ready(B) /\ OneHold(B)
    BY <1>3, <1>4 DEF Ready, HeldActive, NobodyBooked, OneHold, ActiveBids
  <1>6. depth + 1 \in Nat
    BY DEF Inv, TypeOK
  <1>7. Outcome
    <2>1. CASE GiveUp(B, depth + 1)
      BY <1>5, <1>6, <2>1, GiveUpOutcome DEF Inv
    <2>2. CASE \E b \in Highest(B) : SettleOn(B, b, depth + 1)
      <3>1. PICK b \in Highest(B) : SettleOn(B, b, depth + 1)
        BY <2>2
      <3>2. b \in ActiveBids(B) /\ OneHoldBut(B, b)
        BY <1>5, <3>1 DEF Highest, OneHoldBut, OneHold
      <3>3. QED
        BY <1>5, <1>6, <3>1, <3>2, SettleOnOutcome DEF Inv
    <2>3. QED
      BY <1>1, <2>1, <2>2 DEF Cascade
  <1>8. QED
    BY <1>1, <1>2, <1>7, SectionGood

\* retry_winner_payment
LEMMA RetryPaymentGood ==
  ASSUME Inv, RetryPayment
  PROVE  Good
  <1> DEFINE B == [bids EXCEPT ![winner] = Renewed]
  <1>1. status = "awaiting_payment" /\ UNCHANGED <<now, closesAt, extended, listing, inFlight>>
    BY DEF RetryPayment
  <1>2. closesAt <= now /\ Ready(bids) /\ OneHold(bids)
    BY <1>1, RunningReady DEF Inv, PastClose, Running
  <1>3. CASE SettleOn(B, winner, depth)
    <2>1. /\ winner \in Bids /\ bids[winner].status = "active" /\ B \in [Bids -> BidRows]
          /\ B[winner] = Renewed
          /\ Renewed.status = "active" /\ Renewed.booked = bids[winner].booked
          /\ \A x \in Bids \ {winner} : B[x] = bids[x]
      BY <1>2, RenewedFacts DEF Ready
    <2> HIDE DEF B
    <2>2. Ready(B) /\ winner \in ActiveBids(B) /\ OneHoldBut(B, winner)
      BY <1>2, <2>1 DEF Ready, HeldActive, NobodyBooked, ActiveBids, OneHold, OneHoldBut
    <2>3. Outcome
      BY <1>3, <2>2, SettleOnOutcome DEF Inv, TypeOK
    <2> QED
      BY <1>1, <1>2, <2>3, SectionGood
  <1>4. CASE /\ bids' = [bids EXCEPT ![winner].keys[bids[winner].refreshes + 1] = "refused"]
             /\ UNCHANGED <<status, winner, deadline, depth, piece>>
    <2>1. /\ bids' \in [Bids -> BidRows]
          /\ \A b \in Bids : /\ bids'[b].hold = bids[b].hold
                             /\ bids'[b].status = bids[b].status
                             /\ bids'[b].booked = bids[b].booked
                             /\ bids'[b].bidder = bids[b].bidder
      BY <1>4, RefusedRows
    <2>2. sweep' \in Sweeps /\ SweepLoaded'
      BY <1>1 DEF Inv, TypeOK, SweepLoaded, inFlight
    <2> QED
      BY <1>1, <1>4, <2>1, <2>2, RowsGood DEF auctionVars, pieceVars, inFlight
  <1> QED
    BY <1>3, <1>4 DEF RetryPayment, Renewed

\* cancel_auction
LEMMA CancelAuctionGood ==
  ASSUME Inv, CancelAuction
  PROVE  Good
  <1>1. status \in Running /\ status # "awaiting_winner"
    BY DEF CancelAuction, Open, Running
  <1>2. (IF piece = "live" THEN "delisted" ELSE piece) \in PieceStatuses
    BY DEF Inv, TypeOK, PieceStatuses
  <1>3. QED
    BY <1>1, <1>2, VoidingGood DEF CancelAuction, AuctionStatuses, Running

\* _refresh_one on a hold loaded as row: the hold's funding changes, at worst
\* the hold expires.
LEMMA RefreshRows ==
  ASSUME Inv, NEW row \in Sweeps, row.bid \in Bids, row.refreshes < MaxRefresh,
         Refresh(row)
  PROVE  /\ bids' \in [Bids -> BidRows]
         /\ \A b \in Bids : /\ bids'[b].hold = "held" => bids[b].hold = "held"
                            /\ bids'[b].status = bids[b].status
                            /\ bids'[b].booked = bids[b].booked
                            /\ bids'[b].bidder = bids[b].bidder
                            /\ bids'[b].amount = bids[b].amount
  <1> DEFINE b == row.bid
             n == row.refreshes + 1
             r == bids[b]
             renewed == Reauthorised(r, row.intent, n)
             refused == [r EXCEPT !.hold = "expired", !.refreshes = n, !.keys[n] = "refused"]
  <1>1. /\ b \in Bids /\ bids \in [Bids -> BidRows] /\ r \in BidRows
        /\ row.intent \in Gens /\ row.refreshes \in Gens
    BY DEF Inv, TypeOK, Sweeps
  <1>2. n \in Gens
    BY <1>1, BidsAssumption, SMT DEF Gens
  <1>3. /\ renewed \in BidRows /\ renewed.hold = r.hold /\ renewed.status = r.status
        /\ renewed.booked = r.booked /\ renewed.bidder = r.bidder /\ renewed.amount = r.amount
    <2> HIDE DEF b, n, r
    <2> QED
      BY <1>1, <1>2, ReauthorisedFacts
  <1>4. /\ StripeOnly(r, renewed) \in BidRows /\ StripeOnly(r, renewed).hold = r.hold
        /\ StripeOnly(r, renewed).status = r.status
        /\ StripeOnly(r, renewed).booked = r.booked
        /\ StripeOnly(r, renewed).bidder = r.bidder
        /\ StripeOnly(r, renewed).amount = r.amount
    BY <1>1, <1>3, StripeOnlyFacts
  <1>5. /\ refused \in BidRows /\ refused.hold = "expired" /\ refused.status = r.status
        /\ refused.booked = r.booked /\ refused.bidder = r.bidder /\ refused.amount = r.amount
    <2> DEFINE k == [r.keys EXCEPT ![n] = "refused"]
    <2>1. k \in [Gens -> KeyStatuses] /\ "expired" \in HoldStatuses
      BY <1>1, <1>2, SMT DEF BidRows, KeyStatuses, HoldStatuses
    <2>2. refused = [r EXCEPT !.hold = "expired", !.refreshes = n, !.keys = k]
      OBVIOUS
    <2> HIDE DEF k
    <2>3. refused \in BidRows
      BY <1>1, <1>2, <2>1, <2>2, Zenon DEF BidRows
    <2>4. QED
      BY <1>1, <2>2, <2>3, SMT DEF BidRows
  <1>6. PICK v \in {renewed, StripeOnly(r, renewed), refused} :
          bids' = [bids EXCEPT ![b] = v]
    BY Zenon DEF Refresh
  <1> HIDE DEF renewed, refused, b, r
  <1>7. /\ v \in BidRows /\ v.status = r.status /\ v.booked = r.booked
        /\ v.bidder = r.bidder /\ v.amount = r.amount /\ (v.hold = "held" => r.hold = "held")
    BY <1>3, <1>4, <1>5
  <1>8. QED
    BY <1>1, <1>6, <1>7 DEF r

\* refresh_expiring_holds
LEMMA RefreshOneGood ==
  ASSUME Inv, RefreshOne
  PROVE  Good
  <1>1. /\ sweep' = NoSweep
        /\ UNCHANGED <<now, auctionVars, pieceVars, request>>
    BY DEF RefreshOne
  <1>2. NoSweep \in Sweeps
    BY GensFacts DEF NoSweep, Sweeps
  <1> QED
    BY <1>1, <1>2, RefreshOneRow, RefreshRows, RowsGood DEF SweepLoaded

\* A request loads the auction row.
LEMMA ReadAuctionGood ==
  ASSUME Inv, NEW u \in Bidders, ReadAuction(u)
  PROVE  Good
  <1> DEFINE row == [open |-> TRUE, closing |-> status = "closing",
                     closesAt |-> closesAt, at |-> now]
  <1>1. /\ request' = [request EXCEPT ![u] = row]
        /\ UNCHANGED <<now, auctionVars, pieceVars, bids, sweep>>
    BY DEF ReadAuction
  <1>2. row \in Requests
    BY DEF Inv, TypeOK, Requests
  <1>3. row.closesAt = closesAt /\ row.at = now
    OBVIOUS
  <1> HIDE DEF row
  <1>4. TypeOK'
    BY <1>1, <1>2 DEF Inv, TypeOK, auctionVars, pieceVars
  <1>5. Loaded'
    BY <1>1, <1>3, SMT DEF Inv, TypeOK, Loaded, auctionVars
  <1>6. SweepLoaded'
    BY <1>1 DEF Inv, SweepLoaded
  <1>7. QED
    BY <1>1, <1>4, <1>5, <1>6, ElsewhereGood DEF auctionVars, Inv, TypeOK

\* The refresh sweep loads a hold.
LEMMA ReadDueHoldGood ==
  ASSUME Inv, NEW b \in Bids, ReadDueHold(b)
  PROVE  Good
  <1>1. /\ sweep' = HoldRow(b)
        /\ bids[b].refreshes < MaxRefresh
        /\ UNCHANGED <<now, auctionVars, pieceVars, bids, request>>
    BY DEF ReadDueHold
  <1>2. bids[b].intent \in Gens /\ bids[b].refreshes \in Gens
    BY DEF Inv, TypeOK, BidRows
  <1>3. TypeOK'
    BY <1>1, <1>2 DEF Inv, TypeOK, auctionVars, pieceVars, HoldRow, Sweeps
  <1>4. SweepLoaded'
    BY <1>1 DEF SweepLoaded, HoldRow
  <1>5. Loaded'
    BY <1>1 DEF Inv, Loaded, auctionVars
  <1>6. QED
    BY <1>1, <1>3, <1>4, <1>5, ElsewhereGood DEF auctionVars, Inv, TypeOK

\* extend_auction: far enough from the close that no open request's soft close
\* can be computed from the close time before the extension.
LEMMA ExtendGood ==
  ASSUME Inv, NEW k \in 1 .. MaxExtend, Extend(k)
  PROVE  Good
  <1>1. /\ status \in Running
        /\ closesAt - now > ExtendFloor
        /\ closesAt' = closesAt + k
        /\ extended' = TRUE
        /\ UNCHANGED <<now, status, winner, deadline, depth, pieceVars, bids, inFlight>>
    BY DEF Extend, Extended, Open
  <1>2. /\ closesAt \in Nat /\ now \in Nat /\ k \in Nat /\ k >= 1
        /\ SoftWindow \in Nat /\ RequestLife \in Nat /\ ExtendFloor \in Nat
        /\ SoftWindow + RequestLife <= ExtendFloor
    BY TimesAssumption DEF Inv, TypeOK
  <1>3. TypeOK'
    BY <1>1, <1>2 DEF Inv, TypeOK, pieceVars, inFlight
  <1>4. PastClose' /\ SweepLoaded'
    BY <1>1 DEF Inv, PastClose, SweepLoaded, inFlight
  <1>5. Loaded'
    <2> SUFFICES ASSUME NEW u \in Bidders, request[u].open
                 PROVE  /\ request[u].at <= now
                        /\ request[u].closesAt <= closesAt'
                        /\ request[u].closesAt > request[u].at + RequestLife + SoftWindow
                             \/ closesAt' <= now + SoftWindow
      BY <1>1 DEF Loaded, inFlight
    <2>1. request[u].at \in Nat /\ request[u].closesAt \in Nat
      BY DEF Inv, TypeOK, Requests
    <2>2. QED
      BY <1>1, <1>2, <2>1, SMT DEF Inv, Loaded
  <1>6. Sound(bids', status', winner')
    BY <1>1 DEF Inv
  <1>7. closesAt' >= closesAt /\ ActiveBids(bids') = ActiveBids(bids) /\ SamePlaces
    BY <1>1, <1>2 DEF SamePlaces
  <1>8. QED
    BY <1>3, <1>4, <1>5, <1>6, <1>7, SamePlacesKept DEF Good, Inv

\* The owner's edits of the piece.
LEMMA EditGood ==
  ASSUME Inv, EditTerms \/ \E s \in PieceStatuses : EditStatus(s)
  PROVE  Good
  <1>1. /\ UNCHANGED <<now, auctionVars, bids, inFlight>>
        /\ piece' \in PieceStatuses
        /\ listing' \in BOOLEAN
    BY DEF EditTerms, EditStatus, Inv, TypeOK
  <1>2. TypeOK'
    BY <1>1 DEF Inv, TypeOK, auctionVars, inFlight
  <1>3. Loaded' /\ SweepLoaded'
    BY <1>1 DEF Inv, Loaded, SweepLoaded, auctionVars, inFlight
  <1>4. QED
    BY <1>1, <1>2, <1>3, ElsewhereGood DEF auctionVars, Inv, TypeOK

\* Time passes.
LEMMA TickGood ==
  ASSUME Inv, Tick
  PROVE  Good
  <1>1. now' = now + 1 /\ UNCHANGED <<auctionVars, pieceVars, bids, inFlight>>
    BY DEF Tick
  <1>2. now \in Nat /\ closesAt \in Nat /\ SoftWindow \in Nat
    BY TimesAssumption DEF Inv, TypeOK
  <1>3. TypeOK'
    BY <1>1, <1>2 DEF Inv, TypeOK, auctionVars, pieceVars, inFlight
  <1>4. Loaded'
    <2>1. \A u \in Bidders : request[u].at \in Nat
      BY DEF Inv, TypeOK, Requests
    <2>2. QED
      BY <1>1, <1>2, <2>1 DEF Inv, Loaded, auctionVars, inFlight
  <1>5. SweepLoaded'
    BY <1>1 DEF Inv, SweepLoaded, inFlight
  <1>6. QED
    BY <1>1, <1>2, <1>3, <1>4, <1>5, ElsewhereGood DEF auctionVars

-----------------------------------------------------------------------------
(* Who bid more: nobody who is let go as a loser had offered as much as the winner. *)

\* A set of bid numbers that is not empty has a least member, and a greatest one.
LEMMA Least ==
  ASSUME NEW T, T \subseteq Nat, T # {}
  PROVE  \E x \in T : \A y \in T : x <= y
  <1>1. PICK x \in T : \A y \in T : ~ (<<y, x>> \in OpToRel(<, Nat))
    BY NatLessThanWellFounded, WFMin
  <1>2. \A y \in T : ~(y < x)
    BY <1>1 DEF OpToRel
  <1> QED
    BY <1>2

LEMMA Greatest ==
  ASSUME NEW T, T \subseteq Bids, T # {}
  PROVE  \E x \in T : \A y \in T : y <= x
  <1> DEFINE M == {m \in Nat : MaxBids - m \in T}
  <1>1. PICK y \in T : TRUE
    OBVIOUS
  <1>2. MaxBids \in Nat /\ \A x \in T : x \in Nat /\ MaxBids - x \in Nat /\ MaxBids - (MaxBids - x) = x
    BY BidsAssumption DEF Bids
  <1>3. M \subseteq Nat /\ MaxBids - y \in M
    BY <1>2
  <1>4. \A x \in T : MaxBids - x \in M
    BY <1>2
  <1>5. \A m \in M : m \in Nat /\ MaxBids - m \in T
    OBVIOUS
  <1> HIDE DEF M
  <1>6. PICK m \in M : \A x \in M : m <= x
    BY <1>3, Least
  <1>7. ASSUME NEW x \in T PROVE x <= MaxBids - m
    BY <1>2, <1>4, <1>5, <1>6
  <1> QED
    BY <1>5, <1>7

\* Bids in the running rise with their numbers, a winner who may still pay is the highest
\* of them, and whoever lost had bid less than the winner.
Ranked(B, s, w) ==
  /\ \A b \in Bids : B[b].status # "none" => B[b].amount \in Prices
  /\ \A b, c \in Bids : b < c /\ B[b].status = "none" => B[c].status = "none"
  /\ \A b, c \in ActiveBids(B) : b < c => B[b].amount < B[c].amount
  /\ s # "awaiting_winner" => \A b \in Bids : B[b].status # "lost"
  /\ s = "awaiting_payment" => \A b \in ActiveBids(B) : b <= w
  /\ s = "awaiting_winner" => \A b \in Bids : B[b].status = "lost" => B[b].amount < B[w].amount

Rank == Ranked(bids, status, winner)

\* The same bids, some of them out of the running.
Fewer(B) ==
  /\ B \in [Bids -> BidRows]
  /\ \A b \in Bids : /\ B[b].amount = bids[b].amount
                     /\ B[b].status = "none" <=> bids[b].status = "none"
  /\ ActiveBids(B) \subseteq ActiveBids(bids)

LEMMA FewerRanked ==
  ASSUME Ranked(bids, status, winner), NEW B, Fewer(B), NEW s, NEW w,
         s # "awaiting_winner" => \A b \in Bids : B[b].status # "lost",
         s = "awaiting_payment" => \A b \in ActiveBids(B) : b <= w,
         s = "awaiting_winner" => \A b \in Bids : B[b].status = "lost" => B[b].amount < B[w].amount
  PROVE  Ranked(B, s, w)
  BY DEF Ranked, Fewer, ActiveBids

\* Rows that differ in nothing a rank is about.
LEMMA AlikeRanked ==
  ASSUME Inv, Ranked(bids, status, winner), NEW B \in [Bids -> BidRows],
         \A b \in Bids : B[b].amount = bids[b].amount /\ B[b].status = bids[b].status
  PROVE  Ranked(B, status, winner)
  <1>1. Fewer(B) /\ ActiveBids(B) = ActiveBids(bids)
    BY DEF Fewer, ActiveBids
  <1>2. /\ status # "awaiting_winner" => \A b \in Bids : B[b].status # "lost"
        /\ status = "awaiting_payment" => \A b \in ActiveBids(B) : b <= winner
    BY <1>1 DEF Ranked
  <1>3. status = "awaiting_winner" =>
          \A b \in Bids : B[b].status = "lost" => B[b].amount < B[winner].amount
    <2>1. status = "awaiting_winner" => winner \in Bids
      BY DEF Inv, Sound, SoldTo
    <2> QED
      BY <2>1 DEF Ranked
  <1> QED
    BY <1>1, <1>2, <1>3, FewerRanked

LEMMA ConcludeRanked ==
  ASSUME Inv, Ranked(bids, status, winner),
         NEW ok, NEW after \in [Bids -> BidRows], NEW s, NEW w, NEW dl, NEW d, NEW p,
         Ranked(after, s, w), Conclude(ok, after, s, w, dl, d, p)
  PROVE  Ranked(bids', status', winner')
  <1> DEFINE kept == [b \in Bids |-> StripeOnly(bids[b], after[b])]
  <1>1. CASE bids' = after /\ status' = s /\ winner' = w
    BY <1>1
  <1>2. CASE bids' = kept /\ UNCHANGED <<status, winner, deadline, depth, piece>>
    <2>1. \A b \in Bids : /\ kept[b] \in BidRows
                          /\ kept[b].status = bids[b].status
                          /\ kept[b].amount = bids[b].amount
      BY StripeOnlyFacts DEF Inv, TypeOK
    <2>2. kept \in [Bids -> BidRows]
      BY <2>1
    <2> HIDE DEF kept
    <2> QED
      BY <1>2, <2>1, <2>2, AlikeRanked
  <1> QED
    BY <1>1, <1>2 DEF Conclude

\* Voiding what is left, with nobody to lose against.
LEMMA VoidedRanked ==
  ASSUME Ranked(bids, status, winner), NEW B, Fewer(B), HeldActive(B),
         \A b \in Bids : B[b].status # "lost",
         NEW s \in AuctionStatuses \ {"awaiting_winner", "awaiting_payment"}, NEW w
  PROVE  /\ VoidActive(B, "cancelled") \in [Bids -> BidRows]
         /\ Ranked(VoidActive(B, "cancelled"), s, w)
  <1> DEFINE after == VoidActive(B, "cancelled")
  <1>1. /\ after \in [Bids -> BidRows]
        /\ \A b \in Bids : /\ after[b].status # "active"
                           /\ after[b].amount = B[b].amount
                           /\ B[b].status # "active" => after[b] = B[b]
                           /\ B[b].status = "active" => after[b].status = "cancelled"
    BY VoidActiveFacts, "cancelled" \in BidStatuses \ {"active"} DEF Fewer, BidStatuses
  <1> HIDE DEF after
  <1>2. Fewer(after) /\ \A b \in Bids : after[b].status # "lost"
    BY <1>1 DEF Fewer, ActiveBids
  <1> QED
    BY <1>1, <1>2, FewerRanked DEF after

\* settle_on the highest of the bids left.
LEMMA SettleOnRanked ==
  ASSUME Inv, Ranked(bids, status, winner), NEW B, Fewer(B), HeldActive(B),
         \A x \in Bids : B[x].status # "lost",
         NEW b \in ActiveBids(B), \A x \in ActiveBids(B) : x <= b, NEW d, SettleOn(B, b, d)
  PROVE  Ranked(bids', status', winner')
  <1>1. b \in Bids /\ B \in [Bids -> BidRows] /\ B[b].status = "active"
    BY DEF ActiveBids, Fewer
  <1>2. CASE Settle(B, b, d)
    <2> DEFINE C == [B EXCEPT ![b] = Captured(B[b])]
               after == VoidActive(C, "lost")
    <2>1. /\ Captured(B[b]) \in BidRows /\ Captured(B[b]).hold = "captured"
          /\ Captured(B[b]).status = "won"
          /\ Captured(B[b]).amount = B[b].amount
      BY <1>1, CapturedFacts
    <2>2. C \in [Bids -> BidRows] /\ C[b] = Captured(B[b]) /\ \A x \in Bids \ {b} : C[x] = B[x]
      BY <1>1, <2>1
    <2> HIDE DEF C
    <2>3. HeldActive(C)
      BY <2>1, <2>2 DEF HeldActive
    <2>4. /\ after \in [Bids -> BidRows]
          /\ \A x \in Bids : /\ after[x].status # "active"
                             /\ after[x].amount = C[x].amount
                             /\ C[x].status # "active" => after[x] = C[x]
                             /\ C[x].status = "active" => after[x].status = "lost"
      BY <2>2, <2>3, VoidActiveFacts, "lost" \in BidStatuses \ {"active"} DEF BidStatuses
    <2>5. Conclude(PieceMovable, after, "awaiting_winner", b, 0, d, "auction_won")
      BY <1>2 DEF Settle, C
    <2> HIDE DEF after
    <2>6. Fewer(after)
      BY <1>1, <2>1, <2>2, <2>4 DEF Fewer, ActiveBids
    <2>7. ASSUME NEW x \in Bids, after[x].status = "lost" PROVE after[x].amount < after[b].amount
      <3>1. x # b /\ x \in ActiveBids(B)
        BY <1>1, <2>1, <2>2, <2>4, <2>7 DEF ActiveBids
      <3>2. x < b
        BY <1>1, <3>1 DEF Bids
      <3>3. bids[x].amount < bids[b].amount
        BY <3>1, <3>2 DEF Ranked, Fewer
      <3> QED
        BY <1>1, <2>6, <3>3 DEF Fewer
    <2>8. Ranked(after, "awaiting_winner", b)
      BY <2>6, <2>7, FewerRanked
    <2> QED
      BY <2>4, <2>5, <2>8, ConcludeRanked
  <1>3. CASE Park(B, b, d)
    <2> DEFINE after == [B EXCEPT ![b] = Declined(B[b])]
    <2>1. /\ Declined(B[b]) \in BidRows /\ Declined(B[b]).status = B[b].status
          /\ Declined(B[b]).amount = B[b].amount
      BY <1>1, DeclinedFacts
    <2>2. /\ after \in [Bids -> BidRows]
          /\ after[b] = Declined(B[b]) /\ \A x \in Bids \ {b} : after[x] = B[x]
      BY <1>1, <2>1
    <2>3. Conclude(PieceMovable, after, "awaiting_payment", b, now + RetryWindow, d, "auction_won")
      BY <1>3 DEF Park
    <2> HIDE DEF after
    <2>4. ActiveBids(after) = ActiveBids(B) /\ \A x \in Bids : after[x].status # "lost"
      BY <2>1, <2>2 DEF ActiveBids
    <2>5. Fewer(after)
      BY <2>1, <2>2, <2>4 DEF Fewer
    <2>6. Ranked(after, "awaiting_payment", b)
      BY <2>4, <2>5, FewerRanked
    <2> QED
      BY <2>2, <2>3, <2>6, ConcludeRanked
  <1> QED
    BY <1>2, <1>3 DEF SettleOn

\* The highest of the bids left is the latest of them.
LEMMA HighestIsLatest ==
  ASSUME TypeOK, Ranked(bids, status, winner), NEW B, Fewer(B), NEW b \in Highest(B)
  PROVE  b \in ActiveBids(B) /\ \A x \in ActiveBids(B) : x <= b
  <1>1. b \in ActiveBids(B)
    BY DEF Highest
  <1>2. ASSUME NEW x \in ActiveBids(B) PROVE x <= b
    <2>1. x \in Bids /\ b \in Bids /\ x \in ActiveBids(bids) /\ b \in ActiveBids(bids)
      BY <1>1 DEF Fewer, ActiveBids
    <2>2. B[x].amount <= B[b].amount
      <3>1. B[x].amount \in Nat /\ B[b].amount \in Nat
        BY <2>1 DEF Fewer, BidRows
      <3> QED
        BY <3>1 DEF Highest
    <2>3. b < x => B[b].amount < B[x].amount
      BY <2>1 DEF Ranked, Fewer
    <2>4. B[x].amount \in Nat /\ B[b].amount \in Nat
      BY <2>1 DEF Fewer, BidRows
    <2> QED
      BY <2>1, <2>2, <2>3, <2>4 DEF Bids
  <1> QED
    BY <1>1, <1>2

\* A bid that clears the minimum tops every bid in the running.
LEMMA ClearsAll ==
  ASSUME TypeOK, Ranked(bids, status, winner), NEW a \in Prices, ClearsMinimum(a)
  PROVE  \A b \in ActiveBids(bids) : bids[b].amount < a
  <1> SUFFICES ASSUME NEW b \in ActiveBids(bids) PROVE bids[b].amount < a
    OBVIOUS
  <1>1. PICK g \in ActiveBids(bids) : \A x \in ActiveBids(bids) : x <= g
    BY Greatest DEF ActiveBids
  <1>2. \A x \in ActiveBids(bids) : x \in Bids /\ bids[x].amount \in Prices /\ bids[x].amount \in Nat
    BY DEF TypeOK, Ranked, ActiveBids, BidRows
  <1>3. \A x \in ActiveBids(bids) : x = g \/ bids[x].amount < bids[g].amount
    BY <1>1, <1>2 DEF Ranked, Bids
  <1>4. g \in Highest(bids)
    BY <1>1, <1>2, <1>3 DEF Highest
  <1>5. a >= bids[g].amount + Increment(bids[g].amount)
    BY <1>4 DEF ClearsMinimum
  <1>6. Increment(bids[g].amount) \in Nat \ {0}
    BY <1>2, PricesAssumption
  <1>7. a \in Nat
    BY PricesAssumption
  <1> QED
    BY <1>2, <1>3, <1>5, <1>6, <1>7

\* Every bid placed tops the others, and nothing else brings a bid into the running.
LEMMA PlaceBidRanked ==
  ASSUME Inv, Ranked(bids, status, winner), NEW u \in Bidders, NEW a \in Prices, PlaceBid(u, a)
  PROVE  Ranked(bids', status', winner')
  <1>1. AcceptsBids(LoadedRow(u)) /\ ApplySoftClose(LoadedRow(u)) /\ ClearsMinimum(a)
    BY DEF PlaceBid
  <1>2. status \in Running \cup {"cancelled"} /\ status' \in Running \cup {"cancelled"}
    BY <1>1, LoadedRowFacts, SoftCloseFacts
  <1>3. PICK n \in Bids :
          /\ NextSlot(n)
          /\ bids' = [x \in Bids |-> IF x = n THEN PlacedBid(u, a)
                                     ELSE IF IsPreviousHold(x, u) THEN Void(bids[x], "outbid")
                                     ELSE bids[x]]
    BY DEF PlaceBid
  <1>4. bids' [n] = PlacedBid(u, a) /\ bids'[n].status = "active" /\ bids'[n].amount = a
    BY <1>3, PlacedBidFacts
  <1>5. \A x \in Bids \ {n} : /\ bids'[x].amount = bids[x].amount
                              /\ bids'[x] = bids[x] \/ bids'[x].status = "outbid"
    <2>1. \A x \in Bids : /\ Void(bids[x], "outbid").amount = bids[x].amount
                          /\ Void(bids[x], "outbid").status = "outbid"
      BY VoidFacts, "outbid" \in BidStatuses DEF Inv, TypeOK, BidStatuses
    <2> QED
      BY <1>3, <2>1
  <1>6. bids[n].status = "none" /\ \A x \in Bids : x < n => bids[x].status # "none"
    BY <1>3 DEF NextSlot
  <1>7. \A x \in Bids : n < x => bids[x].status = "none"
    BY <1>6 DEF Ranked
  <1>8. \A x \in Bids \ {n} : IsPreviousHold(x, u) => bids[x].status = "active"
    BY DEF IsPreviousHold, LiveHolds, Inv, Sound, HeldActive
  <1>9. \A x \in Bids \ {n} :
          bids'[x] = bids[x] \/ (bids[x].status = "active" /\ bids'[x].status = "outbid")
    BY <1>3, <1>5, <1>8
  <1>10. \A x \in Bids \ {n} : x \in ActiveBids(bids') => x \in ActiveBids(bids) /\ x < n
    BY <1>7, <1>9 DEF ActiveBids, Bids
  <1>11. \A x \in ActiveBids(bids) : bids[x].amount < a
    BY <1>1, ClearsAll DEF Inv
  <1>12. \A b, c \in ActiveBids(bids') : b < c => bids'[b].amount < bids'[c].amount
    <2> SUFFICES ASSUME NEW b \in ActiveBids(bids'), NEW c \in ActiveBids(bids'), b < c
                 PROVE  bids'[b].amount < bids'[c].amount
      OBVIOUS
    <2>1. b \in Bids /\ c \in Bids
      BY DEF ActiveBids
    <2>2. b # n
      BY <1>10, <2>1 DEF Bids
    <2>3. CASE c = n
      BY <1>4, <1>5, <1>10, <1>11, <2>1, <2>2, <2>3
    <2>4. CASE c # n
      BY <1>5, <1>10, <2>1, <2>2, <2>4 DEF Ranked
    <2> QED
      BY <2>3, <2>4
  <1>13. \A b \in Bids : bids'[b].status # "none" => bids'[b].amount \in Prices
    BY <1>4, <1>5, <1>9 DEF Ranked
  <1>14. \A b, c \in Bids : b < c /\ bids'[b].status = "none" => bids'[c].status = "none"
    <2> SUFFICES ASSUME NEW b \in Bids, NEW c \in Bids, b < c, bids'[b].status = "none"
                 PROVE  bids'[c].status = "none"
      OBVIOUS
    <2>1. b # n /\ bids'[b] = bids[b] /\ bids[b].status = "none"
      BY <1>4, <1>9
    <2>2. bids[c].status = "none" /\ ~(b < n)
      BY <1>6, <2>1 DEF Ranked
    <2>3. c # n
      BY <2>2
    <2> QED
      BY <1>9, <2>2, <2>3
  <1>15. \A b \in Bids : bids'[b].status # "lost"
    BY <1>2, <1>4, <1>9 DEF Ranked, Running
  <1> QED
    BY <1>2, <1>12, <1>13, <1>14, <1>15 DEF Ranked, Running

\* A bid that died uncommitted is nowhere in the running.
LEMMA PlaceBidCrashesRanked ==
  ASSUME Inv, Ranked(bids, status, winner), NEW u \in Bidders, NEW a \in Prices, PlaceBidCrashes(u, a)
  PROVE  Ranked(bids', status', winner')
  <1> DEFINE dead == [PlacedBid(u, a) EXCEPT !.status = "rolled_back", !.hold = "none"]
  <1>1. PICK n \in Bids :
          /\ NextSlot(n)
          /\ bids' = [x \in Bids |->
               IF x = n THEN dead
               ELSE IF IsPreviousHold(x, u) THEN StripeOnly(bids[x], Void(bids[x], "outbid"))
               ELSE bids[x]]
    BY DEF PlaceBidCrashes
  <1>2. UNCHANGED <<status, winner>>
    BY DEF PlaceBidCrashes, auctionVars
  <1>3. dead.status = "rolled_back" /\ dead.amount = a
    BY PlacedBidFacts, SMT DEF BidRows
  <1> HIDE DEF dead
  <1>4. \A x \in Bids \ {n} : bids'[x].status = bids[x].status /\ bids'[x].amount = bids[x].amount
    <2>1. \A x \in Bids : Void(bids[x], "outbid") \in BidRows /\ bids[x] \in BidRows
      BY VoidFacts, "outbid" \in BidStatuses DEF Inv, TypeOK, BidStatuses
    <2> QED
      BY <1>1, <2>1, StripeOnlyFacts
  <1>5. /\ bids[n].status = "none" /\ \A x \in Bids : x < n => bids[x].status # "none"
        /\ bids'[n].status = "rolled_back" /\ bids'[n].amount = a
    BY <1>1, <1>3 DEF NextSlot
  <1>6. ActiveBids(bids') = ActiveBids(bids) /\ n \notin ActiveBids(bids)
    BY <1>4, <1>5 DEF ActiveBids
  <1>7. \A b, c \in ActiveBids(bids') : b < c => bids'[b].amount < bids'[c].amount
    BY <1>4, <1>6 DEF Ranked, ActiveBids
  <1>8. \A b \in Bids : bids'[b].status # "none" => bids'[b].amount \in Prices
    BY <1>4, <1>5 DEF Ranked
  <1>9. \A b, c \in Bids : b < c /\ bids'[b].status = "none" => bids'[c].status = "none"
    <2> SUFFICES ASSUME NEW b \in Bids, NEW c \in Bids, b < c, bids'[b].status = "none"
                 PROVE  bids'[c].status = "none"
      OBVIOUS
    <2>1. b # n /\ bids[b].status = "none"
      BY <1>4, <1>5
    <2>2. bids[c].status = "none" /\ c # n
      BY <1>5, <2>1 DEF Ranked
    <2> QED
      BY <1>4, <2>2
  <1>10. status = "awaiting_payment" => \A b \in ActiveBids(bids') : b <= winner
    BY <1>6 DEF Ranked
  <1>11. status = "awaiting_winner" =>
           \A b \in Bids : bids'[b].status = "lost" => bids'[b].amount < bids'[winner].amount
    <2>1. status = "awaiting_winner" => winner \in Bids /\ winner # n
      BY <1>5 DEF Inv, Sound, SoldTo
    <2> QED
      BY <1>4, <1>5, <2>1 DEF Ranked
  <1>12. status # "awaiting_winner" => \A b \in Bids : bids'[b].status # "lost"
    BY <1>4, <1>5 DEF Ranked
  <1> QED
    BY <1>2, <1>7, <1>8, <1>9, <1>10, <1>11, <1>12 DEF Ranked

\* Closing and settling, from whatever bids there are.
LEMMA CloseOneRanked ==
  ASSUME Inv, Ranked(bids, status, winner), CloseOne
  PROVE  Ranked(bids', status', winner')
  <1>1. status \in Running /\ status # "awaiting_winner"
    BY DEF CloseOne, DueToClose, Open, Running
  <1>2. TypeOK /\ Fewer(bids) /\ HeldActive(bids) /\ \A x \in Bids : bids[x].status # "lost"
    BY <1>1 DEF Inv, TypeOK, Sound, Fewer, Ranked
  <1>3. ASSUME NEW s \in {"closed_no_bids", "needs_seller_action"}, CloseWithoutSale(s)
        PROVE  Ranked(bids', status', winner')
    <2>1. s \in AuctionStatuses \ {"awaiting_winner", "awaiting_payment"}
      BY <1>3 DEF AuctionStatuses
    <2>2. /\ VoidActive(bids, "cancelled") \in [Bids -> BidRows]
          /\ Ranked(VoidActive(bids, "cancelled"), s, winner)
      BY <1>2, <2>1, VoidedRanked
    <2> QED
      BY <1>2, <1>3, <2>2, ConcludeRanked DEF CloseWithoutSale
  <1>4. ASSUME NEW b \in Highest(bids), SettleOn(bids, b, depth)
        PROVE  Ranked(bids', status', winner')
    <2>1. b \in ActiveBids(bids) /\ \A x \in ActiveBids(bids) : x <= b
      BY <1>2, HighestIsLatest
    <2> QED
      BY <1>2, <1>4, <2>1, SettleOnRanked
  <1> QED
    BY <1>3, <1>4 DEF CloseOne

LEMMA ExpireOneRanked ==
  ASSUME Inv, Ranked(bids, status, winner), ExpireOne
  PROVE  Ranked(bids', status', winner')
  <1> DEFINE B == Forfeit(bids, winner)
             d == depth + 1
  <1>1. status = "awaiting_payment" /\ Cascade(B, d)
    BY DEF ExpireOne
  <1>2. /\ TypeOK /\ bids \in [Bids -> BidRows] /\ HeldActive(bids)
        /\ winner \in Bids /\ bids[winner].status = "active"
    BY <1>1 DEF Inv, TypeOK, Sound, OfferedTo
  <1>3. /\ B \in [Bids -> BidRows]
        /\ B[winner].hold # "held" /\ B[winner].status = "forfeited"
        /\ B[winner].amount = bids[winner].amount
        /\ \A x \in Bids \ {winner} : B[x] = bids[x]
    BY <1>2, ForfeitRows
  <1> HIDE DEF B, d
  <1>4. Fewer(B) /\ HeldActive(B)
    BY <1>2, <1>3 DEF Fewer, HeldActive, ActiveBids
  <1>5. \A x \in Bids : B[x].status # "lost"
    BY <1>1, <1>3 DEF Ranked
  <1>6. ASSUME GiveUp(B, d) PROVE Ranked(bids', status', winner')
    <2>1. "needs_seller_action" \in AuctionStatuses \ {"awaiting_winner", "awaiting_payment"}
      BY DEF AuctionStatuses
    <2>2. /\ VoidActive(B, "cancelled") \in [Bids -> BidRows]
          /\ Ranked(VoidActive(B, "cancelled"), "needs_seller_action", NoBid)
      BY <1>4, <1>5, <2>1, VoidedRanked
    <2>3. Conclude(TRUE, VoidActive(B, "cancelled"), "needs_seller_action", NoBid, 0, d,
                   IF piece = "auction_won" THEN "delisted" ELSE piece)
      BY <1>6 DEF GiveUp
    <2> QED
      BY <1>2, <2>2, <2>3, ConcludeRanked
  <1>7. ASSUME NEW b \in Highest(B), SettleOn(B, b, d) PROVE Ranked(bids', status', winner')
    <2>1. b \in ActiveBids(B) /\ \A x \in ActiveBids(B) : x <= b
      BY <1>2, <1>4, HighestIsLatest
    <2> QED
      BY <1>2, <1>4, <1>5, <1>7, <2>1, SettleOnRanked
  <1> QED
    BY <1>1, <1>6, <1>7 DEF Cascade

LEMMA RetryPaymentRanked ==
  ASSUME Inv, Ranked(bids, status, winner), RetryPayment
  PROVE  Ranked(bids', status', winner')
  <1> DEFINE B == [bids EXCEPT ![winner] = Renewed]
  <1>1. status = "awaiting_payment"
    BY DEF RetryPayment
  <1>2. /\ TypeOK /\ bids \in [Bids -> BidRows] /\ HeldActive(bids)
        /\ \A x \in Bids : bids[x].status # "lost"
    BY <1>1 DEF Inv, TypeOK, Sound, Ranked
  <1>3. CASE SettleOn(B, winner, depth)
    <2>1. /\ winner \in Bids /\ B \in [Bids -> BidRows] /\ B[winner] = Renewed
          /\ Renewed.status = "active" /\ bids[winner].status = "active"
          /\ Renewed.amount = bids[winner].amount
          /\ \A x \in Bids \ {winner} : B[x] = bids[x]
      BY <1>2, RenewedFacts
    <2> HIDE DEF B
    <2>2. ActiveBids(B) = ActiveBids(bids) /\ winner \in ActiveBids(B)
      BY <2>1 DEF ActiveBids
    <2>3. Fewer(B) /\ HeldActive(B) /\ \A x \in Bids : B[x].status # "lost"
      BY <1>2, <2>1, <2>2 DEF Fewer, HeldActive
    <2>4. \A x \in ActiveBids(B) : x <= winner
      BY <1>1, <2>2 DEF Ranked
    <2> QED
      BY <1>2, <1>3, <2>2, <2>3, <2>4, SettleOnRanked
  <1>4. CASE /\ bids' = [bids EXCEPT ![winner].keys[bids[winner].refreshes + 1] = "refused"]
             /\ UNCHANGED <<status, winner, deadline, depth, piece>>
    <2>1. /\ bids' \in [Bids -> BidRows]
          /\ \A b \in Bids : bids'[b].amount = bids[b].amount /\ bids'[b].status = bids[b].status
      BY <1>4, RefusedRows
    <2> QED
      BY <1>4, <2>1, AlikeRanked
  <1> QED
    BY <1>3, <1>4 DEF RetryPayment, Renewed

LEMMA CancelAuctionRanked ==
  ASSUME Inv, Ranked(bids, status, winner), CancelAuction
  PROVE  Ranked(bids', status', winner')
  <1>1. status # "awaiting_winner"
    BY DEF CancelAuction, Open, Running
  <1>2. TypeOK /\ Fewer(bids) /\ HeldActive(bids) /\ \A x \in Bids : bids[x].status # "lost"
    BY <1>1 DEF Inv, TypeOK, Sound, Fewer, Ranked
  <1>3. "cancelled" \in AuctionStatuses \ {"awaiting_winner", "awaiting_payment"}
    BY DEF AuctionStatuses
  <1>4. /\ VoidActive(bids, "cancelled") \in [Bids -> BidRows]
        /\ Ranked(VoidActive(bids, "cancelled"), "cancelled", winner)
    BY <1>2, <1>3, VoidedRanked
  <1>5. Conclude(TRUE, VoidActive(bids, "cancelled"), "cancelled", winner, deadline, depth,
                 IF piece = "live" THEN "delisted" ELSE piece)
    BY DEF CancelAuction
  <1> QED
    BY <1>2, <1>4, <1>5, ConcludeRanked

LEMMA StepRanked ==
  Inv /\ Ranked(bids, status, winner) /\ [Next]_vars => Ranked(bids', status', winner')
  <1> SUFFICES ASSUME Inv, Ranked(bids, status, winner), [Next]_vars
               PROVE  Ranked(bids', status', winner')
    OBVIOUS
  <1>1. CASE UNCHANGED <<bids, status, winner>>
    BY <1>1
  <1>2. CASE \E u \in Bidders, a \in Prices : PlaceBid(u, a)
    BY <1>2, PlaceBidRanked
  <1>3. CASE \E u \in Bidders, a \in Prices : PlaceBidCrashes(u, a)
    BY <1>3, PlaceBidCrashesRanked
  <1>4. CASE CloseOne
    BY <1>4, CloseOneRanked
  <1>5. CASE ExpireOne
    BY <1>5, ExpireOneRanked
  <1>6. CASE RetryPayment
    BY <1>6, RetryPaymentRanked
  <1>7. CASE RefreshOne
    <2>1. UNCHANGED <<status, winner>>
      BY <1>7 DEF RefreshOne, auctionVars
    <2>2. /\ bids' \in [Bids -> BidRows]
          /\ \A b \in Bids : bids'[b].amount = bids[b].amount /\ bids'[b].status = bids[b].status
      BY <1>7, RefreshOneRow, RefreshRows
    <2> QED
      BY <2>1, <2>2, AlikeRanked
  <1>8. CASE CancelAuction
    BY <1>8, CancelAuctionRanked
  <1>9. \/ Tick
        \/ \E u \in Bidders : ReadAuction(u)
        \/ \E b \in Bids : ReadDueHold(b)
        \/ \E k \in 1 .. MaxExtend : Extend(k)
        \/ \E s \in PieceStatuses : EditStatus(s)
        \/ EditTerms
        \/ UNCHANGED vars
        => UNCHANGED <<bids, status, winner>>
    BY DEF Tick, ReadAuction, ReadDueHold, Extend, EditStatus, EditTerms, vars, auctionVars
  <1> QED
    BY <1>1, <1>2, <1>3, <1>4, <1>5, <1>6, <1>7, <1>8, <1>9 DEF Next

LEMMA InitRanked == Init => Ranked(bids, status, winner)
  <1>1. NoBidRow.status = "none"
    BY Zenon DEF NoBidRow
  <1> QED
    BY <1>1 DEF Init, Ranked, ActiveBids, Bids

-----------------------------------------------------------------------------
(* Auction implements Sale, unless a bid that overlaps a cancellation may reopen it. *)

\* While bidding is open nobody has been offered the work, and nobody cancels who may not.
Unsettled ==
  /\ Open => winner = NoBid
  /\ "cancel" \notin Hazards => status # "cancelled"

Forfeits(B) == {b \in Bids : B[b].status = "forfeited"}

\* Who is passed over when the work goes to b next.
PassedOn(b) ==
  IF status = "awaiting_payment" /\ b # winner THEN Forfeits(bids) \cup {winner}
  ELSE Forfeits(bids)

\* An operation on the bids that offers the work to nobody.
LEMMA SamePromise ==
  ASSUME UNCHANGED winner, status' = status \/ (Open /\ status' \in Running),
         \A b \in Bids : /\ bids'[b].status = "forfeited" <=> bids[b].status = "forfeited"
                         /\ bids'[b].booked = bids[b].booked
  PROVE  UNCHANGED Promise!saleVars
  <1>1. Booked' = Booked /\ Forfeits(bids') = Forfeits(bids)
    BY DEF Booked, Forfeits
  <1>2. Open' = Open
    BY DEF Open
  <1> QED
    BY <1>1, <1>2 DEF Promise!saleVars, Open, Running, Forfeits

LEMMA OfferedPromise ==
  ASSUME NEW b \in Bids, Open \/ status = "awaiting_payment", Unsettled, b \notin Forfeits(bids),
         status' = "awaiting_payment", winner' = b, Forfeits(bids') = PassedOn(b), Booked' = Booked
  PROVE  Promise!SaleNext
  BY Zenon DEF Promise!SaleNext, Promise!Offer, Promise!PassedOver, Open, Running, Forfeits, PassedOn

LEMMA SoldPromise ==
  ASSUME NEW b \in Bids, Open \/ status = "awaiting_payment", Unsettled, b \notin Forfeits(bids),
         status' = "awaiting_winner", winner' = b, Forfeits(bids') = PassedOn(b),
         Booked' = Booked \cup {b}
  PROVE  Promise!SaleNext
  BY DEF Promise!SaleNext, Promise!Sell, Promise!PassedOver, Open, Running, Forfeits, PassedOn

LEMMA NoSalePromise ==
  ASSUME Open \/ status = "awaiting_payment", Unsettled,
         status' \in {"needs_seller_action", "closed_no_bids"}, winner' = NoBid,
         Forfeits(bids') = PassedOn(NoBid), Booked' = Booked, winner # NoBid \/ Open
  PROVE  Promise!SaleNext
  BY DEF Promise!SaleNext, Promise!NoSale, Promise!PassedOver, Open, Running, Forfeits, PassedOn

KeepsStep == (Promise!SaleNext \/ UNCHANGED Promise!saleVars) /\ Unsettled'

\* A locked section commits, or nothing is sold, offered or passed over.
LEMMA ConcludeEither ==
  ASSUME Inv, Unsettled, NEW ok, NEW after \in [Bids -> BidRows], NEW s, NEW w, NEW dl, NEW d, NEW p,
         Conclude(ok, after, s, w, dl, d, p)
  PROVE  (bids' = after /\ status' = s /\ winner' = w) \/ KeepsStep
  <1> DEFINE kept == [b \in Bids |-> StripeOnly(bids[b], after[b])]
  <1>1. CASE bids' = kept /\ UNCHANGED <<status, winner>>
    <2>1. \A b \in Bids : kept[b].status = bids[b].status /\ kept[b].booked = bids[b].booked
      BY StripeOnlyFacts DEF Inv, TypeOK
    <2> HIDE DEF kept
    <2>2. UNCHANGED Promise!saleVars
      BY <1>1, <2>1, SamePromise
    <2> QED
      BY <1>1, <2>2 DEF KeepsStep, Unsettled, Open
  <1> QED
    BY <1>1 DEF Conclude

\* settle_on sells to b or offers the work to b.
LEMMA SettleOnPromise ==
  ASSUME Inv, Unsettled, Open \/ status = "awaiting_payment",
         NEW B \in [Bids -> BidRows], HeldActive(B), \A x \in Bids : B[x].booked = bids[x].booked,
         NEW b \in ActiveBids(B), b \notin Forfeits(bids), Forfeits(B) = PassedOn(b),
         NEW d, SettleOn(B, b, d)
  PROVE  KeepsStep
  <1>1. b \in Bids /\ B[b].status = "active"
    BY DEF ActiveBids
  <1>2. CASE Settle(B, b, d)
    <2> DEFINE C == [B EXCEPT ![b] = Captured(B[b])]
               after == VoidActive(C, "lost")
    <2>1. /\ Captured(B[b]) \in BidRows /\ Captured(B[b]).hold = "captured"
          /\ Captured(B[b]).status = "won" /\ Captured(B[b]).booked
      BY <1>1, CapturedFacts
    <2>2. C \in [Bids -> BidRows] /\ C[b] = Captured(B[b]) /\ \A x \in Bids \ {b} : C[x] = B[x]
      BY <1>1, <2>1
    <2> HIDE DEF C
    <2>3. HeldActive(C)
      BY <2>1, <2>2 DEF HeldActive
    <2>4. /\ after \in [Bids -> BidRows]
          /\ \A x \in Bids : /\ after[x].booked = C[x].booked
                             /\ C[x].status # "active" => after[x] = C[x]
                             /\ C[x].status = "active" => after[x].status = "lost"
      BY <2>2, <2>3, VoidActiveFacts, "lost" \in BidStatuses \ {"active"} DEF BidStatuses
    <2>5. Conclude(PieceMovable, after, "awaiting_winner", b, 0, d, "auction_won")
      BY <1>2 DEF Settle, C
    <2> HIDE DEF after
    <2>6. ASSUME bids' = after, status' = "awaiting_winner", winner' = b PROVE KeepsStep
      <3>1. Forfeits(bids') = Forfeits(B)
        BY <1>1, <2>1, <2>2, <2>4, <2>6 DEF Forfeits
      <3>2. Booked' = Booked \cup {b}
        BY <1>1, <2>1, <2>2, <2>4, <2>6 DEF Booked
      <3>3. Promise!SaleNext
        BY <1>1, <2>6, <3>1, <3>2, SoldPromise
      <3> QED
        BY <2>6, <3>3 DEF KeepsStep, Unsettled, Open, Running
    <2> QED
      BY <2>4, <2>5, <2>6, ConcludeEither
  <1>3. CASE Park(B, b, d)
    <2> DEFINE after == [B EXCEPT ![b] = Declined(B[b])]
    <2>1. /\ Declined(B[b]) \in BidRows /\ Declined(B[b]).status = B[b].status
          /\ Declined(B[b]).booked = B[b].booked
      BY <1>1, DeclinedFacts
    <2>2. /\ after \in [Bids -> BidRows]
          /\ after[b] = Declined(B[b]) /\ \A x \in Bids \ {b} : after[x] = B[x]
      BY <1>1, <2>1
    <2>3. Conclude(PieceMovable, after, "awaiting_payment", b, now + RetryWindow, d, "auction_won")
      BY <1>3 DEF Park
    <2> HIDE DEF after
    <2>4. ASSUME bids' = after, status' = "awaiting_payment", winner' = b PROVE KeepsStep
      <3>1. Forfeits(bids') = Forfeits(B) /\ Booked' = Booked
        BY <1>1, <2>1, <2>2, <2>4 DEF Forfeits, Booked
      <3>2. Promise!SaleNext
        BY <1>1, <2>4, <3>1, OfferedPromise
      <3> QED
        BY <2>4, <3>2 DEF KeepsStep, Unsettled, Open, Running
    <2> QED
      BY <2>2, <2>3, <2>4, ConcludeEither
  <1> QED
    BY <1>2, <1>3 DEF SettleOn

\* Everybody still in the running is let go, and the work is not sold.
LEMMA VoidedPromise ==
  ASSUME Inv, Unsettled, NEW ok, NEW B \in [Bids -> BidRows], HeldActive(B),
         \A x \in Bids : B[x].booked = bids[x].booked,
         NEW s, NEW w, NEW dl, NEW d, NEW p,
         Conclude(ok, VoidActive(B, "cancelled"), s, w, dl, d, p)
  PROVE  \/ /\ status' = s /\ winner' = w
            /\ Forfeits(bids') = Forfeits(B) /\ Booked' = Booked
         \/ KeepsStep
  <1> DEFINE after == VoidActive(B, "cancelled")
  <1>1. /\ after \in [Bids -> BidRows]
        /\ \A x \in Bids : /\ after[x].booked = B[x].booked
                           /\ B[x].status # "active" => after[x] = B[x]
                           /\ B[x].status = "active" => after[x].status = "cancelled"
    BY VoidActiveFacts, "cancelled" \in BidStatuses \ {"active"} DEF BidStatuses
  <1> HIDE DEF after
  <1>2. Conclude(ok, after, s, w, dl, d, p)
    BY DEF after
  <1>3. bids' = after => Forfeits(bids') = Forfeits(B) /\ Booked' = Booked
    BY <1>1 DEF Forfeits, Booked
  <1> QED
    BY <1>1, <1>2, <1>3, ConcludeEither

LEMMA CloseOnePromise ==
  ASSUME Inv, Unsettled, CloseOne
  PROVE  KeepsStep
  <1>1. Open /\ status # "awaiting_winner" /\ status # "awaiting_payment" /\ winner = NoBid
    BY DEF CloseOne, DueToClose, Open, Running, Unsettled
  <1>2. bids \in [Bids -> BidRows] /\ HeldActive(bids)
    BY DEF Inv, TypeOK, Sound
  <1>3. ASSUME NEW s \in {"closed_no_bids", "needs_seller_action"}, CloseWithoutSale(s)
        PROVE  KeepsStep
    <2>1. \/ /\ status' = s /\ winner' = winner
             /\ Forfeits(bids') = Forfeits(bids) /\ Booked' = Booked
          \/ KeepsStep
      BY <1>2, <1>3, VoidedPromise DEF CloseWithoutSale
    <2>2. ASSUME status' = s, winner' = winner, Forfeits(bids') = Forfeits(bids), Booked' = Booked
          PROVE  KeepsStep
      <3>1. Promise!SaleNext
        BY <1>1, <1>3, <2>2, NoSalePromise DEF PassedOn
      <3> QED
        BY <1>3, <2>2, <3>1 DEF KeepsStep, Unsettled, Open, Running
    <2> QED
      BY <2>1, <2>2
  <1>4. ASSUME NEW b \in Highest(bids), SettleOn(bids, b, depth)
        PROVE  KeepsStep
    <2>1. b \in ActiveBids(bids) /\ b \notin Forfeits(bids)
      BY DEF Highest, ActiveBids, Forfeits
    <2>2. Forfeits(bids) = PassedOn(b)
      BY <1>1 DEF PassedOn
    <2> QED
      BY <1>1, <1>2, <1>4, <2>1, <2>2, SettleOnPromise
  <1> QED
    BY <1>3, <1>4 DEF CloseOne

LEMMA ExpireOnePromise ==
  ASSUME Inv, Unsettled, ExpireOne
  PROVE  KeepsStep
  <1> DEFINE B == Forfeit(bids, winner)
             d == depth + 1
  <1>1. status = "awaiting_payment" /\ Cascade(B, d)
    BY DEF ExpireOne
  <1>2. bids \in [Bids -> BidRows] /\ winner \in Bids /\ winner # NoBid /\ HeldActive(bids)
    BY <1>1 DEF Inv, TypeOK, Sound, OfferedTo, Bids, NoBid
  <1>3. /\ B \in [Bids -> BidRows]
        /\ B[winner].hold # "held" /\ B[winner].status = "forfeited"
        /\ B[winner].booked = bids[winner].booked
        /\ \A x \in Bids \ {winner} : B[x] = bids[x]
    BY <1>2, ForfeitRows
  <1> HIDE DEF B, d
  <1>4. HeldActive(B) /\ \A x \in Bids : B[x].booked = bids[x].booked
    BY <1>2, <1>3 DEF HeldActive
  <1>5. Forfeits(B) = Forfeits(bids) \cup {winner}
    BY <1>2, <1>3 DEF Forfeits
  <1>6. ASSUME GiveUp(B, d) PROVE KeepsStep
    <2>1. \/ /\ status' = "needs_seller_action" /\ winner' = NoBid
             /\ Forfeits(bids') = Forfeits(B) /\ Booked' = Booked
          \/ KeepsStep
      BY <1>3, <1>4, <1>6, VoidedPromise DEF GiveUp
    <2>2. ASSUME status' = "needs_seller_action", winner' = NoBid,
                 Forfeits(bids') = Forfeits(B), Booked' = Booked
          PROVE  KeepsStep
      <3>1. Promise!SaleNext
        BY <1>1, <1>2, <1>5, <2>2, NoSalePromise DEF PassedOn
      <3> QED
        BY <2>2, <3>1 DEF KeepsStep, Unsettled, Open, Running
    <2> QED
      BY <2>1, <2>2
  <1>7. ASSUME NEW b \in Highest(B), SettleOn(B, b, d) PROVE KeepsStep
    <2>1. b \in ActiveBids(B) /\ b # winner /\ b \notin Forfeits(bids)
      BY <1>3, <1>5 DEF Highest, ActiveBids, Forfeits
    <2>2. Forfeits(B) = PassedOn(b)
      BY <1>1, <1>5, <2>1 DEF PassedOn
    <2> QED
      BY <1>1, <1>3, <1>4, <1>7, <2>1, <2>2, SettleOnPromise
  <1> QED
    BY <1>1, <1>6, <1>7 DEF Cascade

LEMMA RetryPaymentPromise ==
  ASSUME Inv, Unsettled, RetryPayment
  PROVE  KeepsStep
  <1> DEFINE B == [bids EXCEPT ![winner] = Renewed]
  <1>1. status = "awaiting_payment"
    BY DEF RetryPayment
  <1>2. bids \in [Bids -> BidRows] /\ HeldActive(bids)
    BY DEF Inv, TypeOK, Sound
  <1>3. CASE SettleOn(B, winner, depth)
    <2>1. /\ winner \in Bids /\ B \in [Bids -> BidRows] /\ B[winner] = Renewed
          /\ Renewed.status = "active" /\ bids[winner].status = "active"
          /\ Renewed.booked = bids[winner].booked
          /\ \A x \in Bids \ {winner} : B[x] = bids[x]
      BY <1>2, RenewedFacts
    <2> HIDE DEF B
    <2>2. HeldActive(B) /\ \A x \in Bids : B[x].booked = bids[x].booked
      BY <1>2, <2>1 DEF HeldActive
    <2>3. winner \in ActiveBids(B) /\ winner \notin Forfeits(bids)
      BY <2>1 DEF ActiveBids, Forfeits
    <2>4. Forfeits(B) = PassedOn(winner)
      BY <2>1 DEF PassedOn, Forfeits
    <2> QED
      BY <1>1, <1>3, <2>1, <2>2, <2>3, <2>4, SettleOnPromise
  <1>4. CASE /\ bids' = [bids EXCEPT ![winner].keys[bids[winner].refreshes + 1] = "refused"]
             /\ UNCHANGED <<status, winner, deadline, depth, piece>>
    <2>1. \A b \in Bids : bids'[b].status = bids[b].status /\ bids'[b].booked = bids[b].booked
      BY <1>4, RefusedRows
    <2>2. UNCHANGED Promise!saleVars
      BY <1>4, <2>1, SamePromise
    <2> QED
      BY <1>4, <2>2 DEF KeepsStep, Unsettled, Open
  <1> QED
    BY <1>3, <1>4 DEF RetryPayment, Renewed

LEMMA CancelAuctionPromise ==
  ASSUME Inv, Unsettled, CancelAuction
  PROVE  KeepsStep
  <1>1. Open /\ "cancel" \in Hazards
    BY DEF CancelAuction
  <1>2. bids \in [Bids -> BidRows] /\ HeldActive(bids)
    BY DEF Inv, TypeOK, Sound
  <1>3. Conclude(TRUE, VoidActive(bids, "cancelled"), "cancelled", winner, deadline, depth,
                 IF piece = "live" THEN "delisted" ELSE piece)
    BY DEF CancelAuction
  <1>4. \/ /\ status' = "cancelled" /\ winner' = winner
           /\ Forfeits(bids') = Forfeits(bids) /\ Booked' = Booked
        \/ KeepsStep
    BY <1>2, <1>3, VoidedPromise
  <1>5. ASSUME status' = "cancelled", winner' = winner,
               Forfeits(bids') = Forfeits(bids), Booked' = Booked
        PROVE  KeepsStep
    <2>1. Promise!Withdraw
      BY <1>1, <1>5, Zenon DEF Promise!Withdraw, Open, Running, Forfeits
    <2> QED
      BY <1>1, <1>5, <2>1 DEF KeepsStep, Promise!SaleNext, Unsettled, Open, Running
  <1> QED
    BY <1>4, <1>5

\* Bids come in while the work is offered to nobody.
LEMMA PlaceBidPromise ==
  ASSUME ~({"bid_overlap", "cancel"} \subseteq Hazards),
         Inv, Unsettled, NEW u \in Bidders, NEW a \in Prices, PlaceBid(u, a)
  PROVE  KeepsStep
  <1>1. AcceptsBids(LoadedRow(u)) /\ ApplySoftClose(LoadedRow(u)) /\ UNCHANGED winner
    BY DEF PlaceBid
  <1>2. status \in Running
    <2>1. CASE "bid_overlap" \notin Hazards
      BY <1>1, <2>1, Zenon DEF AcceptsBids, LoadedRow, Open
    <2>2. CASE "cancel" \notin Hazards
      BY <1>1, <2>2, LoadedRowFacts DEF Unsettled
    <2> QED
      BY <2>1, <2>2
  <1>3. Open /\ status' \in Running
    BY <1>1, <1>2 DEF ApplySoftClose, Open, Running
  <1>4. PICK n \in Bids :
          /\ NextSlot(n)
          /\ bids' = [x \in Bids |-> IF x = n THEN PlacedBid(u, a)
                                     ELSE IF IsPreviousHold(x, u) THEN Void(bids[x], "outbid")
                                     ELSE bids[x]]
    BY DEF PlaceBid
  <1>5. bids'[n].status = "active" /\ bids[n].status = "none" /\ ~bids'[n].booked
    BY <1>4, PlacedBidFacts DEF NextSlot
  <1>6. bids[n].booked \in BOOLEAN /\ ~bids[n].booked
    BY <1>2 DEF Inv, TypeOK, BidRows, Sound, NobodyBooked, Running
  <1>7. ASSUME NEW x \in Bids, x # n
        PROVE  /\ bids'[x].status = "forfeited" <=> bids[x].status = "forfeited"
               /\ bids'[x].booked = bids[x].booked
    <2>1. Void(bids[x], "outbid").booked = bids[x].booked /\ Void(bids[x], "outbid").status = "outbid"
      BY VoidFacts, "outbid" \in BidStatuses DEF Inv, TypeOK, BidStatuses
    <2>2. IsPreviousHold(x, u) => bids[x].status = "active"
      BY DEF IsPreviousHold, LiveHolds, Inv, Sound, HeldActive
    <2> QED
      BY <1>4, <1>7, <2>1, <2>2
  <1>8. bids'[n].booked = bids[n].booked
    <2>1. PlacedBid(u, a).booked \in BOOLEAN
      BY PlacedBidFacts DEF BidRows
    <2> QED
      BY <1>4, <1>5, <1>6, <2>1
  <1>9. UNCHANGED Promise!saleVars
    BY <1>1, <1>3, <1>5, <1>7, <1>8, SamePromise
  <1> QED
    BY <1>1, <1>2, <1>3, <1>9 DEF KeepsStep, Unsettled, Open, Running

LEMMA PlaceBidCrashesPromise ==
  ASSUME Inv, Unsettled, NEW u \in Bidders, NEW a \in Prices, PlaceBidCrashes(u, a)
  PROVE  KeepsStep
  <1> DEFINE dead == [PlacedBid(u, a) EXCEPT !.status = "rolled_back", !.hold = "none"]
  <1>1. PICK n \in Bids :
          /\ NextSlot(n)
          /\ bids' = [x \in Bids |->
               IF x = n THEN dead
               ELSE IF IsPreviousHold(x, u) THEN StripeOnly(bids[x], Void(bids[x], "outbid"))
               ELSE bids[x]]
    BY DEF PlaceBidCrashes
  <1>2. UNCHANGED <<status, winner>> /\ AcceptsBids(LoadedRow(u))
    BY DEF PlaceBidCrashes, auctionVars
  <1>3. dead.status = "rolled_back" /\ dead.booked \in BOOLEAN /\ ~dead.booked
    BY PlacedBidFacts, SMT DEF BidRows
  <1> HIDE DEF dead
  <1>4. \A x \in Bids \ {n} : bids'[x].status = bids[x].status /\ bids'[x].booked = bids[x].booked
    <2>1. \A x \in Bids : Void(bids[x], "outbid") \in BidRows /\ bids[x] \in BidRows
      BY VoidFacts, "outbid" \in BidStatuses DEF Inv, TypeOK, BidStatuses
    <2> QED
      BY <1>1, <2>1, StripeOnlyFacts
  <1>5. status # "awaiting_winner"
    BY <1>2, LoadedRowFacts DEF Running
  <1>6. bids[n].booked \in BOOLEAN /\ ~bids[n].booked
    BY <1>5 DEF Inv, TypeOK, BidRows, Sound, NobodyBooked
  <1>7. bids'[n] = dead /\ bids[n].status = "none"
    BY <1>1 DEF NextSlot
  <1>8. UNCHANGED Promise!saleVars
    BY <1>2, <1>3, <1>4, <1>6, <1>7, SamePromise
  <1> QED
    BY <1>2, <1>8 DEF KeepsStep, Unsettled, Open

\* Every step of every request and sweep is a step or a stutter of Sale.
LEMMA StepPromise ==
  ~({"bid_overlap", "cancel"} \subseteq Hazards) /\ Inv /\ Unsettled /\ [Next]_vars => KeepsStep
  <1> SUFFICES ASSUME ~({"bid_overlap", "cancel"} \subseteq Hazards), Inv, Unsettled, [Next]_vars
               PROVE  KeepsStep
    OBVIOUS
  <1>1. CASE UNCHANGED <<bids, status, winner>>
    <2>1. UNCHANGED Promise!saleVars
      BY <1>1, SamePromise
    <2> QED
      BY <1>1, <2>1 DEF KeepsStep, Unsettled, Open
  <1>2. CASE \E u \in Bidders, a \in Prices : PlaceBid(u, a)
    BY <1>2, PlaceBidPromise
  <1>3. CASE \E u \in Bidders, a \in Prices : PlaceBidCrashes(u, a)
    BY <1>3, PlaceBidCrashesPromise
  <1>4. CASE CloseOne
    BY <1>4, CloseOnePromise
  <1>5. CASE ExpireOne
    BY <1>5, ExpireOnePromise
  <1>6. CASE RetryPayment
    BY <1>6, RetryPaymentPromise
  <1>7. CASE RefreshOne
    <2>1. UNCHANGED <<status, winner>>
      BY <1>7 DEF RefreshOne, auctionVars
    <2>2. \A b \in Bids : bids'[b].status = bids[b].status /\ bids'[b].booked = bids[b].booked
      BY <1>7, RefreshOneRow, RefreshRows
    <2>3. UNCHANGED Promise!saleVars
      BY <2>1, <2>2, SamePromise
    <2> QED
      BY <2>1, <2>3 DEF KeepsStep, Unsettled, Open
  <1>8. CASE CancelAuction
    BY <1>8, CancelAuctionPromise
  <1>9. CASE \/ Tick
             \/ \E u \in Bidders : ReadAuction(u)
             \/ \E b \in Bids : ReadDueHold(b)
             \/ \E k \in 1 .. MaxExtend : Extend(k)
             \/ \E s \in PieceStatuses : EditStatus(s)
             \/ EditTerms
             \/ UNCHANGED vars
    <2>1. UNCHANGED <<bids, status, winner>>
      BY <1>9 DEF Tick, ReadAuction, ReadDueHold, Extend, EditStatus, EditTerms, vars, auctionVars
    <2> QED
      BY <1>1, <2>1
  <1> QED
    BY <1>2, <1>3, <1>4, <1>5, <1>6, <1>7, <1>8, <1>9 DEF Next

LEMMA InitPromise == Init => Promise!SaleInit /\ Unsettled
  <1>1. NoBidRow.status = "none" /\ NoBidRow.booked = FALSE
    BY Zenon DEF NoBidRow
  <1> QED
    BY <1>1 DEF Init, Promise!SaleInit, Unsettled, Open, Running, Booked

-----------------------------------------------------------------------------
(* Every fallback stays funded, unless requests die or the owner moves the piece. *)

\* The bidders the sale may still pass down to.
Fallbacks ==
  IF status = "awaiting_payment" THEN ActiveBids(bids) \ {winner}
  ELSE IF Open /\ piece = "live" THEN ActiveBids(bids) ELSE {}

\* A hold whose card is authorised and whose next key was never used.
Fresh(r) ==
  /\ r.intent = r.refreshes
  /\ r.keys[r.intent] = "authorised"
  /\ \A g \in Gens : g > r.refreshes => r.keys[g] = "unused"

Backed(r) == r.hold = "expired" \/ (r.hold = "held" /\ Fresh(r))

\* The piece follows the auction.
OnMarket ==
  /\ piece \in {"live", "auction_won", "delisted"}
  /\ piece = "live" => Open
  /\ status \in Running \cup {"cancelled"} => piece # "auction_won"
  /\ status = "awaiting_payment" => piece = "auction_won"

\* The row the refresh sweep has loaded is still true of a fallback.
Swept ==
  sweep # NoSweep =>
    /\ bids[sweep.bid].status # "none"
    /\ sweep.bid \in Fallbacks => bids[sweep.bid].hold = "held" /\ sweep = HoldRow(sweep.bid)

Funded == OnMarket /\ (\A b \in Fallbacks : Backed(bids[b])) /\ Swept

Careful == {"crash", "edit"} \cap Hazards = {}

\* What the new card does to Stripe's keys.
LEMMA ReauthorisedKeys ==
  ASSUME NEW r \in BidRows, NEW i \in Gens, NEW n \in Gens
  PROVE  /\ Reauthorised(r, i, n).intent = n
         /\ Reauthorised(r, i, n).refreshes = n
         /\ \A g \in Gens : Reauthorised(r, i, n).keys[g] =
              LET k == IF g = n /\ r.keys[g] = "unused" THEN "authorised" ELSE r.keys[g]
              IN  IF g = i /\ k = "authorised" THEN "cancelled" ELSE k
  <1> DEFINE k == [r.keys EXCEPT ![n] = IF @ = "unused" THEN "authorised" ELSE @]
  <1>1. r.keys \in [Gens -> KeyStatuses]
    BY DEF BidRows
  <1>2. \A g \in Gens : k[g] = IF g = n /\ r.keys[g] = "unused" THEN "authorised" ELSE r.keys[g]
    BY <1>1
  <1>3. k \in [Gens -> KeyStatuses]
    BY <1>1, SMT DEF KeyStatuses
  <1>4. Reauthorised(r, i, n)
          = [r EXCEPT !.refreshes = n, !.intent = n, !.keys = CancelIntent(k, i)]
    BY DEF Reauthorised
  <1> HIDE DEF k
  <1>5. \A g \in Gens :
          CancelIntent(k, i)[g] = IF g = i /\ k[g] = "authorised" THEN "cancelled" ELSE k[g]
    BY <1>3 DEF CancelIntent
  <1>6. /\ Reauthorised(r, i, n).intent = n /\ Reauthorised(r, i, n).refreshes = n
        /\ Reauthorised(r, i, n).keys = CancelIntent(k, i)
    BY <1>4 DEF BidRows
  <1> QED
    BY <1>2, <1>5, <1>6

\* The card of a new bid is authorised under its first key.
LEMMA PlacedBidKeys ==
  ASSUME NEW u \in Bidders, NEW a \in Prices
  PROVE  /\ PlacedBid(u, a).intent = 0
         /\ PlacedBid(u, a).refreshes = 0
         /\ \A g \in Gens : PlacedBid(u, a).keys[g] = IF g = 0 THEN "authorised" ELSE "unused"
  <1> DEFINE k == [NoBidRow.keys EXCEPT ![0] = "authorised"]
  <1>1. NoBidRow.keys = [g \in Gens |-> "unused"] /\ NoBidRow.intent = 0 /\ NoBidRow.refreshes = 0
    BY Zenon DEF NoBidRow
  <1>2. \A g \in Gens : k[g] = IF g = 0 THEN "authorised" ELSE "unused"
    BY <1>1, GensFacts
  <1>3. PlacedBid(u, a) = [NoBidRow EXCEPT !.status = "active", !.bidder = u,
                                           !.amount = a, !.hold = "held", !.keys = k]
    BY DEF PlacedBid
  <1> HIDE DEF k
  <1>4. PlacedBid(u, a).keys = k /\ PlacedBid(u, a).intent = 0 /\ PlacedBid(u, a).refreshes = 0
    BY <1>1, <1>3, NoBidRowType, SMT DEF BidRows
  <1> QED
    BY <1>2, <1>4

\* A step by which no bid becomes a fallback and the rows of the fallbacks stay the same.
LEMMA FewerFunded ==
  ASSUME Inv, Funded, OnMarket', UNCHANGED sweep,
         Fallbacks' \subseteq Fallbacks, \A b \in Fallbacks' : bids'[b] = bids[b],
         \A b \in Bids : bids[b].status # "none" => bids'[b].status # "none"
  PROVE  Funded'
  <1>1. \A b \in Fallbacks' : Backed(bids'[b])
    BY DEF Funded
  <1>2. Swept'
    <2> SUFFICES ASSUME sweep # NoSweep
                 PROVE  /\ bids'[sweep.bid].status # "none"
                        /\ sweep.bid \in Fallbacks' =>
                             bids'[sweep.bid].hold = "held" /\ sweep = HoldRow(sweep.bid)'
      BY DEF Swept
    <2>1. sweep.bid \in Bids
      BY DEF Inv, SweepLoaded
    <2> QED
      BY <2>1 DEF Funded, Swept, HoldRow
  <1> QED
    BY <1>1, <1>2 DEF Funded

LEMMA ConcludeCommits ==
  ASSUME Careful, NEW ok, ok, NEW after, NEW s, NEW w, NEW dl, NEW d, NEW p,
         Conclude(ok, after, s, w, dl, d, p)
  PROVE  bids' = after /\ status' = s /\ winner' = w /\ piece' = p
  BY DEF Conclude, Careful

\* settle_on passes the work to one of the fallbacks and leaves the others as they are.
LEMMA SettleOnFunded ==
  ASSUME Careful, Inv, Funded, UNCHANGED sweep, Open \/ status = "awaiting_payment",
         NEW B \in [Bids -> BidRows], HeldActive(B), NEW b \in ActiveBids(B),
         \A x \in Bids : bids[x].status # "none" => B[x].status # "none",
         PieceMovable => \A x \in ActiveBids(B) \ {b} : x \in Fallbacks /\ B[x] = bids[x],
         NEW d, SettleOn(B, b, d)
  PROVE  Funded'
  <1>1. b \in Bids /\ B[b].status = "active"
    BY DEF ActiveBids
  <1>2. CASE Settle(B, b, d)
    <2> DEFINE C == [B EXCEPT ![b] = Captured(B[b])]
               after == VoidActive(C, "lost")
    <2>1. /\ Captured(B[b]) \in BidRows /\ Captured(B[b]).hold = "captured"
          /\ Captured(B[b]).status = "won"
      BY <1>1, CapturedFacts
    <2>2. C \in [Bids -> BidRows] /\ C[b] = Captured(B[b]) /\ \A x \in Bids \ {b} : C[x] = B[x]
      BY <1>1, <2>1
    <2> HIDE DEF C
    <2>3. HeldActive(C)
      BY <2>1, <2>2 DEF HeldActive
    <2>4. /\ after \in [Bids -> BidRows]
          /\ \A x \in Bids : /\ C[x].status # "active" => after[x] = C[x]
                             /\ C[x].status = "active" => after[x].status = "lost"
      BY <2>2, <2>3, VoidActiveFacts, "lost" \in BidStatuses \ {"active"} DEF BidStatuses
    <2>5. Conclude(PieceMovable, after, "awaiting_winner", b, 0, d, "auction_won")
      BY <1>2 DEF Settle, C
    <2> HIDE DEF after
    <2>6. CASE PieceMovable
      <3>1. bids' = after /\ status' = "awaiting_winner" /\ piece' = "auction_won"
        BY <2>5, <2>6, ConcludeCommits
      <3>2. OnMarket' /\ Fallbacks' = {}
        BY <3>1 DEF OnMarket, Fallbacks, Open, Running
      <3>3. \A x \in Bids : bids[x].status # "none" => bids'[x].status # "none"
        BY <1>1, <2>1, <2>2, <2>4, <3>1
      <3> QED
        BY <3>2, <3>3, FewerFunded
    <2>7. CASE ~PieceMovable
      <3>1. /\ bids' = [x \in Bids |-> StripeOnly(bids[x], after[x])]
            /\ UNCHANGED <<status, winner, piece>>
        BY <2>5, <2>7 DEF Conclude
      <3>2. OnMarket' /\ Fallbacks' = {}
        BY <2>7, <3>1 DEF Funded, OnMarket, Fallbacks, Open, PieceMovable
      <3>3. \A x \in Bids : bids'[x].status = bids[x].status
        BY <2>4, <3>1, StripeOnlyFacts DEF Inv, TypeOK
      <3> QED
        BY <3>2, <3>3, FewerFunded
    <2> QED
      BY <2>6, <2>7
  <1>3. CASE Park(B, b, d)
    <2> DEFINE after == [B EXCEPT ![b] = Declined(B[b])]
    <2>1. Declined(B[b]) \in BidRows /\ Declined(B[b]).status = B[b].status
      BY <1>1, DeclinedFacts
    <2>2. /\ after \in [Bids -> BidRows]
          /\ after[b] = Declined(B[b]) /\ \A x \in Bids \ {b} : after[x] = B[x]
      BY <1>1, <2>1
    <2>3. Conclude(PieceMovable, after, "awaiting_payment", b, now + RetryWindow, d, "auction_won")
      BY <1>3 DEF Park
    <2> HIDE DEF after
    <2>4. CASE PieceMovable
      <3>1. bids' = after /\ status' = "awaiting_payment" /\ piece' = "auction_won" /\ winner' = b
        BY <2>3, <2>4, ConcludeCommits
      <3>2. OnMarket' /\ Fallbacks' = ActiveBids(after) \ {b}
        BY <3>1 DEF OnMarket, Fallbacks, Open, Running
      <3>3. \A x \in Fallbacks' : x \in Bids /\ x \in ActiveBids(B) \ {b} /\ bids'[x] = B[x]
        BY <2>2, <3>1, <3>2 DEF ActiveBids
      <3>4. \A x \in Bids : bids[x].status # "none" => bids'[x].status # "none"
        BY <1>1, <2>1, <2>2, <3>1
      <3> QED
        BY <2>4, <3>2, <3>3, <3>4, FewerFunded
    <2>5. CASE ~PieceMovable
      <3>1. /\ bids' = [x \in Bids |-> StripeOnly(bids[x], after[x])]
            /\ UNCHANGED <<status, winner, piece>>
        BY <2>3, <2>5 DEF Conclude
      <3>2. OnMarket' /\ Fallbacks' = {}
        BY <2>5, <3>1 DEF Funded, OnMarket, Fallbacks, Open, PieceMovable
      <3>3. \A x \in Bids : bids'[x].status = bids[x].status
        BY <2>2, <3>1, StripeOnlyFacts DEF Inv, TypeOK
      <3> QED
        BY <3>2, <3>3, FewerFunded
    <2> QED
      BY <2>4, <2>5
  <1> QED
    BY <1>2, <1>3 DEF SettleOn

\* An auction that ends without a sale has no fallbacks left.
LEMMA VoidedFunded ==
  ASSUME Careful, Inv, Funded, UNCHANGED sweep, NEW ok,
         NEW B \in [Bids -> BidRows], HeldActive(B),
         \A x \in Bids : bids[x].status # "none" => B[x].status # "none",
         NEW s \in {"closed_no_bids", "needs_seller_action", "cancelled"}, NEW w, NEW dl, NEW d,
         Conclude(ok, VoidActive(B, "cancelled"), s, w, dl, d, "delisted"), ok
  PROVE  Funded'
  <1> DEFINE after == VoidActive(B, "cancelled")
  <1>1. /\ after \in [Bids -> BidRows]
        /\ \A x \in Bids : /\ B[x].status # "active" => after[x] = B[x]
                           /\ B[x].status = "active" => after[x].status = "cancelled"
    BY VoidActiveFacts, "cancelled" \in BidStatuses \ {"active"} DEF BidStatuses
  <1>2. bids' = after /\ status' = s /\ piece' = "delisted"
    BY ConcludeCommits
  <1> HIDE DEF after
  <1>3. OnMarket' /\ Fallbacks' = {}
    BY <1>2 DEF OnMarket, Fallbacks, Open, Running
  <1>4. \A x \in Bids : bids[x].status # "none" => bids'[x].status # "none"
    BY <1>1, <1>2
  <1> QED
    BY <1>3, <1>4, FewerFunded

LEMMA CloseOneFunded ==
  ASSUME Careful, Inv, Funded, CloseOne
  PROVE  Funded'
  <1>1. Open /\ status # "awaiting_payment" /\ UNCHANGED sweep
    BY DEF CloseOne, DueToClose, Open, Running, inFlight
  <1>2. bids \in [Bids -> BidRows] /\ HeldActive(bids)
    BY DEF Inv, TypeOK, Sound
  <1>3. piece \in {"live", "delisted"}
    BY <1>1 DEF Funded, OnMarket, Open
  <1>4. ASSUME NEW s \in {"closed_no_bids", "needs_seller_action"}, CloseWithoutSale(s)
        PROVE  Funded'
    BY <1>1, <1>2, <1>3, <1>4, VoidedFunded DEF CloseWithoutSale
  <1>5. ASSUME NEW b \in Highest(bids), SettleOn(bids, b, depth)
        PROVE  Funded'
    <2>1. b \in ActiveBids(bids)
      BY DEF Highest
    <2>2. PieceMovable => Fallbacks = ActiveBids(bids)
      BY <1>1, <1>3 DEF PieceMovable, Fallbacks
    <2> QED
      BY <1>1, <1>2, <1>5, <2>1, <2>2, SettleOnFunded
  <1> QED
    BY <1>4, <1>5 DEF CloseOne

LEMMA ExpireOneFunded ==
  ASSUME Careful, Inv, Funded, ExpireOne
  PROVE  Funded'
  <1> DEFINE B == Forfeit(bids, winner)
             d == depth + 1
  <1>1. status = "awaiting_payment" /\ Cascade(B, d) /\ UNCHANGED sweep
    BY DEF ExpireOne, inFlight
  <1>2. bids \in [Bids -> BidRows] /\ winner \in Bids /\ HeldActive(bids)
    BY <1>1 DEF Inv, TypeOK, Sound, OfferedTo
  <1>3. /\ B \in [Bids -> BidRows]
        /\ B[winner].hold # "held" /\ B[winner].status = "forfeited"
        /\ \A x \in Bids \ {winner} : B[x] = bids[x]
    BY <1>2, ForfeitRows
  <1> HIDE DEF B, d
  <1>4. HeldActive(B) /\ \A x \in Bids : bids[x].status # "none" => B[x].status # "none"
    BY <1>2, <1>3 DEF HeldActive
  <1>5. \A x \in ActiveBids(B) : x \in Fallbacks /\ B[x] = bids[x]
    BY <1>1, <1>2, <1>3 DEF ActiveBids, Fallbacks
  <1>6. piece = "auction_won"
    BY <1>1 DEF Funded, OnMarket
  <1>7. ASSUME GiveUp(B, d) PROVE Funded'
    <2>1. Conclude(TRUE, VoidActive(B, "cancelled"), "needs_seller_action", NoBid, 0, d, "delisted")
      BY <1>6, <1>7 DEF GiveUp
    <2> QED
      BY <1>1, <1>3, <1>4, <2>1, VoidedFunded
  <1>8. ASSUME NEW b \in Highest(B), SettleOn(B, b, d) PROVE Funded'
    <2>1. b \in ActiveBids(B)
      BY DEF Highest
    <2> QED
      BY <1>1, <1>3, <1>4, <1>5, <1>8, <2>1, SettleOnFunded
  <1> QED
    BY <1>1, <1>7, <1>8 DEF Cascade

LEMMA RetryPaymentFunded ==
  ASSUME Careful, Inv, Funded, RetryPayment
  PROVE  Funded'
  <1> DEFINE B == [bids EXCEPT ![winner] = Renewed]
  <1>1. status = "awaiting_payment" /\ UNCHANGED sweep
    BY DEF RetryPayment, inFlight
  <1>2. bids \in [Bids -> BidRows] /\ HeldActive(bids)
    BY DEF Inv, TypeOK, Sound
  <1>3. CASE SettleOn(B, winner, depth)
    <2>1. /\ winner \in Bids /\ B \in [Bids -> BidRows] /\ B[winner] = Renewed
          /\ Renewed.status = "active"
          /\ \A x \in Bids \ {winner} : B[x] = bids[x]
      BY <1>2, RenewedFacts
    <2> HIDE DEF B
    <2>2. /\ HeldActive(B) /\ winner \in ActiveBids(B)
          /\ \A x \in Bids : bids[x].status # "none" => B[x].status # "none"
      BY <1>2, <2>1 DEF HeldActive, ActiveBids
    <2>3. \A x \in ActiveBids(B) \ {winner} : x \in Fallbacks /\ B[x] = bids[x]
      BY <1>1, <2>1 DEF ActiveBids, Fallbacks
    <2> QED
      BY <1>1, <1>3, <2>1, <2>2, <2>3, SettleOnFunded
  <1>4. CASE /\ bids' = [bids EXCEPT ![winner].keys[bids[winner].refreshes + 1] = "refused"]
             /\ UNCHANGED <<status, winner, deadline, depth, piece>>
    <2>1. \A b \in Bids : bids'[b].status = bids[b].status
      BY <1>4, RefusedRows
    <2>2. \A b \in Bids \ {winner} : bids'[b] = bids[b]
      BY <1>2, <1>4
    <2>3. Open' = Open /\ OnMarket'
      BY <1>4 DEF Funded, OnMarket, Open
    <2>4. Fallbacks' = Fallbacks /\ \A b \in Fallbacks' : b \in Bids \ {winner}
      BY <1>1, <1>4, <2>1 DEF Fallbacks, ActiveBids
    <2> QED
      BY <1>1, <2>1, <2>2, <2>3, <2>4, FewerFunded
  <1> QED
    BY <1>3, <1>4 DEF RetryPayment, Renewed

LEMMA CancelAuctionFunded ==
  ASSUME Careful, Inv, Funded, CancelAuction
  PROVE  Funded'
  <1>1. Open /\ UNCHANGED sweep
    BY DEF CancelAuction, inFlight
  <1>2. bids \in [Bids -> BidRows] /\ HeldActive(bids)
    BY DEF Inv, TypeOK, Sound
  <1>3. piece \in {"live", "delisted"}
    BY <1>1 DEF Funded, OnMarket, Open
  <1>4. Conclude(TRUE, VoidActive(bids, "cancelled"), "cancelled", winner, deadline, depth, "delisted")
    BY <1>3 DEF CancelAuction
  <1> QED
    BY <1>1, <1>2, <1>4, VoidedFunded

\* A new bid comes with an authorised card, and the bids of others keep theirs.
LEMMA PlaceBidFunded ==
  ASSUME Careful, Inv, Funded, NEW u \in Bidders, NEW a \in Prices, PlaceBid(u, a)
  PROVE  Funded'
  <1>1. /\ AcceptsBids(LoadedRow(u)) /\ ApplySoftClose(LoadedRow(u))
        /\ UNCHANGED <<winner, piece, sweep>>
    BY DEF PlaceBid, pieceVars
  <1>2. status \in Running \cup {"cancelled"} /\ (status' = status \/ status' = "closing")
    BY <1>1, LoadedRowFacts DEF ApplySoftClose
  <1>3. PICK n \in Bids :
          /\ NextSlot(n)
          /\ bids' = [x \in Bids |-> IF x = n THEN PlacedBid(u, a)
                                     ELSE IF IsPreviousHold(x, u) THEN Void(bids[x], "outbid")
                                     ELSE bids[x]]
    BY DEF PlaceBid
  <1>4. bids'[n] = PlacedBid(u, a) /\ bids[n].status = "none"
    BY <1>3 DEF NextSlot
  <1>5. ASSUME NEW x \in Bids, x # n
        PROVE  bids'[x] = bids[x] \/ bids'[x].status = "outbid"
    <2>1. Void(bids[x], "outbid").status = "outbid"
      BY VoidFacts, "outbid" \in BidStatuses DEF Inv, TypeOK, BidStatuses
    <2> QED
      BY <1>3, <1>5, <2>1
  <1>6. OnMarket'
    BY <1>1, <1>2 DEF Funded, OnMarket, Open, Running
  <1>7. \A x \in Fallbacks' : x # n => x \in Fallbacks /\ bids'[x] = bids[x]
    <2>1. \A x \in ActiveBids(bids') : x # n => x \in ActiveBids(bids) /\ bids'[x] = bids[x]
      BY <1>5 DEF ActiveBids
    <2>2. status # "awaiting_payment" /\ status' # "awaiting_payment"
      BY <1>2 DEF Running
    <2>3. \A x \in Fallbacks' : x \in ActiveBids(bids') /\ piece = "live"
      BY <1>1, <2>2 DEF Fallbacks
    <2>4. piece = "live" => Fallbacks = ActiveBids(bids)
      BY <2>2 DEF Funded, OnMarket, Fallbacks
    <2> QED
      BY <2>1, <2>3, <2>4
  <1>8. Backed(bids'[n])
    <2>1. 0 \in Gens /\ Gens \subseteq Nat /\ PlacedBid(u, a).hold = "held"
      BY GensFacts, PlacedBidFacts
    <2> QED
      BY <1>4, <2>1, PlacedBidKeys DEF Backed, Fresh
  <1>9. \A x \in Fallbacks' : Backed(bids'[x])
    BY <1>7, <1>8 DEF Funded
  <1>10. Swept'
    <2> SUFFICES ASSUME sweep # NoSweep
                 PROVE  /\ bids'[sweep.bid].status # "none"
                        /\ sweep.bid \in Fallbacks' =>
                             bids'[sweep.bid].hold = "held" /\ sweep = HoldRow(sweep.bid)'
      BY <1>1 DEF Swept
    <2>1. sweep.bid \in Bids /\ sweep.bid # n
      BY <1>4 DEF Inv, SweepLoaded, Funded, Swept
    <2> QED
      BY <1>1, <1>5, <1>7, <2>1 DEF Funded, Swept, HoldRow
  <1> QED
    BY <1>6, <1>9, <1>10 DEF Funded

\* The sweep renews the hold of a fallback, or records that it could not.
LEMMA RefreshOneFunded ==
  ASSUME Careful, Inv, Funded, RefreshOne
  PROVE  Funded'
  <1>1. sweep' = NoSweep /\ UNCHANGED <<status, winner, piece>>
    BY DEF RefreshOne, auctionVars, pieceVars
  <1>2. \E row \in Sweeps : /\ row.bid \in Bids /\ row.refreshes < MaxRefresh /\ Refresh(row)
                            /\ row.bid \in Fallbacks =>
                                 bids[row.bid].hold = "held" /\ row = HoldRow(row.bid)
    <2>1. CASE sweep # NoSweep /\ Refresh(sweep)
      BY <2>1 DEF Inv, TypeOK, SweepLoaded, Funded, Swept
    <2>2. CASE \E b \in Bids : /\ bids[b].hold = "held" /\ bids[b].refreshes < MaxRefresh
                               /\ Refresh(HoldRow(b))
      <3>1. PICK b \in Bids : /\ bids[b].hold = "held" /\ bids[b].refreshes < MaxRefresh
                              /\ Refresh(HoldRow(b))
        BY <2>2
      <3>2. bids[b].intent \in Gens /\ bids[b].refreshes \in Gens
        BY DEF Inv, TypeOK, BidRows
      <3>3. /\ HoldRow(b) \in Sweeps /\ HoldRow(b).bid = b
            /\ HoldRow(b).refreshes = bids[b].refreshes
        BY <3>2 DEF HoldRow, Sweeps
      <3> QED
        BY <3>1, <3>3
    <2> QED
      BY <2>1, <2>2, Zenon DEF RefreshOne
  <1>3. PICK row \in Sweeps : /\ row.bid \in Bids /\ row.refreshes < MaxRefresh /\ Refresh(row)
                              /\ row.bid \in Fallbacks =>
                                   bids[row.bid].hold = "held" /\ row = HoldRow(row.bid)
    BY <1>2
  <1> DEFINE b == row.bid
             n == row.refreshes + 1
             r == bids[b]
             renewed == Reauthorised(r, row.intent, n)
             refused == [r EXCEPT !.hold = "expired", !.refreshes = n, !.keys[n] = "refused"]
  <1>4. PICK v \in {renewed, refused} : bids' = [bids EXCEPT ![b] = v]
    BY <1>3, Zenon DEF Refresh, Careful
  <1>5. r \in BidRows /\ row.intent \in Gens /\ n \in Gens /\ bids \in [Bids -> BidRows]
    <2>1. row.intent \in Gens /\ row.refreshes \in Gens
      BY DEF Sweeps
    <2> QED
      BY <1>3, <2>1, BidsAssumption DEF Inv, TypeOK, Gens
  <1>6. \A x \in Bids : bids'[x].status = bids[x].status
    BY <1>3, RefreshRows
  <1>7. Fallbacks' = Fallbacks /\ OnMarket'
    <2>1. ActiveBids(bids') = ActiveBids(bids) /\ Open' = Open
      BY <1>1, <1>6 DEF ActiveBids, Open
    <2> QED
      BY <1>1, <2>1 DEF Fallbacks, Funded, OnMarket
  <1>8. ASSUME b \in Fallbacks PROVE Backed(v)
    <2>1. r.hold = "held" /\ row.intent = r.intent /\ row.refreshes = r.refreshes /\ Fresh(r)
      <3>1. r.hold = "held" /\ row = HoldRow(b)
        BY <1>3, <1>8
      <3>2. row.intent = r.intent /\ row.refreshes = r.refreshes
        BY <3>1 DEF HoldRow
      <3> QED
        BY <1>8, <3>1, <3>2 DEF Funded, Backed
    <2>2. CASE v = renewed
      <3>1. r.intent \in Gens /\ n > r.intent /\ r.keys[n] = "unused"
        BY <1>5, <2>1, BidsAssumption DEF Fresh, Gens
      <3>2. renewed.hold = "held" /\ renewed.intent = n /\ renewed.refreshes = n
        <4>1. renewed.hold = r.hold /\ renewed.intent = n /\ renewed.refreshes = n
          <5> HIDE DEF r, n
          <5> QED
            BY <1>5, ReauthorisedFacts, ReauthorisedKeys
        <4> QED
          BY <2>1, <4>1
      <3>3. renewed.keys[n] = "authorised"
        BY <1>5, <2>1, <3>1, ReauthorisedKeys, GensFacts
      <3>4. ASSUME NEW g \in Gens, g > n PROVE renewed.keys[g] = "unused"
        <4>1. g > r.refreshes /\ g # n
          BY <1>5, <2>1, <3>1, <3>4, GensFacts DEF Fresh
        <4>2. r.keys[g] = "unused"
          BY <2>1, <4>1 DEF Fresh
        <4> QED
          BY <1>5, <4>1, <4>2, ReauthorisedKeys
      <3> HIDE DEF renewed
      <3> QED
        BY <2>2, <3>2, <3>3, <3>4 DEF Backed, Fresh
    <2>3. CASE v = refused
      <3>1. refused.hold = "expired"
        BY <1>5, SMT DEF BidRows
      <3> QED
        BY <2>3, <3>1 DEF Backed
    <2> QED
      BY <2>2, <2>3
  <1>9. \A x \in Fallbacks' : Backed(bids'[x])
    <2>1. \A x \in Fallbacks : x \in Bids
      BY DEF Fallbacks, ActiveBids
    <2> QED
      BY <1>3, <1>4, <1>5, <1>7, <1>8, <2>1 DEF Funded
  <1> QED
    BY <1>1, <1>7, <1>9 DEF Funded, Swept

LEMMA ReadDueHoldFunded ==
  ASSUME Inv, Funded, NEW b \in Bids, ReadDueHold(b)
  PROVE  Funded'
  <1>1. UNCHANGED <<bids, status, winner, piece>> /\ sweep' = HoldRow(b) /\ bids[b].hold = "held"
    BY DEF ReadDueHold, auctionVars, pieceVars
  <1>2. HoldRow(b).bid = b /\ HoldRow(b)' = HoldRow(b) /\ bids[b].status = "active"
    BY <1>1 DEF HoldRow, Inv, Sound, HeldActive
  <1>3. Fallbacks' = Fallbacks /\ OnMarket'
    BY <1>1 DEF Fallbacks, Funded, OnMarket, Open
  <1> QED
    BY <1>1, <1>2, <1>3 DEF Funded, Swept

LEMMA StepFunded == Careful /\ Inv /\ Funded /\ [Next]_vars => Funded'
  <1> SUFFICES ASSUME Careful, Inv, Funded, [Next]_vars
               PROVE  Funded'
    OBVIOUS
  <1>1. CASE UNCHANGED <<bids, status, winner, piece, sweep>>
    <2>1. Fallbacks' = Fallbacks /\ OnMarket'
      BY <1>1 DEF Fallbacks, Funded, OnMarket, Open
    <2> QED
      BY <1>1, <2>1, FewerFunded
  <1>2. CASE \E u \in Bidders, a \in Prices : PlaceBid(u, a)
    BY <1>2, PlaceBidFunded
  <1>3. CASE CloseOne
    BY <1>3, CloseOneFunded
  <1>4. CASE ExpireOne
    BY <1>4, ExpireOneFunded
  <1>5. CASE RetryPayment
    BY <1>5, RetryPaymentFunded
  <1>6. CASE \E b \in Bids : ReadDueHold(b)
    BY <1>6, ReadDueHoldFunded
  <1>7. CASE RefreshOne
    BY <1>7, RefreshOneFunded
  <1>8. CASE CancelAuction
    BY <1>8, CancelAuctionFunded
  <1>9. CASE \/ Tick
             \/ \E u \in Bidders : ReadAuction(u)
             \/ \E k \in 1 .. MaxExtend : Extend(k)
             \/ UNCHANGED vars
    <2>1. UNCHANGED <<bids, status, winner, piece, sweep>>
      BY <1>9 DEF Tick, ReadAuction, Extend, vars, auctionVars, pieceVars, inFlight
    <2> QED
      BY <1>1, <2>1
  <1>10. /\ ~\E u \in Bidders, a \in Prices : PlaceBidCrashes(u, a)
         /\ ~(EditTerms \/ \E s \in PieceStatuses : EditStatus(s))
    BY DEF Careful, PlaceBidCrashes, EditTerms, EditStatus
  <1> QED
    BY <1>2, <1>3, <1>4, <1>5, <1>6, <1>7, <1>8, <1>9, <1>10 DEF Next

LEMMA InitFunded == Init => Funded
  <1>1. NoBidRow.status = "none"
    BY Zenon DEF NoBidRow
  <1> QED
    BY <1>1 DEF Init, Funded, OnMarket, Swept, Fallbacks, ActiveBids, Open, Running

-----------------------------------------------------------------------------
(* Nothing is left on a card, unless the steps that may leave something there happen. *)

\* Only a bid in the running has a card authorised, and only under the key its hold is at.
OnlyIntent(r) ==
  /\ \A g \in Gens : r.keys[g] = "authorised" => r.status = "active" /\ g = r.intent
  /\ r.status = "active" => r.hold \notin {"released", "captured"}

Clear ==
  /\ \A b \in Bids : OnlyIntent(bids[b])
  /\ Ended => ActiveBids(bids) = {}
  /\ Open => piece = "live"
  /\ sweep = NoSweep

Orderly ==
  /\ {"crash", "edit", "refresh_overlap"} \cap Hazards = {}
  /\ ~({"bid_overlap", "cancel"} \subseteq Hazards)

\* Whoever leaves the running has nothing left on the card.
LEMMA VoidClears ==
  ASSUME NEW r \in BidRows, OnlyIntent(r), r.status = "active", NEW s \in BidStatuses \ {"active"}
  PROVE  OnlyIntent(Void(r, s))
  <1>1. Release(r) = [r EXCEPT !.hold = "released", !.keys = CancelIntent(r.keys, r.intent)]
    BY DEF OnlyIntent, Release
  <1>2. r.keys \in [Gens -> KeyStatuses] /\ r.intent \in Gens
    BY DEF BidRows
  <1>3. CancelIntent(r.keys, r.intent) \in [Gens -> KeyStatuses]
    BY <1>2, CancelIntentType
  <1>4. \A g \in Gens : CancelIntent(r.keys, r.intent)[g] # "authorised"
    BY <1>2 DEF CancelIntent, OnlyIntent
  <1>5. Void(r, s).keys = CancelIntent(r.keys, r.intent)
    BY <1>1, <1>3, SMT DEF Void, BidRows
  <1>6. Void(r, s).status = s
    BY VoidFacts
  <1> QED
    BY <1>4, <1>5, <1>6 DEF OnlyIntent

\* A captured card is no longer authorised.
LEMMA CapturedClears ==
  ASSUME NEW r \in BidRows, OnlyIntent(r)
  PROVE  OnlyIntent(Captured(r))
  <1> DEFINE k == [r.keys EXCEPT ![r.intent] = "captured"]
  <1>1. r.keys \in [Gens -> KeyStatuses] /\ r.intent \in Gens
    BY DEF BidRows
  <1>2. \A g \in Gens : k[g] # "authorised"
    BY <1>1 DEF OnlyIntent
  <1>3. Captured(r) = [r EXCEPT !.hold = "captured", !.booked = TRUE, !.status = "won", !.keys = k]
    BY DEF Captured
  <1> HIDE DEF k
  <1>4. Captured(r).keys = k /\ Captured(r).status = "won"
    BY <1>3, SMT DEF BidRows
  <1> QED
    BY <1>2, <1>4 DEF OnlyIntent

LEMMA DeclinedClears ==
  ASSUME NEW r \in BidRows, OnlyIntent(r)
  PROVE  OnlyIntent(Declined(r))
  <1>1. Declined(r).keys = r.keys /\ Declined(r).status = r.status /\ Declined(r).intent = r.intent
        /\ (Declined(r).hold = r.hold \/ Declined(r).hold = "capture_failed")
    BY SMT DEF Declined, BidRows
  <1> QED
    BY <1>1 DEF OnlyIntent

\* The new authorisation is the only one left.
LEMMA ReauthorisedClears ==
  ASSUME NEW r \in BidRows, OnlyIntent(r), r.status = "active", NEW n \in Gens
  PROVE  OnlyIntent(Reauthorised(r, r.intent, n))
  <1>1. /\ Reauthorised(r, r.intent, n).status = r.status
        /\ Reauthorised(r, r.intent, n).hold = r.hold
        /\ Reauthorised(r, r.intent, n).intent = n
    BY ReauthorisedFacts, ReauthorisedKeys DEF BidRows
  <1>2. \A g \in Gens : Reauthorised(r, r.intent, n).keys[g] = "authorised" => g = n
    BY ReauthorisedKeys DEF BidRows, OnlyIntent
  <1> QED
    BY <1>1, <1>2 DEF OnlyIntent

\* A bid whose row says it is free has every row's keys free after _release_runners_up.
LEMMA VoidActiveClears ==
  ASSUME NEW B \in [Bids -> BidRows], \A x \in Bids : OnlyIntent(B[x]),
         NEW s \in BidStatuses \ {"active"}
  PROVE  \A x \in Bids : OnlyIntent(VoidActive(B, s)[x])
  BY VoidClears DEF VoidActive

LEMMA SettleOnClear ==
  ASSUME Careful, Inv, OnMarket, UNCHANGED sweep, sweep = NoSweep,
         piece # "delisted",
         NEW B \in [Bids -> BidRows], \A x \in Bids : OnlyIntent(B[x]), HeldActive(B),
         NEW b \in ActiveBids(B), NEW d, SettleOn(B, b, d)
  PROVE  Clear'
  <1>1. b \in Bids /\ B[b].status = "active" /\ PieceMovable
    BY DEF ActiveBids, OnMarket, PieceMovable
  <1>2. CASE Settle(B, b, d)
    <2> DEFINE C == [B EXCEPT ![b] = Captured(B[b])]
               after == VoidActive(C, "lost")
    <2>1. Captured(B[b]) \in BidRows /\ OnlyIntent(Captured(B[b])) /\ Captured(B[b]).hold = "captured"
      BY <1>1, CapturedFacts, CapturedClears
    <2>2. C \in [Bids -> BidRows] /\ C[b] = Captured(B[b]) /\ \A x \in Bids \ {b} : C[x] = B[x]
      BY <1>1, <2>1
    <2> HIDE DEF C
    <2>3. HeldActive(C) /\ \A x \in Bids : OnlyIntent(C[x])
      BY <2>1, <2>2 DEF HeldActive
    <2>4. "lost" \in BidStatuses \ {"active"}
      BY DEF BidStatuses
    <2>5. \A x \in Bids : OnlyIntent(after[x]) /\ after[x].status # "active"
      BY <2>2, <2>3, <2>4, VoidActiveClears, VoidActiveFacts
    <2>6. Conclude(PieceMovable, after, "awaiting_winner", b, 0, d, "auction_won")
      BY <1>2 DEF Settle, C
    <2> HIDE DEF after
    <2>7. bids' = after /\ status' = "awaiting_winner"
      BY <1>1, <2>6, ConcludeCommits
    <2> QED
      BY <2>5, <2>7 DEF Clear, ActiveBids, Open, Running
  <1>3. CASE Park(B, b, d)
    <2> DEFINE after == [B EXCEPT ![b] = Declined(B[b])]
    <2>1. OnlyIntent(Declined(B[b]))
      BY <1>1, DeclinedClears
    <2>2. after[b] = Declined(B[b]) /\ \A x \in Bids \ {b} : after[x] = B[x]
      BY <1>1
    <2>3. Conclude(PieceMovable, after, "awaiting_payment", b, now + RetryWindow, d, "auction_won")
      BY <1>3 DEF Park
    <2> HIDE DEF after
    <2>4. bids' = after /\ status' = "awaiting_payment"
      BY <1>1, <2>3, ConcludeCommits
    <2> QED
      BY <2>1, <2>2, <2>4 DEF Clear, Ended, Open, Running
  <1> QED
    BY <1>2, <1>3 DEF SettleOn

LEMMA VoidedClear ==
  ASSUME Careful, Inv, UNCHANGED sweep, sweep = NoSweep, NEW ok, ok,
         NEW B \in [Bids -> BidRows], \A x \in Bids : OnlyIntent(B[x]), HeldActive(B),
         NEW s, s \notin Running, NEW w, NEW dl, NEW d, NEW p,
         Conclude(ok, VoidActive(B, "cancelled"), s, w, dl, d, p)
  PROVE  Clear'
  <1>1. "cancelled" \in BidStatuses \ {"active"}
    BY DEF BidStatuses
  <1>2. \A x \in Bids : /\ OnlyIntent(VoidActive(B, "cancelled")[x])
                        /\ VoidActive(B, "cancelled")[x].status # "active"
    BY <1>1, VoidActiveClears, VoidActiveFacts
  <1>3. bids' = VoidActive(B, "cancelled") /\ status' = s
    BY ConcludeCommits
  <1> QED
    BY <1>2, <1>3 DEF Clear, ActiveBids, Open

LEMMA CloseOneClear ==
  ASSUME Careful, Inv, OnMarket, Clear, CloseOne
  PROVE  Clear'
  <1>1. Open /\ UNCHANGED sweep /\ sweep = NoSweep /\ piece = "live"
    BY DEF CloseOne, DueToClose, Open, Running, inFlight, Clear
  <1>2. bids \in [Bids -> BidRows] /\ HeldActive(bids) /\ \A x \in Bids : OnlyIntent(bids[x])
    BY DEF Inv, TypeOK, Sound, Clear
  <1>3. ASSUME NEW s \in {"closed_no_bids", "needs_seller_action"}, CloseWithoutSale(s)
        PROVE  Clear'
    BY <1>1, <1>2, <1>3, VoidedClear DEF CloseWithoutSale, Running
  <1>4. ASSUME NEW b \in Highest(bids), SettleOn(bids, b, depth)
        PROVE  Clear'
    <2>1. b \in ActiveBids(bids)
      BY DEF Highest
    <2> QED
      BY <1>1, <1>2, <1>4, <2>1, SettleOnClear
  <1> QED
    BY <1>3, <1>4 DEF CloseOne

LEMMA ExpireOneClear ==
  ASSUME Careful, Inv, OnMarket, Clear, ExpireOne
  PROVE  Clear'
  <1> DEFINE B == Forfeit(bids, winner)
             d == depth + 1
  <1>1. /\ status = "awaiting_payment" /\ Cascade(B, d) /\ UNCHANGED sweep /\ sweep = NoSweep
        /\ piece = "auction_won"
    BY DEF ExpireOne, inFlight, Clear, OnMarket
  <1>2. /\ bids \in [Bids -> BidRows] /\ HeldActive(bids)
        /\ winner \in Bids /\ bids[winner].status = "active"
        /\ \A x \in Bids : OnlyIntent(bids[x])
    BY <1>1 DEF Inv, TypeOK, Sound, OfferedTo, Clear
  <1>3. /\ B \in [Bids -> BidRows]
        /\ B[winner].hold # "held" /\ B[winner] = Void(bids[winner], "forfeited")
        /\ \A x \in Bids \ {winner} : B[x] = bids[x]
    BY <1>2, ForfeitRows
  <1> HIDE DEF B, d
  <1>4. HeldActive(B)
    BY <1>2, <1>3 DEF HeldActive
  <1>5. \A x \in Bids : OnlyIntent(B[x])
    <2>1. OnlyIntent(B[winner])
      BY <1>2, <1>3, VoidClears, "forfeited" \in BidStatuses \ {"active"} DEF BidStatuses
    <2> QED
      BY <1>2, <1>3, <2>1
  <1>6. ASSUME GiveUp(B, d) PROVE Clear'
    BY <1>1, <1>3, <1>4, <1>5, <1>6, VoidedClear DEF GiveUp, Running
  <1>7. ASSUME NEW b \in Highest(B), SettleOn(B, b, d) PROVE Clear'
    <2>1. b \in ActiveBids(B)
      BY DEF Highest
    <2> QED
      BY <1>1, <1>3, <1>4, <1>5, <1>7, <2>1, SettleOnClear
  <1> QED
    BY <1>1, <1>6, <1>7 DEF Cascade

\* A key that Stripe has refused is authorised under no hold.
LEMMA RefusedClears ==
  ASSUME NEW r \in BidRows, OnlyIntent(r), NEW n \in Gens
  PROVE  \A g \in Gens : [r.keys EXCEPT ![n] = "refused"][g] = "authorised"
                            => r.status = "active" /\ g = r.intent
  <1>1. r.keys \in [Gens -> KeyStatuses]
    BY DEF BidRows
  <1> QED
    BY <1>1 DEF OnlyIntent

LEMMA RetryPaymentClear ==
  ASSUME Careful, Inv, OnMarket, Clear, RetryPayment
  PROVE  Clear'
  <1> DEFINE r == bids[winner]
             n == r.refreshes + 1
             B == [bids EXCEPT ![winner] = Renewed]
  <1>1. status = "awaiting_payment" /\ UNCHANGED sweep /\ sweep = NoSweep /\ piece = "auction_won"
    BY DEF RetryPayment, inFlight, Clear, OnMarket
  <1>2. /\ bids \in [Bids -> BidRows] /\ HeldActive(bids) /\ \A x \in Bids : OnlyIntent(bids[x])
        /\ winner \in Bids /\ r \in BidRows /\ r.status = "active" /\ n \in Gens
        /\ r.intent \in Gens
    BY RenewedFacts DEF Inv, TypeOK, Sound, Clear, BidRows
  <1>3. CASE SettleOn(B, winner, depth)
    <2>1. /\ B \in [Bids -> BidRows] /\ B[winner] = Renewed
          /\ Renewed.status = "active" /\ Renewed.hold = "held"
          /\ \A x \in Bids \ {winner} : B[x] = bids[x]
      BY <1>2, RenewedFacts
    <2>2. OnlyIntent(Renewed)
      <3> DEFINE v == Reauthorised(r, r.intent, n)
      <3>1. /\ v \in BidRows /\ v.status = "active" /\ OnlyIntent(v)
            /\ Renewed = [v EXCEPT !.hold = "held"]
        BY <1>2, ReauthorisedFacts, ReauthorisedClears DEF Renewed
      <3> HIDE DEF v
      <3>2. Renewed.keys = v.keys /\ Renewed.status = v.status /\ Renewed.intent = v.intent
        BY <3>1, SMT DEF BidRows
      <3> QED
        BY <2>1, <3>1, <3>2 DEF OnlyIntent
    <2> HIDE DEF B
    <2>3. HeldActive(B) /\ winner \in ActiveBids(B) /\ \A x \in Bids : OnlyIntent(B[x])
      BY <1>2, <2>1, <2>2 DEF HeldActive, ActiveBids
    <2> QED
      BY <1>1, <1>3, <2>1, <2>3, SettleOnClear
  <1>4. CASE /\ bids' = [bids EXCEPT ![winner].keys[n] = "refused"]
             /\ UNCHANGED <<status, winner, deadline, depth, piece>>
    <2> DEFINE k == [r.keys EXCEPT ![n] = "refused"]
               refused == [r EXCEPT !.keys = k]
    <2>1. bids' = [bids EXCEPT ![winner] = refused]
      BY <1>4
    <2>2. \A g \in Gens : k[g] = "authorised" => r.status = "active" /\ g = r.intent
      BY <1>2, RefusedClears
    <2> HIDE DEF k
    <2>3. /\ refused.keys = k /\ refused.status = r.status
          /\ refused.intent = r.intent /\ refused.hold = r.hold
      BY <1>2, SMT DEF BidRows
    <2> HIDE DEF refused
    <2>4. OnlyIntent(r) /\ OnlyIntent(refused)
      BY <1>2, <2>2, <2>3 DEF OnlyIntent
    <2>5. \A x \in Bids : OnlyIntent(bids'[x])
      BY <1>2, <2>1, <2>4
    <2> QED
      BY <1>1, <1>4, <2>5 DEF Clear, Ended, Open, Running
  <1> QED
    BY <1>3, <1>4 DEF RetryPayment, Renewed

LEMMA RefreshOneClear ==
  ASSUME Orderly, Inv, Clear, RefreshOne
  PROVE  Clear'
  <1>1. /\ sweep' = NoSweep /\ UNCHANGED <<status, winner, piece>>
        /\ \E b \in Bids : /\ bids[b].hold = "held" /\ bids[b].refreshes < MaxRefresh
                           /\ Refresh(HoldRow(b))
        /\ Open
    BY DEF RefreshOne, auctionVars, pieceVars, Orderly, Clear
  <1>2. PICK b \in Bids : bids[b].hold = "held" /\ bids[b].refreshes < MaxRefresh /\ Refresh(HoldRow(b))
    BY <1>1
  <1> DEFINE r == bids[b]
             n == r.refreshes + 1
             k == [r.keys EXCEPT ![n] = "refused"]
             renewed == Reauthorised(r, r.intent, n)
             refused == [r EXCEPT !.hold = "expired", !.refreshes = n, !.keys = k]
  <1>3. /\ r \in BidRows /\ r.refreshes \in Gens /\ bids \in [Bids -> BidRows]
        /\ r.status = "active" /\ OnlyIntent(r) /\ \A x \in Bids : OnlyIntent(bids[x])
    BY <1>2 DEF Inv, TypeOK, BidRows, Sound, HeldActive, Clear
  <1>4. n \in Gens
    BY <1>2, <1>3, BidsAssumption DEF Gens
  <1>5. HoldRow(b).bid = b /\ HoldRow(b).intent = r.intent /\ HoldRow(b).refreshes = r.refreshes
    BY DEF HoldRow
  <1>6. PICK v \in {renewed, refused} : bids' = [bids EXCEPT ![b] = v]
    <2>1. [r EXCEPT !.hold = "expired", !.refreshes = n, !.keys[n] = "refused"] = refused
      OBVIOUS
    <2>2. "crash" \notin Hazards
      BY DEF Orderly
    <2> QED
      BY <1>2, <1>5, <2>1, <2>2, Zenon DEF Refresh
  <1>7. OnlyIntent(renewed)
    BY <1>3, <1>4, ReauthorisedClears
  <1>8. OnlyIntent(refused)
    <2>1. \A g \in Gens : k[g] = "authorised" => r.status = "active" /\ g = r.intent
      BY <1>3, <1>4, RefusedClears
    <2> HIDE DEF k
    <2>2. /\ refused.keys = k /\ refused.status = r.status
          /\ refused.intent = r.intent /\ refused.hold = "expired"
      BY <1>3, SMT DEF BidRows
    <2> QED
      BY <2>1, <2>2 DEF OnlyIntent
  <1> HIDE DEF renewed, refused
  <1>9. \A x \in Bids : OnlyIntent(bids'[x])
    BY <1>3, <1>6, <1>7, <1>8
  <1>10. ~Ended' /\ Open' = Open
    BY <1>1 DEF Ended, Open, Running
  <1> QED
    BY <1>1, <1>9, <1>10 DEF Clear

LEMMA PlaceBidClear ==
  ASSUME Orderly, Inv, Unsettled, Clear, NEW u \in Bidders, NEW a \in Prices, PlaceBid(u, a)
  PROVE  Clear'
  <1>1. AcceptsBids(LoadedRow(u)) /\ ApplySoftClose(LoadedRow(u)) /\ UNCHANGED <<sweep, piece>>
    BY DEF PlaceBid, pieceVars
  <1>2. status \in Running
    <2>1. CASE "bid_overlap" \notin Hazards
      BY <1>1, <2>1, Zenon DEF AcceptsBids, LoadedRow, Open
    <2>2. CASE "cancel" \notin Hazards
      BY <1>1, <2>2, LoadedRowFacts DEF Unsettled
    <2> QED
      BY <2>1, <2>2 DEF Orderly
  <1>3. ~Ended' /\ piece' = "live"
    BY <1>1, <1>2 DEF ApplySoftClose, Ended, Running, Clear, Open
  <1>4. PICK n \in Bids :
          bids' = [x \in Bids |-> IF x = n THEN PlacedBid(u, a)
                                  ELSE IF IsPreviousHold(x, u) THEN Void(bids[x], "outbid")
                                  ELSE bids[x]]
    BY DEF PlaceBid
  <1>5. OnlyIntent(PlacedBid(u, a))
    BY PlacedBidFacts, PlacedBidKeys DEF OnlyIntent
  <1>6. ASSUME NEW x \in Bids PROVE OnlyIntent(bids'[x])
    <2>1. IsPreviousHold(x, u) => bids[x].status = "active"
      BY DEF IsPreviousHold, LiveHolds, Inv, Sound, HeldActive
    <2>2. bids[x] \in BidRows /\ OnlyIntent(bids[x]) /\ "outbid" \in BidStatuses \ {"active"}
      BY DEF Inv, TypeOK, Clear, BidStatuses
    <2>3. IsPreviousHold(x, u) => OnlyIntent(Void(bids[x], "outbid"))
      BY <2>1, <2>2, VoidClears
    <2> QED
      BY <1>4, <1>5, <2>2, <2>3
  <1> QED
    BY <1>1, <1>3, <1>6 DEF Clear

LEMMA CancelAuctionClear ==
  ASSUME Careful, Inv, Clear, CancelAuction
  PROVE  Clear'
  <1>1. UNCHANGED sweep /\ sweep = NoSweep
    BY DEF CancelAuction, inFlight, Clear
  <1>2. bids \in [Bids -> BidRows] /\ HeldActive(bids) /\ \A x \in Bids : OnlyIntent(bids[x])
    BY DEF Inv, TypeOK, Sound, Clear
  <1>3. Conclude(TRUE, VoidActive(bids, "cancelled"), "cancelled", winner, deadline, depth,
                 IF piece = "live" THEN "delisted" ELSE piece)
    BY DEF CancelAuction
  <1> QED
    BY <1>1, <1>2, <1>3, VoidedClear DEF Running

LEMMA StepClear == Orderly /\ Inv /\ Funded /\ Unsettled /\ Clear /\ [Next]_vars => Clear'
  <1> SUFFICES ASSUME Orderly, Inv, Funded, Unsettled, Clear, [Next]_vars
               PROVE  Clear'
    OBVIOUS
  <1>1. Careful /\ OnMarket
    BY DEF Orderly, Careful, Funded
  <1>2. CASE UNCHANGED <<bids, status, piece, sweep>>
    BY <1>2 DEF Clear, Ended, Open
  <1>3. CASE \E u \in Bidders, a \in Prices : PlaceBid(u, a)
    BY <1>3, PlaceBidClear
  <1>4. CASE CloseOne
    BY <1>1, <1>4, CloseOneClear
  <1>5. CASE ExpireOne
    BY <1>1, <1>5, ExpireOneClear
  <1>6. CASE RetryPayment
    BY <1>1, <1>6, RetryPaymentClear
  <1>7. CASE RefreshOne
    BY <1>7, RefreshOneClear
  <1>8. CASE CancelAuction
    BY <1>1, <1>8, CancelAuctionClear
  <1>9. CASE \/ Tick
             \/ \E u \in Bidders : ReadAuction(u)
             \/ \E k \in 1 .. MaxExtend : Extend(k)
             \/ UNCHANGED vars
    <2>1. UNCHANGED <<bids, status, piece, sweep>>
      BY <1>9 DEF Tick, ReadAuction, Extend, vars, auctionVars, pieceVars, inFlight
    <2> QED
      BY <1>2, <2>1
  <1>10. /\ ~\E u \in Bidders, a \in Prices : PlaceBidCrashes(u, a)
         /\ ~(EditTerms \/ \E s \in PieceStatuses : EditStatus(s))
         /\ ~\E b \in Bids : ReadDueHold(b)
    BY DEF Orderly, PlaceBidCrashes, EditTerms, EditStatus, ReadDueHold
  <1> QED
    BY <1>3, <1>4, <1>5, <1>6, <1>7, <1>8, <1>9, <1>10 DEF Next

LEMMA InitClear == Init => Clear
  <1>1. NoBidRow.status = "none" /\ NoBidRow.keys = [g \in Gens |-> "unused"]
    BY Zenon DEF NoBidRow
  <1> QED
    BY <1>1 DEF Init, Clear, OnlyIntent, Ended, ActiveBids

-----------------------------------------------------------------------------
(* Who has been charged, and that the sale does not move past them. *)

\* Stripe knows key k of this row as s.
Has(r, s) == \E g \in Gens : r.keys[g] = s

\* The same charges have been made for q as for r.
SameCharges(r, q) ==
  \A g \in Gens, s \in {"captured", "torn"} : q.keys[g] = s <=> r.keys[g] = s

\* A row's standing charge is its only one, it is booked, and the bid has won.
Accounted(r) ==
  /\ \A g, h \in Gens : r.keys[g] = "captured" /\ r.keys[h] = "captured" => g = h
  /\ Has(r, "captured") <=> r.booked
  /\ Has(r, "captured") => r.status = "won"

\* Bid b is the next to be settled on, once its time has come.
InLine(B, s, w, b) ==
  \/ s \in Running /\ closesAt <= now /\ \A x \in ActiveBids(B) : x <= b
  \/ s = "awaiting_payment" /\ (b = w \/ \A x \in ActiveBids(B) \ {w} : x <= b)

TornInLine(B, s, w) == \A b \in ActiveBids(B) : Has(B[b], "torn") => InLine(B, s, w, b)

Charged(B, s, w) ==
  /\ \A b \in Bids : Accounted(B[b])
  /\ TornInLine(B, s, w)

LEMMA ReleaseCharges ==
  ASSUME NEW r \in BidRows
  PROVE  SameCharges(r, Release(r))
  <1> DEFINE k == CancelIntent(r.keys, r.intent)
  <1>1. r.keys \in [Gens -> KeyStatuses] /\ r.intent \in Gens
    BY DEF BidRows
  <1>2. \A g \in Gens, s \in {"captured", "torn"} : k[g] = s <=> r.keys[g] = s
    BY <1>1 DEF CancelIntent
  <1>3. Release(r) = r \/ Release(r) = [r EXCEPT !.hold = "released", !.keys = k]
    BY DEF Release
  <1> HIDE DEF k
  <1>4. [r EXCEPT !.hold = "released", !.keys = k].keys = k
    BY SMT DEF BidRows
  <1>5. Release(r).keys = r.keys \/ Release(r).keys = k
    BY <1>3, <1>4
  <1> QED
    BY <1>2, <1>5 DEF SameCharges

\* No money moves when a bid is voided, ...
LEMMA VoidCharges ==
  ASSUME NEW r \in BidRows, NEW s
  PROVE  SameCharges(r, Void(r, s))
  <1>1. Release(r) \in BidRows /\ SameCharges(r, Release(r))
    BY ReleaseFacts, ReleaseCharges
  <1>2. Void(r, s) = [Release(r) EXCEPT !.status = s]
    BY DEF Void
  <1>3. Void(r, s).keys = Release(r).keys
    BY <1>1, <1>2, SMT DEF BidRows
  <1> QED
    BY <1>1, <1>3 DEF SameCharges

\* ... when a capture is declined, ...
LEMMA DeclinedCharges ==
  ASSUME NEW r \in BidRows
  PROVE  SameCharges(r, Declined(r))
  <1>1. Declined(r).keys = r.keys
    BY SMT DEF Declined, BidRows
  <1> QED
    BY <1>1 DEF SameCharges

\* ... and when another card is authorised.
LEMMA ReauthorisedCharges ==
  ASSUME NEW r \in BidRows, NEW i \in Gens, NEW n \in Gens
  PROVE  SameCharges(r, Reauthorised(r, i, n))
  BY ReauthorisedKeys DEF SameCharges

\* A section that died leaves no charge behind that stands.
LEMMA StripeOnlyKeys ==
  ASSUME NEW r \in BidRows, NEW after \in BidRows
  PROVE  \A g \in Gens : StripeOnly(r, after).keys[g] =
           IF after.keys[g] = "captured" /\ r.keys[g] # "captured" THEN "torn" ELSE after.keys[g]
  <1> DEFINE k == [g \in Gens |->
               IF after.keys[g] = "captured" /\ r.keys[g] # "captured" THEN "torn"
               ELSE after.keys[g]]
  <1>1. StripeOnly(r, after) = [r EXCEPT !.keys = k]
    BY DEF StripeOnly
  <1> HIDE DEF k
  <1>2. StripeOnly(r, after).keys = k
    BY <1>1, SMT DEF BidRows
  <1> QED
    BY <1>2 DEF k

LEMMA StripeOnlyCharges ==
  ASSUME NEW r \in BidRows, NEW after \in BidRows, SameCharges(r, after)
  PROVE  SameCharges(r, StripeOnly(r, after))
  BY StripeOnlyKeys DEF SameCharges

\* A capture adds the one charge that stands; one that dies adds none.
LEMMA CapturedCharges ==
  ASSUME NEW r \in BidRows, NEW q \in BidRows, SameCharges(r, q), ~Has(r, "captured"),
         NEW z \in BidRows, z.keys = Captured(q).keys
  PROVE  /\ \A g, h \in Gens : z.keys[g] = "captured" /\ z.keys[h] = "captured" => g = h
         /\ Has(z, "captured")
         /\ ~Has(StripeOnly(r, z), "captured")
  <1> DEFINE k == [q.keys EXCEPT ![q.intent] = "captured"]
  <1>1. q.intent \in Gens /\ q.keys \in [Gens -> KeyStatuses]
    BY DEF BidRows
  <1>2. \A g \in Gens : k[g] = IF g = q.intent THEN "captured" ELSE q.keys[g]
    BY <1>1
  <1>3. Captured(q) = [q EXCEPT !.hold = "captured", !.booked = TRUE, !.status = "won", !.keys = k]
    BY DEF Captured
  <1> HIDE DEF k
  <1>4. z.keys = k
    <2>1. Captured(q).keys = k
      BY <1>3, SMT DEF BidRows
    <2> QED
      BY <2>1
  <1>5. \A g \in Gens : z.keys[g] = "captured" <=> g = q.intent
    BY <1>2, <1>4 DEF SameCharges, Has
  <1>6. ~Has(StripeOnly(r, z), "captured")
    BY <1>5, StripeOnlyKeys DEF Has
  <1> QED
    BY <1>1, <1>5, <1>6 DEF Has

\* A row is accounted for as before when neither its charges nor its booking change,
\* and it had not won or keeps its status.
LEMMA SameAccounted ==
  ASSUME NEW r, NEW q, Accounted(r), SameCharges(r, q), q.booked = r.booked,
         q.status = r.status \/ ~r.booked
  PROVE  Accounted(q)
  BY DEF Accounted, SameCharges, Has

\* What a section starts from: rows with the charges of the database's, no booking, and
\* no bid in the running that was not.
Uncharged(B) ==
  /\ B \in [Bids -> BidRows]
  /\ HeldActive(B)
  /\ \A b \in Bids : SameCharges(bids[b], B[b]) /\ B[b].booked = bids[b].booked
  /\ ActiveBids(B) \subseteq ActiveBids(bids)

\* A section ends with its rows, or with what it has done at Stripe.
LEMMA ConcludeCharged ==
  ASSUME Inv,
         NEW ok, NEW after \in [Bids -> BidRows], NEW s, NEW w, NEW dl, NEW d, NEW p,
         Charged(after, s, w),
         Charged([b \in Bids |-> StripeOnly(bids[b], after[b])], status, winner),
         Conclude(ok, after, s, w, dl, d, p)
  PROVE  Charged(bids', status', winner')
  BY DEF Conclude

\* Rows with the same charges, bookings and statuses.
LEMMA AlikeCharged ==
  ASSUME Charged(bids, status, winner), NEW B,
         \A b \in Bids : /\ SameCharges(bids[b], B[b])
                         /\ B[b].status = bids[b].status
                         /\ B[b].booked = bids[b].booked
  PROVE  Charged(B, status, winner)
  <1>1. \A b \in Bids : Accounted(B[b])
    BY SameAccounted DEF Charged
  <1>2. ActiveBids(B) = ActiveBids(bids)
    BY DEF ActiveBids
  <1>3. \A b \in Bids : Has(B[b], "torn") <=> Has(bids[b], "torn")
    BY DEF SameCharges, Has
  <1>4. ASSUME NEW b \in ActiveBids(B), Has(B[b], "torn") PROVE InLine(B, status, winner, b)
    <2>1. InLine(bids, status, winner, b)
      BY <1>2, <1>3, <1>4 DEF Charged, TornInLine, ActiveBids
    <2> QED
      BY <1>2, <2>1 DEF InLine
  <1> QED
    BY <1>1, <1>4 DEF Charged, TornInLine

\* What a section that charges nobody and dies leaves behind.
LEMMA NothingTorn ==
  ASSUME Inv, Charged(bids, status, winner), NEW after \in [Bids -> BidRows],
         \A b \in Bids : SameCharges(bids[b], after[b])
  PROVE  Charged([b \in Bids |-> StripeOnly(bids[b], after[b])], status, winner)
  <1>1. \A b \in Bids : /\ SameCharges(bids[b], StripeOnly(bids[b], after[b]))
                        /\ StripeOnly(bids[b], after[b]).status = bids[b].status
                        /\ StripeOnly(bids[b], after[b]).booked = bids[b].booked
    BY StripeOnlyCharges, StripeOnlyFacts DEF Inv, TypeOK
  <1> QED
    BY <1>1, AlikeCharged

\* Voiding what is left: no bid in the running, no charge that stands.
LEMMA VoidedCharged ==
  ASSUME Inv, Charged(bids, status, winner), NobodyBooked(bids), NEW B, Uncharged(B),
         NEW v \in BidStatuses \ {"active"}, NEW s, NEW w, NEW ok, NEW dl, NEW d, NEW p,
         Conclude(ok, VoidActive(B, v), s, w, dl, d, p)
  PROVE  Charged(bids', status', winner')
  <1> DEFINE after == VoidActive(B, v)
  <1>1. /\ after \in [Bids -> BidRows]
        /\ \A b \in Bids : after[b].status # "active" /\ after[b].booked = B[b].booked
    BY VoidActiveFacts DEF Uncharged
  <1>2. \A b \in Bids : SameCharges(bids[b], after[b])
    <2>1. \A b \in Bids : after[b] = B[b] \/ after[b] = Void(B[b], v)
      BY DEF VoidActive
    <2>2. \A b \in Bids : SameCharges(B[b], Void(B[b], v)) /\ SameCharges(bids[b], B[b])
      BY VoidCharges DEF Uncharged
    <2> HIDE DEF after
    <2> QED
      BY <2>1, <2>2 DEF SameCharges
  <1>3. Conclude(ok, after, s, w, dl, d, p)
    OBVIOUS
  <1> HIDE DEF after
  <1>4. \A b \in Bids : Accounted(after[b])
    BY <1>1, <1>2, SameAccounted DEF Charged, NobodyBooked, Uncharged
  <1>5. Charged(after, s, w)
    BY <1>1, <1>4 DEF Charged, TornInLine, ActiveBids
  <1> QED
    BY <1>1, <1>2, <1>3, <1>5, NothingTorn, ConcludeCharged

\* settle_on: a bid that is the next in line is charged or asked for another card.
LEMMA SettleOnCharged ==
  ASSUME Inv, Charged(bids, status, winner), NobodyBooked(bids), NEW B, Uncharged(B),
         NEW b \in ActiveBids(B), InLine(bids, status, winner, b),
         \A x \in ActiveBids(B) : Has(B[x], "torn") =>
            x = b \/ \A y \in ActiveBids(B) \ {b} : y <= x,
         NEW d, SettleOn(B, b, d)
  PROVE  Charged(bids', status', winner')
  <1>1. b \in Bids /\ B \in [Bids -> BidRows] /\ bids \in [Bids -> BidRows]
    BY DEF ActiveBids, Uncharged, Inv, TypeOK
  <1>2. CASE Settle(B, b, d)
    <2> DEFINE C == [B EXCEPT ![b] = Captured(B[b])]
               after == VoidActive(C, "lost")
               kept == [x \in Bids |-> StripeOnly(bids[x], after[x])]
    <2>1. /\ Captured(B[b]) \in BidRows /\ Captured(B[b]).hold = "captured"
          /\ Captured(B[b]).status = "won" /\ Captured(B[b]).booked
      BY <1>1, CapturedFacts
    <2>2. C \in [Bids -> BidRows] /\ C[b] = Captured(B[b]) /\ \A x \in Bids \ {b} : C[x] = B[x]
      BY <1>1, <2>1
    <2> HIDE DEF C
    <2>3. HeldActive(C)
      BY <2>1, <2>2 DEF HeldActive, Uncharged
    <2>4. /\ after \in [Bids -> BidRows]
          /\ \A x \in Bids : /\ after[x].status # "active"
                             /\ after[x].booked = C[x].booked
                             /\ C[x].status # "active" => after[x] = C[x]
      BY <2>2, <2>3, VoidActiveFacts, "lost" \in BidStatuses \ {"active"} DEF BidStatuses
    <2>5. \A x \in Bids : after[x] = C[x] \/ after[x] = Void(C[x], "lost")
      BY DEF VoidActive
    <2>6. Conclude(PieceMovable, after, "awaiting_winner", b, 0, d, "auction_won")
      BY <1>2 DEF Settle, C
    <2> HIDE DEF after
    <2>7. \A x \in Bids \ {b} : SameCharges(bids[x], after[x])
      <3>1. \A x \in Bids : SameCharges(C[x], Void(C[x], "lost"))
        BY <2>2, VoidCharges
      <3>2. \A x \in Bids \ {b} : SameCharges(bids[x], C[x])
        BY <2>2 DEF Uncharged
      <3> QED
        BY <2>5, <3>1, <3>2 DEF SameCharges
    <2>8. /\ \A g, h \in Gens : after[b].keys[g] = "captured" /\ after[b].keys[h] = "captured"
                                  => g = h
          /\ Has(after[b], "captured")
          /\ ~Has(StripeOnly(bids[b], after[b]), "captured")
      <3>1. after[b] = Captured(B[b]) /\ bids[b] \in BidRows /\ B[b] \in BidRows
            /\ after[b] \in BidRows /\ SameCharges(bids[b], B[b])
        BY <1>1, <2>1, <2>2, <2>4 DEF Uncharged
      <3>2. ~Has(bids[b], "captured")
        BY <1>1 DEF Charged, Accounted, NobodyBooked
      <3>3. after[b].keys = Captured(B[b]).keys
        BY <3>1
      <3> QED
        BY <3>1, <3>2, <3>3, CapturedCharges
    <2>9. Charged(after, "awaiting_winner", b)
      <3>1. after[b].booked /\ after[b].status = "won"
        BY <1>1, <2>1, <2>2, <2>4
      <3>2. Accounted(after[b])
        BY <2>8, <3>1 DEF Accounted
      <3>3. \A x \in Bids \ {b} : after[x].booked = bids[x].booked
        BY <2>2, <2>4 DEF Uncharged
      <3>4. \A x \in Bids \ {b} : Accounted(after[x])
        BY <2>7, <3>3, SameAccounted DEF Charged, NobodyBooked
      <3> QED
        BY <2>4, <3>2, <3>4 DEF Charged, TornInLine, ActiveBids
    <2>10. \A x \in Bids : /\ kept[x].status = bids[x].status
                           /\ kept[x].booked = bids[x].booked
      BY <1>1, <2>4, StripeOnlyFacts
    <2>11. \A x \in Bids \ {b} : SameCharges(bids[x], kept[x])
      BY <1>1, <2>4, <2>7, StripeOnlyCharges
    <2>12. ~Has(kept[b], "captured")
      BY <1>1, <2>8
    <2> HIDE DEF kept
    <2>13. \A x \in Bids : Accounted(kept[x])
      <3>1. Accounted(kept[b])
        BY <1>1, <2>10, <2>12 DEF Accounted, Has, NobodyBooked
      <3>2. \A x \in Bids \ {b} : Accounted(kept[x])
        BY <2>10, <2>11, SameAccounted DEF Charged
      <3> QED
        BY <3>1, <3>2
    <2>14. ActiveBids(kept) = ActiveBids(bids)
      BY <2>10 DEF ActiveBids
    <2>15. ASSUME NEW x \in ActiveBids(kept), Has(kept[x], "torn")
           PROVE  InLine(kept, status, winner, x)
      <3>1. InLine(bids, status, winner, x)
        <4>1. CASE x = b
          BY <4>1
        <4>2. CASE x # b
          <5>1. x \in Bids \ {b} /\ x \in ActiveBids(bids)
            BY <2>14, <2>15, <4>2 DEF ActiveBids
          <5>2. Has(bids[x], "torn")
            BY <2>11, <2>15, <5>1 DEF SameCharges, Has
          <5> QED
            BY <5>1, <5>2 DEF Charged, TornInLine
        <4> QED
          BY <4>1, <4>2
      <3> QED
        BY <2>14, <3>1 DEF InLine
    <2>16. Charged(kept, status, winner)
      BY <2>13, <2>15 DEF Charged, TornInLine
    <2> QED
      BY <2>4, <2>6, <2>9, <2>16, ConcludeCharged DEF kept
  <1>3. CASE Park(B, b, d)
    <2> DEFINE after == [B EXCEPT ![b] = Declined(B[b])]
    <2>1. /\ Declined(B[b]) \in BidRows /\ Declined(B[b]).status = B[b].status
          /\ Declined(B[b]).booked = B[b].booked /\ SameCharges(B[b], Declined(B[b]))
      BY <1>1, DeclinedFacts, DeclinedCharges
    <2>2. /\ after \in [Bids -> BidRows]
          /\ after[b] = Declined(B[b]) /\ \A x \in Bids \ {b} : after[x] = B[x]
      BY <1>1, <2>1
    <2>3. Conclude(PieceMovable, after, "awaiting_payment", b, now + RetryWindow, d, "auction_won")
      BY <1>3 DEF Park
    <2> HIDE DEF after
    <2>4. \A x \in Bids : /\ SameCharges(B[x], after[x])
                          /\ after[x].status = B[x].status /\ after[x].booked = B[x].booked
      BY <2>1, <2>2 DEF SameCharges
    <2>5. \A x \in Bids : SameCharges(bids[x], after[x])
      BY <2>4 DEF Uncharged, SameCharges
    <2>6. \A x \in Bids : Accounted(after[x])
      BY <2>4, <2>5, SameAccounted DEF Charged, NobodyBooked, Uncharged
    <2>7. ActiveBids(after) = ActiveBids(B)
      BY <2>4 DEF ActiveBids
    <2>8. \A x \in ActiveBids(after) : Has(after[x], "torn") => Has(B[x], "torn")
      BY <2>4 DEF ActiveBids, SameCharges, Has
    <2>9. TornInLine(after, "awaiting_payment", b)
      BY <2>7, <2>8 DEF TornInLine, InLine
    <2> QED
      BY <2>2, <2>3, <2>5, <2>6, <2>9, NothingTorn, ConcludeCharged DEF Charged
  <1> QED
    BY <1>2, <1>3 DEF SettleOn

\* The rows of the database are what a section starts from while nobody is booked.
LEMMA RowsUncharged ==
  ASSUME Inv, status # "awaiting_winner"
  PROVE  Uncharged(bids) /\ NobodyBooked(bids)
  <1>1. bids \in [Bids -> BidRows] /\ HeldActive(bids) /\ NobodyBooked(bids)
    BY DEF Inv, TypeOK, Sound
  <1> QED
    BY <1>1 DEF Uncharged, NobodyBooked, SameCharges

LEMMA CloseOneCharged ==
  ASSUME Inv, Rank, Charged(bids, status, winner), CloseOne
  PROVE  Charged(bids', status', winner')
  <1>1. status \in Running /\ status # "awaiting_winner" /\ closesAt <= now
    BY DEF CloseOne, DueToClose, Open, Running
  <1>2. Uncharged(bids) /\ NobodyBooked(bids) /\ TypeOK /\ Fewer(bids)
    BY <1>1, RowsUncharged DEF Inv, TypeOK, Fewer
  <1>3. ASSUME NEW s, CloseWithoutSale(s) PROVE Charged(bids', status', winner')
    BY <1>2, <1>3, VoidedCharged, "cancelled" \in BidStatuses \ {"active"}
      DEF CloseWithoutSale, BidStatuses
  <1>4. ASSUME NEW b \in Highest(bids), SettleOn(bids, b, depth)
        PROVE  Charged(bids', status', winner')
    <2>1. b \in ActiveBids(bids) /\ \A x \in ActiveBids(bids) : x <= b
      BY <1>2, HighestIsLatest DEF Rank
    <2>2. InLine(bids, status, winner, b)
      BY <1>1, <2>1 DEF InLine
    <2>3. ASSUME NEW x \in ActiveBids(bids), Has(bids[x], "torn")
          PROVE  \A y \in ActiveBids(bids) \ {b} : y <= x
      BY <1>1, <2>3 DEF Charged, TornInLine, InLine, Running
    <2> QED
      BY <1>2, <1>4, <2>1, <2>2, <2>3, SettleOnCharged
  <1> QED
    BY <1>3, <1>4 DEF CloseOne

LEMMA ExpireOneCharged ==
  ASSUME Inv, Rank, Charged(bids, status, winner), ExpireOne
  PROVE  Charged(bids', status', winner')
  <1> DEFINE B == Forfeit(bids, winner)
             d == depth + 1
  <1>1. status = "awaiting_payment" /\ Cascade(B, d)
    BY DEF ExpireOne
  <1>2. /\ TypeOK /\ bids \in [Bids -> BidRows] /\ HeldActive(bids)
        /\ winner \in Bids /\ NobodyBooked(bids)
    BY <1>1 DEF Inv, TypeOK, Sound, OfferedTo
  <1>3. /\ B \in [Bids -> BidRows]
        /\ B[winner] = Void(bids[winner], "forfeited")
        /\ B[winner].hold # "held" /\ B[winner].status = "forfeited"
        /\ B[winner].booked = bids[winner].booked
        /\ B[winner].amount = bids[winner].amount
        /\ \A x \in Bids \ {winner} : B[x] = bids[x]
    BY <1>2, ForfeitRows
  <1> HIDE DEF B, d
  <1>4. /\ ActiveBids(B) \subseteq ActiveBids(bids) \ {winner}
        /\ ActiveBids(bids) \ {winner} \subseteq ActiveBids(B)
    BY <1>3 DEF ActiveBids
  <1>5. bids[winner].status = "active"
    BY <1>1 DEF Inv, Sound, OfferedTo
  <1>6. Fewer(B)
    BY <1>3, <1>4, <1>5 DEF Fewer
  <1>7. Uncharged(B)
    <2>1. SameCharges(bids[winner], B[winner])
      BY <1>2, <1>3, VoidCharges
    <2>2. \A x \in Bids : SameCharges(bids[x], B[x]) /\ B[x].booked = bids[x].booked
      BY <1>2, <1>3, <2>1 DEF SameCharges
    <2>3. HeldActive(B)
      BY <1>2, <1>3 DEF HeldActive
    <2> QED
      BY <1>3, <1>4, <2>2, <2>3 DEF Uncharged
  <1>8. ASSUME GiveUp(B, d) PROVE Charged(bids', status', winner')
    BY <1>2, <1>7, <1>8, VoidedCharged, "cancelled" \in BidStatuses \ {"active"}
      DEF GiveUp, BidStatuses
  <1>9. ASSUME NEW b \in Highest(B), SettleOn(B, b, d) PROVE Charged(bids', status', winner')
    <2>1. b \in ActiveBids(B) /\ \A x \in ActiveBids(B) : x <= b
      BY <1>2, <1>6, HighestIsLatest DEF Rank
    <2>2. InLine(bids, status, winner, b)
      BY <1>1, <1>4, <2>1 DEF InLine
    <2>3. ASSUME NEW x \in ActiveBids(B), Has(B[x], "torn")
          PROVE  \A y \in ActiveBids(B) \ {b} : y <= x
      <3>1. x \in ActiveBids(bids) /\ x # winner /\ B[x] = bids[x]
        BY <1>3, <1>4 DEF ActiveBids
      <3>2. InLine(bids, status, winner, x)
        BY <2>3, <3>1 DEF Charged, TornInLine
      <3> QED
        BY <1>1, <1>4, <3>1, <3>2 DEF InLine, Running
    <2> QED
      BY <1>2, <1>7, <1>9, <2>1, <2>2, <2>3, SettleOnCharged
  <1> QED
    BY <1>1, <1>8, <1>9 DEF Cascade

LEMMA RetryPaymentCharged ==
  ASSUME Inv, Charged(bids, status, winner), RetryPayment
  PROVE  Charged(bids', status', winner')
  <1> DEFINE B == [bids EXCEPT ![winner] = Renewed]
             r == bids[winner]
             n == r.refreshes + 1
  <1>1. status = "awaiting_payment"
    BY DEF RetryPayment
  <1>2. Uncharged(bids) /\ NobodyBooked(bids) /\ bids \in [Bids -> BidRows]
    BY <1>1, RowsUncharged DEF Inv, TypeOK
  <1>3. winner \in Bids /\ r.status = "active" /\ n \in Gens /\ r \in BidRows /\ r.intent \in Gens
    BY <1>2, RenewedFacts DEF BidRows
  <1>4. CASE SettleOn(B, winner, depth)
    <2>1. /\ B \in [Bids -> BidRows] /\ B[winner] = Renewed
          /\ Renewed.status = "active" /\ Renewed.booked = r.booked
          /\ \A x \in Bids \ {winner} : B[x] = bids[x]
      BY <1>2, RenewedFacts
    <2>2. SameCharges(r, Renewed)
      <3>1. Reauthorised(r, r.intent, n) \in BidRows
            /\ SameCharges(r, Reauthorised(r, r.intent, n))
        BY <1>3, ReauthorisedFacts, ReauthorisedCharges
      <3>2. Renewed = [Reauthorised(r, r.intent, n) EXCEPT !.hold = "held"]
        BY DEF Renewed
      <3> HIDE DEF r, n
      <3>3. Renewed.keys = Reauthorised(r, r.intent, n).keys
        BY <3>1, <3>2, SMT DEF BidRows
      <3> QED
        BY <3>1, <3>3 DEF SameCharges
    <2> HIDE DEF B
    <2>3. ActiveBids(B) = ActiveBids(bids) /\ winner \in ActiveBids(B)
      BY <1>3, <2>1 DEF ActiveBids
    <2>4. Uncharged(B)
      BY <1>2, <2>1, <2>2, <2>3 DEF Uncharged, HeldActive
    <2>5. InLine(bids, status, winner, winner)
      BY <1>1 DEF InLine
    <2>6. ASSUME NEW x \in ActiveBids(B), Has(B[x], "torn"), x # winner
          PROVE  \A y \in ActiveBids(B) \ {winner} : y <= x
      <3>1. x \in ActiveBids(bids) /\ B[x] = bids[x]
        BY <2>1, <2>3, <2>6 DEF ActiveBids
      <3>2. InLine(bids, status, winner, x)
        BY <2>6, <3>1 DEF Charged, TornInLine
      <3> QED
        BY <1>1, <2>3, <2>6, <3>2 DEF InLine, Running
    <2> QED
      BY <1>2, <1>4, <2>3, <2>4, <2>5, <2>6, SettleOnCharged
  <1>5. CASE /\ r.keys[n] = "unused"
             /\ bids' = [bids EXCEPT ![winner].keys[n] = "refused"]
             /\ UNCHANGED <<status, winner, deadline, depth, piece>>
    <2>1. \A b \in Bids : bids'[b].booked = bids[b].booked /\ bids'[b].status = bids[b].status
      BY <1>5, RefusedRows
    <2>2. \A b \in Bids : SameCharges(bids[b], bids'[b])
      <3> DEFINE k == [r.keys EXCEPT ![n] = "refused"]
      <3>1. bids' = [bids EXCEPT ![winner] = [r EXCEPT !.keys = k]]
        BY <1>5
      <3>2. \A g \in Gens : k[g] = IF g = n THEN "refused" ELSE r.keys[g]
        BY <1>3 DEF BidRows
      <3> HIDE DEF k
      <3>3. [r EXCEPT !.keys = k].keys = k
        BY <1>3, SMT DEF BidRows
      <3>4. SameCharges(r, [r EXCEPT !.keys = k])
        BY <1>5, <3>2, <3>3 DEF SameCharges
      <3> QED
        BY <1>2, <1>3, <3>1, <3>4 DEF SameCharges
    <2> QED
      BY <1>5, <2>1, <2>2, AlikeCharged
  <1> QED
    BY <1>4, <1>5 DEF RetryPayment, Renewed

LEMMA RefreshOneCharged ==
  ASSUME Inv, Charged(bids, status, winner), RefreshOne
  PROVE  Charged(bids', status', winner')
  <1>1. PICK row \in Sweeps : row.bid \in Bids /\ row.refreshes < MaxRefresh /\ Refresh(row)
    BY RefreshOneRow
  <1> DEFINE b == row.bid
             n == row.refreshes + 1
             r == bids[b]
             renewed == Reauthorised(r, row.intent, n)
             k == [r.keys EXCEPT ![n] = "refused"]
             refused == [r EXCEPT !.hold = "expired", !.refreshes = n, !.keys = k]
  <1>2. /\ b \in Bids /\ bids \in [Bids -> BidRows] /\ r \in BidRows
        /\ row.intent \in Gens /\ row.refreshes \in Gens
    BY <1>1 DEF Inv, TypeOK, Sweeps
  <1>3. n \in Gens
    BY <1>1, <1>2, BidsAssumption, SMT DEF Gens
  <1>4. \A x \in Bids : bids'[x].booked = bids[x].booked /\ bids'[x].status = bids[x].status
    BY <1>1, RefreshRows
  <1>5. /\ renewed \in BidRows /\ SameCharges(r, renewed)
        /\ SameCharges(r, StripeOnly(r, renewed))
    <2> HIDE DEF b, n, r
    <2> QED
      BY <1>2, <1>3, ReauthorisedFacts, ReauthorisedCharges, StripeOnlyCharges
  <1>6. r.keys[n] \in {"unused", "refused"} => SameCharges(r, refused)
    <2>1. \A g \in Gens : k[g] = IF g = n THEN "refused" ELSE r.keys[g]
      BY <1>2, <1>3 DEF BidRows
    <2> HIDE DEF k, r, n
    <2>2. refused.keys = k
      BY <1>2, SMT DEF BidRows
    <2> QED
      BY <1>3, <2>1, <2>2 DEF SameCharges
  <1>7. PICK v : bids' = [bids EXCEPT ![b] = v] /\ SameCharges(r, v)
    <2>1. CASE bids' = [bids EXCEPT ![b] = renewed]
      BY <1>5, <2>1
    <2>2. CASE bids' = [bids EXCEPT ![b] = StripeOnly(r, renewed)]
      BY <1>5, <2>2
    <2>3. CASE r.keys[n] \in {"unused", "refused"} /\ bids' = [bids EXCEPT ![b] = refused]
      BY <1>6, <2>3
    <2>4. \/ bids' = [bids EXCEPT ![b] = renewed]
          \/ bids' = [bids EXCEPT ![b] = StripeOnly(r, renewed)]
          \/ r.keys[n] \in {"unused", "refused"} /\ bids' = [bids EXCEPT ![b] = refused]
      BY <1>1, Zenon DEF Refresh
    <2> HIDE DEF b, n, r, renewed, refused
    <2> QED
      BY <2>1, <2>2, <2>3, <2>4
  <1>8. \A x \in Bids : SameCharges(bids[x], bids'[x])
    BY <1>2, <1>7 DEF SameCharges
  <1>9. UNCHANGED <<status, winner>>
    BY DEF RefreshOne, auctionVars
  <1> QED
    BY <1>4, <1>8, <1>9, AlikeCharged

\* No bid is accepted while a charge waits to be taken up: its auction is past its close.
LEMMA PlaceBidCharged ==
  ASSUME Inv, Charged(bids, status, winner), NEW u \in Bidders, NEW a \in Prices,
         AcceptsBids(LoadedRow(u)), status' \in Running \cup {"cancelled"},
         NEW n \in Bids, bids[n].status = "none",
         bids'[n].keys = PlacedBid(u, a).keys, ~bids'[n].booked,
         \A x \in Bids \ {n} : /\ SameCharges(bids[x], bids'[x])
                               /\ bids'[x].booked = bids[x].booked
                               /\ bids'[x].status = "active" => bids[x].status = "active"
  PROVE  /\ \A b \in Bids : Accounted(bids'[b])
         /\ \A b \in ActiveBids(bids') : ~Has(bids'[b], "torn")
  <1>1. status \in Running \cup {"cancelled"} /\ now < closesAt
    BY LoadedRowFacts
  <1>2. NobodyBooked(bids)
    BY <1>1, RowsUncharged DEF Running
  <1>3. ~Has(bids'[n], "captured") /\ ~Has(bids'[n], "torn")
    BY PlacedBidKeys DEF Has
  <1>4. Accounted(bids'[n])
    BY <1>3 DEF Accounted, Has
  <1>5. \A x \in Bids \ {n} : Accounted(bids'[x])
    BY <1>2, SameAccounted DEF Charged, NobodyBooked
  <1>6. \A b \in ActiveBids(bids) : ~Has(bids[b], "torn")
    BY <1>1 DEF Charged, TornInLine, InLine, Running, Inv, TypeOK
  <1>7. ASSUME NEW x \in ActiveBids(bids'), Has(bids'[x], "torn") PROVE FALSE
    <2>1. x \in Bids \ {n}
      BY <1>3, <1>7 DEF ActiveBids
    <2>2. x \in ActiveBids(bids) /\ Has(bids[x], "torn")
      BY <1>7, <2>1 DEF ActiveBids, SameCharges, Has
    <2> QED
      BY <1>6, <2>2
  <1> QED
    BY <1>4, <1>5, <1>7

\* The charges, in the state the auction is in.
Charge == Charged(bids, status, winner)

LEMMA StepCharged == Inv /\ Rank /\ Charge /\ [Next]_vars => Charge'
  <1> SUFFICES ASSUME Inv, Rank, Charge, [Next]_vars PROVE Charge'
    OBVIOUS
  <1>0. Charged(bids, status, winner)
    BY DEF Charge
  <1>1. ASSUME Charged(bids', status', winner'), UNCHANGED <<now, closesAt>> PROVE Charge'
    BY <1>1 DEF Charge, Charged, TornInLine, InLine
  <1>2. ASSUME \A b \in Bids : Accounted(bids'[b]),
               \A b \in ActiveBids(bids') : ~Has(bids'[b], "torn")
        PROVE  Charge'
    BY <1>2 DEF Charge, Charged, TornInLine
  <1>3. CASE \E u \in Bidders, a \in Prices : PlaceBid(u, a)
    <2>1. PICK u \in Bidders, a \in Prices : PlaceBid(u, a)
      BY <1>3
    <2>2. AcceptsBids(LoadedRow(u)) /\ ApplySoftClose(LoadedRow(u))
      BY <2>1 DEF PlaceBid
    <2>3. status' \in Running \cup {"cancelled"}
      BY <2>2, SoftCloseFacts
    <2>4. PICK n \in Bids :
            /\ NextSlot(n)
            /\ bids' = [x \in Bids |-> IF x = n THEN PlacedBid(u, a)
                                       ELSE IF IsPreviousHold(x, u) THEN Void(bids[x], "outbid")
                                       ELSE bids[x]]
      BY <2>1 DEF PlaceBid
    <2>5. bids'[n] = PlacedBid(u, a) /\ ~bids'[n].booked /\ bids[n].status = "none"
      BY <2>4, PlacedBidFacts DEF NextSlot
    <2>6. \A x \in Bids : /\ SameCharges(bids[x], Void(bids[x], "outbid"))
                          /\ Void(bids[x], "outbid").booked = bids[x].booked
                          /\ Void(bids[x], "outbid").status = "outbid"
      BY VoidFacts, VoidCharges, "outbid" \in BidStatuses DEF Inv, TypeOK, BidStatuses
    <2>7. \A x \in Bids \ {n} : /\ SameCharges(bids[x], bids'[x])
                                /\ bids'[x].booked = bids[x].booked
                                /\ bids'[x].status = "active" => bids[x].status = "active"
      <3>1. \A x \in Bids \ {n} : bids'[x] = bids[x] \/ bids'[x] = Void(bids[x], "outbid")
        BY <2>4
      <3> QED
        BY <2>6, <3>1 DEF SameCharges
    <2> QED
      BY <1>0, <1>2, <2>2, <2>3, <2>5, <2>7, PlaceBidCharged
  <1>4. CASE \E u \in Bidders, a \in Prices : PlaceBidCrashes(u, a)
    <2>1. PICK u \in Bidders, a \in Prices : PlaceBidCrashes(u, a)
      BY <1>4
    <2> DEFINE dead == [PlacedBid(u, a) EXCEPT !.status = "rolled_back", !.hold = "none"]
    <2>2. AcceptsBids(LoadedRow(u)) /\ UNCHANGED status
      BY <2>1 DEF PlaceBidCrashes, auctionVars
    <2>3. status' \in Running \cup {"cancelled"}
      BY <2>2, LoadedRowFacts
    <2>4. PICK n \in Bids :
            /\ NextSlot(n)
            /\ bids' = [x \in Bids |->
                 IF x = n THEN dead
                 ELSE IF IsPreviousHold(x, u) THEN StripeOnly(bids[x], Void(bids[x], "outbid"))
                 ELSE bids[x]]
      BY <2>1 DEF PlaceBidCrashes
    <2>5. dead.keys = PlacedBid(u, a).keys /\ ~dead.booked
      BY PlacedBidFacts, SMT DEF BidRows
    <2> HIDE DEF dead
    <2>6. /\ bids'[n].keys = PlacedBid(u, a).keys /\ ~bids'[n].booked
          /\ bids[n].status = "none"
      BY <2>4, <2>5 DEF NextSlot
    <2>7. \A x \in Bids : /\ Void(bids[x], "outbid") \in BidRows /\ bids[x] \in BidRows
                          /\ SameCharges(bids[x], Void(bids[x], "outbid"))
      BY VoidFacts, VoidCharges, "outbid" \in BidStatuses DEF Inv, TypeOK, BidStatuses
    <2>8. \A x \in Bids :
            /\ SameCharges(bids[x], StripeOnly(bids[x], Void(bids[x], "outbid")))
            /\ StripeOnly(bids[x], Void(bids[x], "outbid")).booked = bids[x].booked
            /\ StripeOnly(bids[x], Void(bids[x], "outbid")).status = bids[x].status
      BY <2>7, StripeOnlyCharges, StripeOnlyFacts
    <2>9. \A x \in Bids \ {n} : /\ SameCharges(bids[x], bids'[x])
                                /\ bids'[x].booked = bids[x].booked
                                /\ bids'[x].status = "active" => bids[x].status = "active"
      <3>1. \A x \in Bids \ {n} :
              bids'[x] = bids[x] \/ bids'[x] = StripeOnly(bids[x], Void(bids[x], "outbid"))
        BY <2>4
      <3> QED
        BY <2>8, <3>1 DEF SameCharges
    <2> QED
      BY <1>0, <1>2, <2>2, <2>3, <2>6, <2>9, PlaceBidCharged
  <1>5. CASE CloseOne
    BY <1>0, <1>1, <1>5, CloseOneCharged DEF CloseOne
  <1>6. CASE ExpireOne
    BY <1>0, <1>1, <1>6, ExpireOneCharged DEF ExpireOne
  <1>7. CASE RetryPayment
    BY <1>0, <1>1, <1>7, RetryPaymentCharged DEF RetryPayment
  <1>8. CASE RefreshOne
    BY <1>0, <1>1, <1>8, RefreshOneCharged DEF RefreshOne, auctionVars
  <1>9. CASE CancelAuction
    <2>1. status # "awaiting_winner" /\ UNCHANGED <<now, closesAt>>
      BY <1>9 DEF CancelAuction, Open, Running
    <2>2. Uncharged(bids) /\ NobodyBooked(bids)
      BY <2>1, RowsUncharged
    <2>3. Conclude(TRUE, VoidActive(bids, "cancelled"), "cancelled", winner, deadline, depth,
                   IF piece = "live" THEN "delisted" ELSE piece)
      BY <1>9 DEF CancelAuction
    <2>4. Charged(bids', status', winner')
      BY <1>0, <2>2, <2>3, VoidedCharged, "cancelled" \in BidStatuses \ {"active"} DEF BidStatuses
    <2> QED
      BY <1>1, <2>1, <2>4
  <1>10. CASE Tick \/ \E k \in 1 .. MaxExtend : Extend(k)
    <2>1. UNCHANGED <<bids, status, winner>>
      BY <1>10 DEF Tick, Extend, auctionVars
    <2>2. now \in Nat /\ closesAt \in Nat
      BY DEF Inv, TypeOK
    <2>3. closesAt <= now => closesAt' <= now'
      <3>1. CASE Tick
        BY <2>2, <3>1 DEF Tick, auctionVars
      <3>2. CASE \E k \in 1 .. MaxExtend : Extend(k)
        BY <2>2, <3>2, TimesAssumption DEF Extend, Extended
      <3> QED
        BY <1>10, <3>1, <3>2
    <2>4. ASSUME NEW b, InLine(bids, status, winner, b) PROVE InLine(bids, status, winner, b)'
      BY <2>1, <2>3, <2>4 DEF InLine, ActiveBids
    <2>5. (\A b \in Bids : Accounted(bids[b]))'
      BY <1>0, <2>1 DEF Charged
    <2>6. TornInLine(bids, status, winner)'
      BY <1>0, <2>1, <2>4 DEF Charged, TornInLine, ActiveBids
    <2> QED
      BY <2>5, <2>6 DEF Charge, Charged
  <1>11. \/ \E u \in Bidders : ReadAuction(u)
         \/ \E b \in Bids : ReadDueHold(b)
         \/ \E s \in PieceStatuses : EditStatus(s)
         \/ EditTerms
         \/ UNCHANGED vars
         => UNCHANGED <<bids, status, winner, now, closesAt>>
    BY DEF ReadAuction, ReadDueHold, EditStatus, EditTerms, vars, auctionVars
  <1>12. UNCHANGED <<bids, status, winner, now, closesAt>> => Charge'
    BY <1>0, <1>1
  <1> QED
    BY <1>3, <1>4, <1>5, <1>6, <1>7, <1>8, <1>9, <1>10, <1>11, <1>12 DEF Next

LEMMA InitCharged == Init => Charge
  <1> SUFFICES ASSUME Init PROVE Charge
    OBVIOUS
  <1>1. /\ NoBidRow.status = "none" /\ NoBidRow.booked = FALSE
        /\ NoBidRow.keys = [g \in Gens |-> "unused"]
    BY Zenon DEF NoBidRow
  <1>2. \A b \in Bids : bids[b] = NoBidRow
    BY DEF Init
  <1>3. Accounted(NoBidRow)
    BY <1>1 DEF Accounted, Has
  <1> QED
    BY <1>1, <1>2, <1>3 DEF Charge, Charged, TornInLine, ActiveBids

\* The latest of the bids in the running is the highest of them.
LEMMA LatestIsHighest ==
  ASSUME TypeOK, Rank, NEW B, Fewer(B), NEW b \in ActiveBids(B), \A x \in ActiveBids(B) : x <= b
  PROVE  b \in Highest(B)
  <1>1. \A x \in ActiveBids(B) :
          x \in Bids /\ x \in ActiveBids(bids) /\ B[x].amount = bids[x].amount
    BY DEF Fewer, ActiveBids
  <1>2. \A x \in ActiveBids(B) : x = b \/ x < b
    BY <1>1 DEF Bids
  <1>3. \A x \in ActiveBids(B) : x = b \/ B[x].amount < B[b].amount
    BY <1>1, <1>2 DEF Rank, Ranked
  <1> QED
    BY <1>3 DEF Highest

-----------------------------------------------------------------------------
(* The theorems. *)

\* A fresh auction (open_auction) satisfies the inductive invariant.
LEMMA InitInv == Init => Inv
  <1> SUFFICES ASSUME Init PROVE Inv
    OBVIOUS
  <1>1. TypeOK
    BY NoBidRowType, GensFacts, TimesAssumption
      DEF Init, TypeOK, AuctionStatuses, Running, PieceStatuses, Requests, NoRequest,
          Sweeps, NoSweep
  <1>2. /\ NoBidRow.hold = "none" /\ NoBidRow.status = "none" /\ NoBidRow.booked = FALSE
    BY Zenon DEF NoBidRow
  <1>3. Sound(bids, status, winner)
    BY <1>2 DEF Init, Sound, HeldActive, OneHold, NobodyBooked
  <1>4. PastClose /\ Loaded /\ SweepLoaded
    BY DEF Init, PastClose, Running, Loaded, NoRequest, SweepLoaded
  <1>5. QED
    BY <1>1, <1>3, <1>4 DEF Inv

\* A step that changes nothing is a good step.
LEMMA StutterGood == Inv /\ UNCHANGED vars => Good
  <1> SUFFICES ASSUME Inv, UNCHANGED vars PROVE Good
    OBVIOUS
  <1>1. UNCHANGED <<now, auctionVars, pieceVars, bids, inFlight>>
    BY DEF vars
  <1>2. TypeOK' /\ Loaded' /\ SweepLoaded'
    BY <1>1 DEF Inv, TypeOK, Loaded, SweepLoaded, auctionVars, pieceVars, inFlight
  <1>3. QED
    BY <1>1, <1>2, ElsewhereGood DEF auctionVars, Inv, TypeOK

\* Every step of every request and sweep keeps the inductive invariant, moves the
\* close only later and adds no bid to a closed auction.
LEMMA StepGood == Inv /\ [Next]_vars => Good
  <1> SUFFICES ASSUME Inv, [Next]_vars PROVE Good
    OBVIOUS
  <1>1. CASE Tick
    BY <1>1, TickGood
  <1>2. CASE \E u \in Bidders : ReadAuction(u)
    BY <1>2, ReadAuctionGood
  <1>3. CASE \E u \in Bidders, a \in Prices : PlaceBid(u, a)
    BY <1>3, PlaceBidGood
  <1>4. CASE \E u \in Bidders, a \in Prices : PlaceBidCrashes(u, a)
    BY <1>4, PlaceBidCrashesGood
  <1>5. CASE CloseOne
    BY <1>5, CloseOneGood
  <1>6. CASE ExpireOne
    BY <1>6, ExpireOneGood
  <1>7. CASE RetryPayment
    BY <1>7, RetryPaymentGood
  <1>8. CASE \E b \in Bids : ReadDueHold(b)
    BY <1>8, ReadDueHoldGood
  <1>9. CASE RefreshOne
    BY <1>9, RefreshOneGood
  <1>10. CASE \E k \in 1 .. MaxExtend : Extend(k)
    BY <1>10, ExtendGood
  <1>11. CASE CancelAuction
    BY <1>11, CancelAuctionGood
  <1>12. CASE EditTerms \/ \E s \in PieceStatuses : EditStatus(s)
    BY <1>12, EditGood
  <1>13. CASE UNCHANGED vars
    BY <1>13, StutterGood
  <1>14. QED
    BY <1>1, <1>2, <1>3, <1>4, <1>5, <1>6, <1>7, <1>8, <1>9, <1>10, <1>11, <1>12,
       <1>13 DEF Next

\* The invariant behind all the theorems below holds in every reachable state,
\* whatever overlaps, crashes, edits and cancellations happen.
THEOREM Invariance == Spec => []Inv
  <1>1. Inv /\ [Next]_vars => Inv'
    BY StepGood DEF Good
  <1>2. QED
    BY <1>1, InitInv, PTL DEF Spec

\* Every variable keeps its type: no schema value is ever written that the
\* enumerations of auctions, bids, holds and pieces do not have.
THEOREM Typed == Spec => []TypeOK
  <1>1. Inv => TypeOK
    BY DEF Inv
  <1>2. QED
    BY <1>1, Invariance, PTL

\* At most one charge of an auction stands, it is booked and has won the work, and a
\* charge whose section died is the next the sale turns to while its bid is in the running,
\* whatever races, crashes, edits and cancellations happen (settle_on, cascade,
\* retry_winner_payment).
THEOREM AtMostOneSale == Spec => []OneSale
  <1>1. Inv /\ Rank /\ Charge => OneSale
    <2> SUFFICES ASSUME Inv, Rank, Charge PROVE OneSale
      OBVIOUS
    <2>1. \A x \in Bids \X Gens : x = <<x[1], x[2]>> /\ x[1] \in Bids /\ x[2] \in Gens
      OBVIOUS
    <2>2. \A b, c \in Bids : bids[b].booked /\ bids[c].booked => b = c
      BY DEF Inv, Sound, NobodyBooked, SoldTo
    <2>3. \A b \in Bids : Accounted(bids[b])
      BY DEF Charge, Charged
    <2>4. ASSUME NEW x \in Charges("captured"), NEW y \in Charges("captured") PROVE x = y
      <3>1. /\ x \in Bids \X Gens /\ bids[x[1]].keys[x[2]] = "captured"
            /\ y \in Bids \X Gens /\ bids[y[1]].keys[y[2]] = "captured"
        BY DEF Charges
      <3>2. x[1] = y[1]
        BY <2>1, <2>2, <2>3, <3>1 DEF Accounted, Has
      <3>3. x[2] = y[2]
        BY <2>1, <2>3, <3>1, <3>2 DEF Accounted
      <3> QED
        BY <2>1, <3>1, <3>2, <3>3
    <2>5. ASSUME NEW x \in Charges("captured")
          PROVE  bids[x[1]].booked /\ bids[x[1]].status = "won"
      BY <2>1, <2>3 DEF Charges, Accounted, Has
    <2>6. ASSUME NEW b \in Booked PROVE \E x \in Charges("captured") : x[1] = b
      <3>1. b \in Bids /\ Has(bids[b], "captured")
        BY <2>3 DEF Booked, Accounted
      <3>2. PICK g \in Gens : bids[b].keys[g] = "captured"
        BY <3>1 DEF Has
      <3>3. <<b, g>> \in Charges("captured")
        BY <3>1, <3>2 DEF Charges
      <3> QED
        BY <3>3
    <2>7. ASSUME NEW x \in Charges("torn"), bids[x[1]].status = "active"
          PROVE  x[1] \in NextInLine
      <3> DEFINE b == x[1]
      <3>1. b \in Bids /\ b \in ActiveBids(bids) /\ Has(bids[b], "torn")
        BY <2>1, <2>7 DEF Charges, Has, ActiveBids
      <3>2. InLine(bids, status, winner, b)
        BY <3>1 DEF Charge, Charged, TornInLine
      <3> HIDE DEF b
      <3>3. TypeOK /\ Fewer(bids)
        BY DEF Inv, TypeOK, Fewer
      <3>4. CASE status \in Running
        <4>1. b \in Highest(bids)
          BY <3>1, <3>2, <3>3, <3>4, LatestIsHighest DEF InLine, Running
        <4> QED
          BY <3>4, <4>1 DEF NextInLine, Open, Running, b
      <3>5. CASE status = "awaiting_payment" /\ b = winner
        BY <3>5 DEF NextInLine, Open, Running, b
      <3>6. CASE status = "awaiting_payment" /\ b # winner
        <4> DEFINE B == Forfeit(bids, winner)
        <4>1. winner \in Bids /\ bids[winner].status = "active"
          BY <3>6 DEF Inv, Sound, OfferedTo
        <4>2. /\ B \in [Bids -> BidRows]
              /\ B[winner].status = "forfeited" /\ B[winner].amount = bids[winner].amount
              /\ \A y \in Bids \ {winner} : B[y] = bids[y]
          BY <3>3, <4>1, ForfeitRows DEF Fewer
        <4> HIDE DEF B
        <4>3. /\ ActiveBids(B) \subseteq ActiveBids(bids) \ {winner}
              /\ ActiveBids(bids) \ {winner} \subseteq ActiveBids(B)
          BY <4>2 DEF ActiveBids
        <4>4. Fewer(B)
          BY <4>1, <4>2, <4>3 DEF Fewer
        <4>5. b \in ActiveBids(B) /\ \A y \in ActiveBids(B) : y <= b
          BY <3>1, <3>2, <3>6, <4>3 DEF InLine, Running
        <4>6. b \in Highest(B)
          BY <3>3, <4>4, <4>5, LatestIsHighest
        <4> QED
          BY <3>6, <4>6 DEF NextInLine, Open, Running, b, B
      <3> QED
        BY <3>2, <3>4, <3>5, <3>6 DEF InLine
    <2> QED
      BY <2>4, <2>5, <2>6, <2>7 DEF OneSale
  <1>2. Init => Rank /\ Charge
    BY InitRanked, InitCharged DEF Rank
  <1>3. Inv /\ Rank /\ [Next]_vars => Rank'
    BY StepRanked DEF Rank
  <1>4. QED
    BY <1>1, <1>2, <1>3, StepCharged, Invariance, PTL DEF Spec

\* A settled auction has one paid winner, and everybody else has been let go
\* (settle_on and _release_runners_up).
THEOREM WinnersArePaid == Spec => []SettledCleanly
  <1>1. Inv => SettledCleanly
    BY DEF Inv, Sound, SoldTo, SettledCleanly, Booked
  <1>2. QED
    BY <1>1, Invariance, PTL

\* A bidder never has two live holds on one auction (place_bid releases the
\* previous one in the transaction that adds the next).
THEOREM HoldsDoNotPileUp == Spec => []OneLiveHold
  <1>1. Inv => OneLiveHold
    BY DEF Inv, Sound, OneHold, OneLiveHold
  <1>2. QED
    BY <1>1, Invariance, PTL

\* The close of an auction never moves earlier (apply_soft_close computed from a
\* row that extend_auction has changed since).
THEOREM CloseOnlyMovesLater == Spec => NeverShorter
  <1>1. Inv /\ [Next]_vars => [closesAt' >= closesAt]_vars
    BY StepGood DEF Good
  <1>2. QED
    BY <1>1, Invariance, PTL DEF Spec, NeverShorter

\* No bid joins an auction that has been closed, although place_bid checks a row
\* that may have been loaded before the close.
THEOREM ClosedToBids == Spec => NoBidAfterClose
  <1>1. Inv /\ [Next]_vars =>
          [~Open /\ status # "cancelled" =>
             ActiveBids(bids') \subseteq ActiveBids(bids)]_vars
    BY StepGood DEF Good
  <1>2. QED
    BY <1>1, Invariance, PTL DEF Spec, NoBidAfterClose

\* Whoever is outbid in the last minutes has the whole soft-close window to answer:
\* apply_soft_close runs in the transaction of the bid (also from a row loaded earlier).
THEOREM WindowToAnswer == Spec => NoSniping
  <1>1. Inv /\ [Next]_vars =>
          [SoftClose /\ ~(ActiveBids(bids') \subseteq ActiveBids(bids))
             => closesAt' >= now + SoftWindow]_vars
    BY StepGood DEF Good
  <1>2. QED
    BY <1>1, Invariance, PTL DEF Spec, NoSniping

\* While bidding is open nobody loses their place in it, by raising their bid, by a hold
\* that cannot be renewed or by a request that dies (place_bid, hold_refresh).
THEOREM PlacesAreKept == Spec => NobodyDropped
  <1>1. Inv /\ [Next]_vars =>
          [Open /\ status' \in Running => \A u \in Bidders : Active(u, bids) => Active(u, bids')]_vars
    BY StepGood DEF Good
  <1>2. QED
    BY <1>1, Invariance, PTL DEF Spec, NobodyDropped

\* Nobody who is let go as a loser had offered as much as the bidder the work is sold to,
\* also when the sale has passed down a cascade (get_highest_bid, min_next_bid_cents).
THEOREM LosersHadBidLess == Spec => []LosersBidLess
  <1>1. Init => Rank
    BY InitRanked DEF Rank
  <1>2. Inv /\ Rank /\ [Next]_vars => Rank'
    BY StepRanked DEF Rank
  <1>3. Rank => LosersBidLess
    BY DEF Rank, Ranked, LosersBidLess
  <1>4. QED
    BY <1>1, <1>2, <1>3, Invariance, PTL DEF Spec

\* Whatever the requests and the sweeps do, the auction sells as module Sale says: it is
\* offered to one bidder at a time, never again to one who was passed over, and sold to
\* nobody but the one who is charged (close_one, expire_one, retry_winner_payment).
THEOREM ImplementsSale ==
  ASSUME ~({"bid_overlap", "cancel"} \subseteq Hazards)
  PROVE  Spec => KeepsPromise
  <1>1. Inv /\ Unsettled /\ [Next]_vars => Unsettled'
    BY StepPromise DEF KeepsStep
  <1>2. Inv /\ Unsettled /\ [Next]_vars => [Promise!SaleNext]_(Promise!saleVars)
    BY StepPromise DEF KeepsStep
  <1>3. QED
    BY <1>1, <1>2, Invariance, InitPromise, PTL DEF Spec, KeepsPromise, Promise!SaleSpec

\* While a winner's payment is awaited nobody has paid, and everybody the sale can pass
\* down to has a card authorised for it or is known to need another one (_park_for_payment).
THEOREM FallbacksStayFunded ==
  ASSUME {"crash", "edit"} \cap Hazards = {}
  PROVE  Spec => []FallbackFunded
  <1>1. Inv /\ Funded /\ [Next]_vars => Funded'
    BY StepFunded DEF Careful
  <1>2. Inv /\ Funded => FallbackFunded
    BY DEF Inv, Sound, NobodyBooked, OfferedTo, Funded, Fallbacks, Backed, Fresh,
           FallbackFunded, Booked,
           ActiveBids
  <1>3. QED
    BY <1>1, <1>2, Invariance, InitFunded, PTL DEF Spec

\* Once an auction is over no card keeps an authorisation made for it, whether it was
\* sold, given up, cancelled or had no bids (release_hold, reauthorize, _release_runners_up).
THEOREM CardsAreCleared ==
  ASSUME {"crash", "edit", "refresh_overlap"} \cap Hazards = {},
         ~({"bid_overlap", "cancel"} \subseteq Hazards)
  PROVE  Spec => []NothingLeftOnCards
  <1>1. Inv /\ Funded /\ [Next]_vars => Funded'
    BY StepFunded DEF Careful
  <1>2. Inv /\ Unsettled /\ [Next]_vars => Unsettled'
    BY StepPromise DEF KeepsStep
  <1>3. Inv /\ Funded /\ Unsettled /\ Clear /\ [Next]_vars => Clear'
    BY StepClear DEF Orderly
  <1>4. Clear => NothingLeftOnCards
    BY DEF Clear, OnlyIntent, NothingLeftOnCards, OnCard, ActiveBids
  <1>5. Init => Funded /\ Unsettled /\ Clear
    BY InitFunded, InitPromise, InitClear
  <1>6. QED
    BY <1>1, <1>2, <1>3, <1>4, <1>5, Invariance, PTL DEF Spec

=============================================================================
