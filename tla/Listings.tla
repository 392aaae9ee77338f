------------------------------ MODULE Listings --------------------------------
(***************************************************************************)
(* A seller's works, the ways each can be put up for sale, and the bills of *)
(* the events they are on.  A work is sold at a fixed price or by auction;  *)
(* being put on a bill ends the listing it has, publishing the event makes  *)
(* a new one, and calling the event off takes that down.                    *)
(*                                                                         *)
(* What a listing is, is kept in three places that different handlers      *)
(* write: the work's row, the row of its auction, and the bill.  Every      *)
(* action here is one handler, in one commit unless it says otherwise.      *)
(* Bids, settlement and orders are steps of their own, as far as they touch *)
(* a work; modules Auction and Checkout model what they do besides.         *)
(*                                                                         *)
(* Only patch loads a work with its row locked.  The other requests of the *)
(* owner go by a row they loaded when they began, and write what they      *)
(* change of it over whatever bids and sales have made of it since.        *)
(***************************************************************************)
EXTENDS FiniteSets

CONSTANTS Pieces, Events, NoEvent

ASSUME EventsAssumption == NoEvent \notin Events

PieceStatuses ==
  {"none", "draft", "live", "reserved", "sold", "auction_won", "delisted", "deleted"}
Committed == {"reserved", "sold", "auction_won"}
ListingTypes == {"none", "fixed", "auction"}
Modes == {"none", "featured", "sale", "bid"}
RunHoles == {"split", "removed", "stale"}
OrderHoles == {"reopened", "crossed"}
SellerHoles == {"unready", "lapsed"}
Holes == RunHoles \cup OrderHoles \cup SellerHoles

VARIABLES
  piece,
  auction,   \* the latest auction of each work
  sale,      \* the latest order of each work
  bill,      \* bill[e][p]: how the work is on the event's bill
  event,
  seller,    \* whether the owner sells, is deleting their account, has deleted it
  seen,      \* the status of each work when the owner's running request loaded it
  holes      \* history: what has gone past the checks for a work, see below

vars == <<piece, auction, sale, bill, event, seller, seen, holes>>

(***************************************************************************)
(* Holes name the steps after which a promise about a work may fail.  As   *)
(* long as its auction runs:                                               *)
(*   split     its terms were changed when nobody had bid yet, or the      *)
(*             auction was started without its terms;                      *)
(*   removed   it was deleted while people were bidding on it;             *)
(*   stale     an event was published over a listing, or a sale, it had    *)
(*             got since it was put on the bill; or a request listed it,   *)
(*             took it down or deleted it that had loaded it before a      *)
(*             close or a sale moved it on.                                *)
(* As long as an order for it is in progress:                              *)
(*   reopened  its owner changed its status;                               *)
(*   crossed   a request wrote to it that had loaded it before the sale.   *)
(* Until its owner sells again:                                            *)
(*   unready   an event was published for somebody not selling (any more); *)
(*   lapsed    its seller stopped selling while a sale had closed or was   *)
(*             over, and its terms stayed.                                 *)
(***************************************************************************)
TypeOK ==
  /\ piece \in [Pieces -> [status : PieceStatuses, forSale : BOOLEAN, type : ListingTypes]]
  /\ auction \in [Pieces ->
       [status : {"none", "draft", "live", "settling", "unsold", "cancelled", "sold"},
        event : Events \cup {NoEvent}, bids : BOOLEAN]]
  /\ sale \in [Pieces -> {"none", "pending", "paid", "done"}]
  /\ bill \in [Events -> [Pieces -> Modes]]
  /\ event \in [Events -> {"none", "draft", "published", "cancelled", "gone"}]
  /\ seller \in [sells : BOOLEAN, leaving : BOOLEAN, gone : BOOLEAN]
  /\ seen \in [Pieces -> PieceStatuses]
  /\ holes \in [Pieces -> SUBSET Holes]

NoAuction == [status |-> "none", event |-> NoEvent, bids |-> FALSE]

Init ==
  /\ piece = [p \in Pieces |-> [status |-> "none", forSale |-> FALSE, type |-> "none"]]
  /\ auction = [p \in Pieces |-> NoAuction]
  /\ sale = [p \in Pieces |-> "none"]
  /\ bill = [e \in Events |-> [p \in Pieces |-> "none"]]
  /\ event = [e \in Events |-> "none"]
  /\ seller = [sells |-> FALSE, leaving |-> FALSE, gone |-> FALSE]
  /\ seen = [p \in Pieces |-> "none"]
  /\ holes = [p \in Pieces |-> {}]

-----------------------------------------------------------------------------
Exists(p) == piece[p].status \notin {"none", "deleted"}

\* get_running_auction
Running(p) == auction[p].status \in {"draft", "live"}

Open(p) == auction[p].status = "live"

HasBids(p) == Running(p) /\ auction[p].bids

\* validate_listing, of the seller
\* Mutant: whether the owner sells is not looked at.
MayListAnyone == ~seller.gone

MayList == seller.sells

Selling(mode) == mode \in {"sale", "bid"}

\* Mutant: a reserved work can be deleted.
EdgesReservedDeleted(s) ==
  CASE s \in {"draft", "live", "delisted"} -> {"draft", "live", "delisted", "reserved", "deleted"}
    [] s = "reserved" -> {"sold", "live", "auction_won", "delisted", "deleted"}
    [] s = "sold" -> {"live", "auction_won", "delisted"}
    [] s = "auction_won" -> {"reserved", "delisted"}
    [] OTHER -> {}

\* VALID_TRANSITIONS
Edges(s) ==
  CASE s = "draft" -> {"live", "deleted"}
    [] s = "live" -> {"reserved", "auction_won", "delisted", "draft", "deleted"}
    [] s = "reserved" -> {"sold", "live", "auction_won", "delisted"}
    [] s = "sold" -> {"live", "auction_won", "delisted"}
    [] s = "auction_won" -> {"reserved", "delisted"}
    [] s = "delisted" -> {"live", "draft", "deleted"}
    [] OTHER -> {}

\* transition_piece: no move at all is fine.
Moves(from, to) == from = to \/ to \in Edges(from)

Mark(p, hole, when) == IF when THEN holes[p] \cup {hole} ELSE holes[p]

\* The work as a request sees it that did not lock its row.  Only the status can be
\* out of date: nothing but the owner's requests writes the terms.
Loaded(p) == [piece[p] EXCEPT !.status = seen[p]]

\* The UPDATE that is made of it writes the columns that differ from what was loaded.
Flushed(p, row) ==
  [row EXCEPT !.status = IF @ = seen[p] THEN piece[p].status ELSE @]

Outdated(p) == seen[p] # piece[p].status

InProgress(p) == sale[p] \in {"pending", "paid"}

Crossed(p) ==
  Mark(p, "stale", Outdated(p)) \cup Mark(p, "crossed", Outdated(p) /\ InProgress(p))

\* What is left of the holes of a work with this auction.
Lasting(marks, run) == IF run.status \in {"draft", "live"} THEN marks ELSE marks \ RunHoles

\* Only the row of the work, its auction and its holes change.
Rows(p, row, run, marks) ==
  /\ piece' = [piece EXCEPT ![p] = row]
  /\ auction' = [auction EXCEPT ![p] = run]
  /\ holes' = [holes EXCEPT ![p] = Lasting(marks, run)]
  /\ UNCHANGED <<sale, bill, event, seller>>

Started(e) == [status |-> "live", event |-> e, bids |-> FALSE]

-----------------------------------------------------------------------------
(***************************************************************************)
(* The owner.                                                              *)
(***************************************************************************)
\* create: the work is committed first, its auction afterwards, and the server
\* may die in between.
Create(p, status, type, dies) ==
  /\ piece[p].status = "none"
  /\ type # "none" => MayList
  /\ Rows(p, [status |-> status, forSale |-> type # "none", type |-> type],
          IF type # "auction" \/ dies THEN NoAuction
          ELSE [NoAuction EXCEPT !.status = IF status = "live" THEN "live" ELSE "draft"],
          {})

\* assert_terms_editable
TermsEditable(p) ==
  /\ piece[p].status \notin Committed
  /\ ~(piece[p].type = "auction" /\ piece[p].status = "live" /\ HasBids(p))

\* Mutant: bids are not looked for.
WithdrawableBlindly(row, p, to) == TRUE

\* The guard in transition_piece.
Withdrawable(row, p, to) ==
  ~(row.status = "live" /\ to \in {"delisted", "draft"} /\ row.type = "auction" /\ HasBids(p))

\* What a patch makes of the terms; the auction's row is left alone.
WithTerms(row, type) ==
  IF type = "same" THEN row ELSE [row EXCEPT !.forSale = type # "none", !.type = type]

\* patch: terms, status, or both.
Patch(p, type, status) ==
  LET row == WithTerms(piece[p], type)
      to == IF status = "same" THEN row.status ELSE status
  IN
  /\ Exists(p)
  /\ type # "same" => (TermsEditable(p) /\ (type # "none" => MayList))
  /\ Moves(row.status, to)
  /\ to # row.status => Withdrawable(row, p, to)
  /\ [row EXCEPT !.status = to] # piece[p]
  /\ Rows(p, [row EXCEPT !.status = to], auction[p],
          Mark(p, "split", Running(p) /\ ~HasBids(p))
            \cup Mark(p, "reopened", InProgress(p)))

\* delete, of a work as it was loaded.
Delete(p) ==
  LET row == [Loaded(p) EXCEPT !.status = "deleted"] IN
  /\ "deleted" \in Edges(seen[p])
  /\ Rows(p, Flushed(p, row), auction[p],
          Mark(p, "removed", HasBids(p)) \cup Crossed(p))

\* relist: a new auction; the work's own terms are not touched.
Relist(p) ==
  LET row == [Loaded(p) EXCEPT !.status = "live"] IN
  /\ Exists(p) /\ MayList
  /\ auction[p].status = "unsold"
  /\ seen[p] \in {"delisted", "auction_won", "live"} /\ Moves(seen[p], "live")
  /\ Rows(p, Flushed(p, row), Started(NoEvent),
          Mark(p, "split", row.type # "auction" \/ ~row.forSale) \cup Crossed(p))

\* cancel_auction, of a work whose terms say that it is auctioned.
Cancelled(p) ==
  [ row |-> IF Open(p) /\ seen[p] = "live"
            THEN [Loaded(p) EXCEPT !.status = "delisted"] ELSE Loaded(p),
    run |-> IF Open(p) THEN [auction[p] EXCEPT !.status = "cancelled", !.bids = FALSE]
            ELSE auction[p] ]

CancelAuction(p) ==
  /\ Exists(p) /\ Open(p) /\ piece[p].type = "auction"
  /\ Rows(p, Flushed(p, Cancelled(p).row), Cancelled(p).run, Crossed(p))

-----------------------------------------------------------------------------
(***************************************************************************)
(* Bids and sales, as far as they touch a work.                            *)
(***************************************************************************)
\* place_bid: only the auction's row is looked at.
Bid(p) ==
  /\ Exists(p) /\ Open(p) /\ ~auction[p].bids
  /\ Rows(p, piece[p], [auction[p] EXCEPT !.bids = TRUE], holes[p])

\* The close sweep.  Without a sale the work comes off the market; with a winner
\* it waits for them.  It must be live, or there already.
CloseUnsold(p) ==
  /\ Open(p) /\ piece[p].status \in {"live", "delisted"}
  /\ Rows(p, [piece[p] EXCEPT !.status = "delisted"],
          [auction[p] EXCEPT !.status = "unsold", !.bids = FALSE], holes[p])

CloseWon(p) ==
  /\ Open(p) /\ auction[p].bids /\ piece[p].status \in {"live", "auction_won"}
  /\ Rows(p, [piece[p] EXCEPT !.status = "auction_won"],
          [auction[p] EXCEPT !.status = "settling"], holes[p])

\* _give_up
WinnersFail(p) ==
  /\ auction[p].status = "settling"
  /\ Rows(p, IF piece[p].status = "auction_won"
             THEN [piece[p] EXCEPT !.status = "delisted"] ELSE piece[p],
          [auction[p] EXCEPT !.status = "unsold", !.bids = FALSE], holes[p])

Ordered(p, run) ==
  /\ ~InProgress(p)
  /\ sale' = [sale EXCEPT ![p] = "pending"]
  /\ piece' = [piece EXCEPT ![p].status = "reserved"]
  /\ auction' = [auction EXCEPT ![p] = run]
  /\ UNCHANGED <<bill, event, seller, holes>>

\* create_order: an outright purchase.
Buy(p) ==
  /\ piece[p].status = "live" /\ piece[p].forSale /\ piece[p].type = "fixed"
  /\ Ordered(p, auction[p])

\* create_auction_order: the winner's.
BuyWon(p) ==
  /\ piece[p].status = "auction_won" /\ auction[p].status = "settling"
  /\ Ordered(p, [auction[p] EXCEPT !.status = "sold"])

Pay(p) ==
  /\ sale[p] = "pending" /\ piece[p].status \in {"reserved", "sold"}
  /\ sale' = [sale EXCEPT ![p] = "paid"]
  /\ piece' = [piece EXCEPT ![p].status = "sold"]
  /\ UNCHANGED <<auction, bill, event, seller, holes>>

\* release_target_status
ReleaseTarget(p) ==
  CASE piece[p].type # "auction" -> "live"
    [] piece[p].type = "auction" /\ HasBids(p) -> "auction_won"
    [] OTHER -> "delisted"

\* release_pieces: an order is cancelled, fails or is refunded.
Release(p) ==
  /\ sale[p] # "none"
  /\ sale' = [sale EXCEPT ![p] = "none"]
  /\ piece' = IF piece[p].status \in {"reserved", "sold"}
              THEN [piece EXCEPT ![p].status = ReleaseTarget(p)] ELSE piece
  /\ holes' = [holes EXCEPT ![p] = @ \ OrderHoles]
  /\ UNCHANGED <<auction, bill, event, seller>>

Complete(p) ==
  /\ sale[p] = "paid"
  /\ sale' = [sale EXCEPT ![p] = "done"]
  /\ holes' = [holes EXCEPT ![p] = @ \ OrderHoles]
  /\ UNCHANGED <<piece, auction, bill, event, seller>>

-----------------------------------------------------------------------------
(***************************************************************************)
(* Starting and stopping to sell.                                          *)
(***************************************************************************)
SellerEnable ==
  /\ seller' = [seller EXCEPT !.sells = TRUE]
  /\ holes' = [p \in Pieces |-> holes[p] \ SellerHoles]
  /\ UNCHANGED <<piece, auction, sale, bill, event>>

\* list_user_pieces, for sale only.
ActiveListing(p) == piece[p].forSale /\ seen[p] = "live"

\* No active listing and no order in progress, when it was looked.
MayLeave ==
  \A p \in Pieces :
    /\ ~ActiveListing(p)
    /\ InProgress(p) => Outdated(p)

\* delist_all_for_seller: nothing for sale is live by then, and a work with a sale
\* in flight is left alone.
DelistedAll ==
  [p \in Pieces |->
     IF seen[p] \in Committed THEN Loaded(p) ELSE [Loaded(p) EXCEPT !.forSale = FALSE]]

Leave(rows) ==
  /\ piece' = [p \in Pieces |-> Flushed(p, rows[p])]
  /\ holes' = [p \in Pieces |->
       Lasting(IF seen[p] \in Committed THEN Mark(p, "lapsed", piece[p].forSale)
               ELSE Crossed(p), auction[p])]

SellerDisable ==
  /\ MayLeave
  /\ seller' = [seller EXCEPT !.sells = FALSE]
  /\ Leave(DelistedAll)
  /\ UNCHANGED <<auction, sale, bill, event>>

\* delete_account, up to the works: what has no sale in flight is deleted.  The
\* events follow one by one, as the host's own, each in a commit of its own.
DeleteAccount ==
  /\ MayLeave
  /\ seller' = [seller EXCEPT !.leaving = TRUE]
  /\ Leave([p \in Pieces |->
       IF "deleted" \in Edges(seen[p])
       THEN [DelistedAll[p] EXCEPT !.status = "deleted"] ELSE DelistedAll[p]])
  /\ UNCHANGED <<auction, sale, bill, event>>

\* Its last commit, once the events are gone; or an event that cannot be called
\* off, or a crash, ends it early and leaves the account as it is by then.
Anonymise ==
  /\ seller.leaving
  /\ \A e \in Events : event[e] \in {"none", "gone"}
  /\ seller' = [sells |-> FALSE, leaving |-> FALSE, gone |-> TRUE]
  /\ UNCHANGED <<piece, auction, sale, bill, event, holes>>

StopsLeaving ==
  /\ seller.leaving
  /\ seller' = [seller EXCEPT !.leaving = FALSE]
  /\ UNCHANGED <<piece, auction, sale, bill, event, holes>>

-----------------------------------------------------------------------------
(***************************************************************************)
(* Events and their bills.                                                 *)
(***************************************************************************)
CreateEvent(e) ==
  /\ event[e] = "none"
  /\ event' = [event EXCEPT ![e] = "draft"]
  /\ UNCHANGED <<piece, auction, sale, bill, seller, holes>>

\* _end_current_listing, of a work about to be sold at an event
Ended(p) ==
  CASE Running(p) -> Cancelled(p)
    [] ~Running(p) /\ ActiveListing(p) ->
         [row |-> [Loaded(p) EXCEPT !.status = "delisted", !.forSale = FALSE],
          run |-> auction[p]]
    [] OTHER -> [row |-> Loaded(p), run |-> auction[p]]

\* add_piece
Tagged(e, p, mode) ==
  /\ event[e] \in {"draft", "published"}
  /\ bill[e][p] = "none"
  /\ Selling(mode) => /\ seen[p] \notin Committed
                      /\ Running(p) => piece[p].type = "auction"
  /\ bill' = [bill EXCEPT ![e][p] = mode]
  /\ IF Selling(mode)
     THEN /\ piece' = [piece EXCEPT ![p] = Flushed(p, Ended(p).row)]
          /\ auction' = [auction EXCEPT ![p] = Ended(p).run]
          /\ holes' = [holes EXCEPT ![p] = Lasting(Crossed(p), Ended(p).run)]
     ELSE UNCHANGED <<piece, auction, holes>>
  /\ UNCHANGED <<sale, event, seller>>

AddPiece(e, p, mode) == Exists(p) /\ mode # "none" /\ Tagged(e, p, mode)

\* remove_piece
Untagged(e, p) ==
  /\ ~(event[e] = "published" /\ Selling(bill[e][p]))
  /\ bill' = [bill EXCEPT ![e][p] = "none"]
  /\ UNCHANGED <<piece, auction, sale, event, seller, holes>>

RemovePiece(e, p) ==
  event[e] \notin {"none", "gone"} /\ bill[e][p] # "none" /\ Untagged(e, p)

\* Mutant: an event auction is opened, and the work's terms forgotten.
ListedForgetful(p, mode) ==
  [Loaded(p) EXCEPT !.forSale = TRUE,
                    !.status = IF @ \in {"draft", "delisted"} THEN "live" ELSE @]

\* publish_lineup, of one work.  One that is being auctioned is taken for listed
\* already when it is to be auctioned; nothing else is looked at.
Listed(p, mode) ==
  [status |-> IF seen[p] \in {"draft", "delisted"} THEN "live" ELSE seen[p],
   forSale |-> TRUE, type |-> IF mode = "sale" THEN "fixed" ELSE "auction"]

ListsNow(e, p) == bill[e][p] = "sale" \/ (bill[e][p] = "bid" /\ ~Running(p))

Publish(e) ==
  /\ event[e] = "draft"
  /\ event' = [event EXCEPT ![e] = "published"]
  /\ piece' = [p \in Pieces |->
       IF ListsNow(e, p) THEN Flushed(p, Listed(p, bill[e][p])) ELSE piece[p]]
  /\ auction' = [p \in Pieces |->
       IF bill[e][p] = "bid" /\ ~Running(p) THEN Started(e) ELSE auction[p]]
  /\ holes' = [p \in Pieces |->
       IF ~ListsNow(e, p) THEN holes[p]
       ELSE Lasting(Mark(p, "stale", Running(p) \/ piece[p].status \in Committed)
                      \cup Mark(p, "unready", ~MayList) \cup Crossed(p), auction'[p])]
  /\ UNCHANGED <<sale, bill, seller>>

\* Mutant: only what is on the market is taken down.
WithdrawnIfLive(e, p) == Selling(bill[e][p]) /\ seen[p] = "live"

\* cancel_lineup: a work with a sale in flight is left alone, and cancel_auction
\* refuses one whose terms do not say that it is auctioned.
Withdrawn(e, p) == Selling(bill[e][p]) /\ seen[p] \notin Committed

CanCallOff(e) == \A p \in Pieces : (Withdrawn(e, p) /\ Running(p)) => piece[p].type = "auction"

TakenDown(p) ==
  IF Running(p) THEN Cancelled(p)
  ELSE [row |-> IF seen[p] = "live"
                THEN [Loaded(p) EXCEPT !.status = "delisted", !.forSale = FALSE] ELSE Loaded(p),
        run |-> auction[p]]

\* cancel, and the first half of delete_event and of an account's deletion.
CancelEvent(e) ==
  /\ event[e] \in {"draft", "published", "cancelled"}
  /\ CanCallOff(e)
  /\ event' = [event EXCEPT ![e] = "cancelled"]
  /\ piece' = [p \in Pieces |->
       IF Withdrawn(e, p) THEN Flushed(p, TakenDown(p).row) ELSE piece[p]]
  /\ auction' = [p \in Pieces |-> IF Withdrawn(e, p) THEN TakenDown(p).run ELSE auction[p]]
  /\ holes' = [p \in Pieces |-> 
       IF Withdrawn(e, p) THEN Lasting(Crossed(p), TakenDown(p).run) ELSE holes[p]]
  /\ UNCHANGED <<sale, bill, seller>>

\* delete_event: the row and, with it, the bill.
DeleteEvent(e) ==
  /\ event[e] \in {"draft", "cancelled"}
  /\ event' = [event EXCEPT ![e] = "gone"]
  /\ bill' = [bill EXCEPT ![e] = [p \in Pieces |-> "none"]]
  /\ UNCHANGED <<piece, auction, sale, seller, holes>>

-----------------------------------------------------------------------------
Owner(p) ==
  \/ \E status \in {"draft", "live"}, type \in ListingTypes, dies \in BOOLEAN :
       Create(p, status, type, dies)
  \/ \E type \in ListingTypes \cup {"same"}, status \in {"same", "draft", "live", "delisted"} :
       Patch(p, type, status)
  \/ Delete(p) \/ Relist(p) \/ CancelAuction(p)

Sales(p) ==
  \/ Bid(p) \/ CloseUnsold(p) \/ CloseWon(p) \/ WinnersFail(p)
  \/ Buy(p) \/ BuyWon(p) \/ Pay(p) \/ Release(p) \/ Complete(p)

\* The requests of one owner follow each other.
Acts == ~seller.leaving /\ ~seller.gone

Request ==
  \/ Acts /\ \E p \in Pieces : Owner(p)
  \/ Acts /\ (SellerEnable \/ SellerDisable \/ DeleteAccount)
  \/ Anonymise \/ StopsLeaving
  \/ Acts /\ \E e \in Events : CreateEvent(e) \/ Publish(e)
  \/ ~seller.gone /\ \E e \in Events : CancelEvent(e) \/ DeleteEvent(e)
  \/ Acts /\ \E e \in Events, p \in Pieces :
       RemovePiece(e, p) \/ \E mode \in Modes : AddPiece(e, p, mode)

\* What moves a work comes before the owner's request loads it, or after.
Loads(p) == seen' \in {seen, [seen EXCEPT ![p] = piece'[p].status]}

\* A request begins after the one before it has committed.
LoadsAgain == seen' = [p \in Pieces |-> piece'[p].status]

Next ==
  \/ \E p \in Pieces : Sales(p) /\ Loads(p)
  \/ Request /\ LoadsAgain

Spec == Init /\ [][Next]_vars

-----------------------------------------------------------------------------
Fell(p, through) == holes[p] \cap through # {}

\* "Changing the type or price of an auction with bids orphans those bids": whoever
\* has bid on a work finds it listed as an auction, so that it can be closed, won or
\* cancelled, and cannot be bought by somebody else meanwhile.
ListedForBidders(p) ==
  (Open(p) /\ auction[p].bids)
    => piece[p] = [status |-> "live", forSale |-> TRUE, type |-> "auction"]

BidsHaveAListing ==
  \A p \in Pieces : ListedForBidders(p) \/ Fell(p, {"split", "removed", "stale"})

\* The same, of every work.  Does not hold: each of the three holes breaks it.
BidsAreListed == \A p \in Pieces : ListedForBidders(p)

\* "There is an order pointing at it": while an order for a work is in progress the
\* work is reserved or sold, whatever happens to its listing and its event, unless
\* its owner patched its status, or a request that had loaded it before the sale
\* (delete, relist, a bill's publication or withdrawal) wrote over it.
OrderKeepsWork ==
  \A p \in Pieces : InProgress(p)
    => (piece[p].status \in {"reserved", "sold"} \/ Fell(p, {"reopened", "crossed"}))

\* "Call the event off, and take down everything it listed": no auction outlives the
\* event it was for.
NothingOutlivesEvent ==
  \A p \in Pieces :
    (Open(p) /\ auction[p].event # NoEvent /\ event[auction[p].event] \in {"cancelled", "gone"})
      => Fell(p, {"split", "stale"})

\* "A piece can't go on sale until the artist can actually be paid": what is on sale
\* is sold by somebody who has not stopped selling.
OnlySellersSell ==
  \A p \in Pieces :
    (piece[p].forSale /\ piece[p].status = "live")
      => (seller.sells \/ Fell(p, {"unready", "lapsed"}))

\* A host can always call an event off: no work on its bill makes that fail.
NeverStuck ==
  \A e \in Events :
    CanCallOff(e) \/ \E p \in Pieces : bill[e][p] # "none" /\ Fell(p, {"split", "stale"})

\* Both: an event can always be taken down, and then nothing of it stays up.
EventComesDown == NothingOutlivesEvent /\ NeverStuck

=============================================================================
