---------------------------- MODULE Listings_proofs ----------------------------
(***************************************************************************)
(* Theorems about Listings, for any number of works and events.  A work is *)
(* looked at on its own: what keeps the promises about it is one invariant *)
(* of its row, its auction, its sale, its place on the bills and the holes *)
(* it has fallen through.  What the owner's request has loaded matters only *)
(* where it is out of date: then the request leaves a hole, and nothing is *)
(* left to show but what no hole excuses.                                  *)
(***************************************************************************)
EXTENDS Listings, TLAPS

-----------------------------------------------------------------------------
(* The inductive invariant. *)

\* A work nobody has put in yet is nowhere else either.
Fresh(p) ==
  piece[p].status = "none" =>
    /\ auction[p] = NoAuction /\ sale[p] = "none"
    /\ \A e \in Events : bill[e][p] = "none"

\* Who may bid finds the work listed as an auction.  A work deleted while nobody had
\* bid on it keeps its auction, and nobody can bid any more.
Listing(row) == row.status = "live" /\ row.forSale /\ row.type = "auction"

Biddable(p) ==
  /\ Open(p) /\ (Exists(p) \/ auction[p].bids)
       => Listing(piece[p]) \/ Fell(p, {"split", "removed", "stale"})
  /\ "removed" \in holes[p] => piece[p].status = "deleted"
  /\ auction[p].status = "draft" => ~auction[p].bids

\* The terms of a work with an auction say so.
Auctioned(p) == Running(p) => piece[p].type = "auction" \/ Fell(p, {"split", "stale"})

\* An auction opened by an event stays on its bill as long as it is open.
OnItsBill(p) ==
  Open(p) /\ auction[p].event # NoEvent =>
    \/ event[auction[p].event] = "published" /\ bill[auction[p].event][p] = "bid"
    \/ Fell(p, {"split", "stale"})

Kept(p) ==
  InProgress(p) => piece[p].status \in {"reserved", "sold"} \/ Fell(p, {"reopened", "crossed"})

\* Whoever does not sell, or is on the way out, has nothing marked for sale, whatever its
\* status.
Sold(p) == piece[p].forSale => (seller.sells /\ ~seller.leaving) \/ Fell(p, {"unready", "lapsed"})

Good(p) == Fresh(p) /\ Biddable(p) /\ Auctioned(p) /\ OnItsBill(p) /\ Kept(p) /\ Sold(p)

PieceRows == [status : PieceStatuses, forSale : BOOLEAN, type : ListingTypes]
AuctionRows ==
  [status : {"none", "draft", "live", "settling", "unsold", "cancelled", "sold"},
   event : Events \cup {NoEvent}, bids : BOOLEAN]

\* The types of what is stored.
Columns ==
  /\ piece \in [Pieces -> PieceRows] /\ auction \in [Pieces -> AuctionRows]
  /\ sale \in [Pieces -> {"none", "pending", "paid", "done"}]
  /\ bill \in [Events -> [Pieces -> Modes]]
  /\ event \in [Events -> {"none", "draft", "published", "cancelled", "gone"}]
  /\ seller \in [sells : BOOLEAN, leaving : BOOLEAN, gone : BOOLEAN]
  /\ holes \in [Pieces -> SUBSET Holes]

Sound == Columns /\ \A p \in Pieces : Good(p)

\* A request is never mistaken about whether there is such a work: bids and sales do
\* not make or delete one.  Nor does it take a work for sold whose auction runs, unless
\* that has lost its listing.
Gone == {"none", "deleted"}

Read ==
  /\ seen \in [Pieces -> PieceStatuses]
  /\ \A p \in Pieces :
       /\ seen[p] \in Gone \/ piece[p].status \in Gone => ~Outdated(p)
       /\ Open(p) /\ seen[p] \in Committed => Fell(p, {"split", "stale"})

-----------------------------------------------------------------------------
(* Types and helpers. *)

LEMMA Typing ==
  ASSUME Columns, NEW p \in Pieces
  PROVE  /\ piece[p] \in PieceRows /\ auction[p] \in AuctionRows
         /\ sale[p] \in {"none", "pending", "paid", "done"} /\ holes[p] \subseteq Holes
         /\ piece[p].status \in PieceStatuses /\ piece[p].forSale \in BOOLEAN
         /\ piece[p].type \in ListingTypes
         /\ auction[p].bids \in BOOLEAN /\ auction[p].event \in Events \cup {NoEvent}
         /\ \A e \in Events : bill[e][p] \in Modes /\ event[e] \in {"none", "draft", "published", "cancelled", "gone"}
BY DEF Columns, PieceRows, AuctionRows

LEMMA AuctionTypes ==
  /\ NoAuction \in AuctionRows /\ NoAuction.status = "none" /\ ~NoAuction.bids
  /\ NoAuction.event = NoEvent
  /\ \A e \in Events \cup {NoEvent} :
       Started(e) \in AuctionRows /\ Started(e).status = "live" /\ Started(e).event = e /\ ~Started(e).bids
BY DEF NoAuction, Started, AuctionRows

LEMMA EdgesTyped ==
  ASSUME NEW s \in PieceStatuses
  PROVE  /\ Edges(s) \subseteq PieceStatuses \ {"none"}
         /\ s \in {"none", "deleted"} => Edges(s) = {}
         /\ "deleted" \in Edges(s) <=> s \in {"draft", "live", "delisted"}
BY DEF PieceStatuses, Edges

LEMMA Marked ==
  ASSUME NEW p \in Pieces, holes[p] \subseteq Holes, NEW hole \in Holes, NEW when
  PROVE  /\ Mark(p, hole, when) \subseteq Holes /\ holes[p] \subseteq Mark(p, hole, when)
         /\ when => hole \in Mark(p, hole, when)
         /\ \A h : h \in Mark(p, hole, when) => (h = hole /\ when) \/ h \in holes[p]
BY DEF Mark

\* A work nothing happens to.
LEMMA Elsewhere ==
  ASSUME NEW p \in Pieces, Good(p), piece'[p] = piece[p], auction'[p] = auction[p],
         sale'[p] = sale[p], holes'[p] = holes[p], \A e \in Events : bill'[e][p] = bill[e][p],
         auction[p].event \in Events \cup {NoEvent}, UNCHANGED <<event, seller>>
  PROVE  Good(p)'
BY DEF Good, Fresh, Biddable, Auctioned, OnItsBill, Kept, InProgress, Sold, Exists, Open, Running, Fell

\* Of the holes of a work only those of its run are forgotten, once it is over.
Lasts(p, marks) ==
  /\ holes'[p] \subseteq marks /\ marks \ RunHoles \subseteq holes'[p]
  /\ Running(p)' => holes'[p] = marks

LEMMA Lasted ==
  ASSUME NEW p \in Pieces, NEW marks \in SUBSET Holes, NEW run,
         holes'[p] = Lasting(marks, run), auction'[p] = run
  PROVE  Lasts(p, marks)
BY DEF Lasting, Lasts, Running

LEMMA RowsAt ==
  ASSUME Sound, NEW p \in Pieces, NEW row \in PieceRows, NEW run \in AuctionRows, NEW marks \in SUBSET Holes,
         Rows(p, row, run, marks)
  PROVE  /\ Columns' /\ (Good(p)' => Sound')
         /\ piece'[p] = row /\ auction'[p] = run /\ Lasts(p, marks)
         /\ sale' = sale /\ bill' = bill /\ event' = event /\ seller' = seller
<1> DEFINE left == Lasting(marks, run)
<1>1. left \in SUBSET Holes
  BY DEF Lasting
<1>2. /\ piece' = [piece EXCEPT ![p] = row] /\ auction' = [auction EXCEPT ![p] = run]
      /\ holes' = [holes EXCEPT ![p] = left]
      /\ sale' = sale /\ bill' = bill /\ event' = event /\ seller' = seller
  BY DEF Rows
<1> HIDE DEF left
<1>3. /\ piece'[p] = row /\ auction'[p] = run /\ holes'[p] = left
      /\ \A q \in Pieces \ {p} : piece'[q] = piece[q] /\ auction'[q] = auction[q] /\ holes'[q] = holes[q]
  BY <1>2 DEF Sound, Columns
<1>4. Columns'
  <2>1. piece' \in [Pieces -> PieceRows]
    BY <1>2 DEF Sound, Columns
  <2>2. auction' \in [Pieces -> AuctionRows]
    BY <1>2 DEF Sound, Columns
  <2>3. holes' \in [Pieces -> SUBSET Holes]
    BY <1>1, <1>2 DEF Sound, Columns
  <2> QED
    BY <1>2, <2>1, <2>2, <2>3 DEF Sound, Columns
<1>5. \A q \in Pieces \ {p} : Good(q)'
  BY <1>2, <1>3, Typing, Elsewhere DEF Sound
<1>6. Lasts(p, marks)
  BY <1>3, Lasted DEF left
<1> QED
  BY <1>2, <1>3, <1>4, <1>5, <1>6 DEF Sound

-----------------------------------------------------------------------------
(* What the owner's request has loaded. *)

LEMMA LoadedRow ==
  ASSUME Columns, Read, NEW p \in Pieces
  PROVE  /\ Loaded(p) \in PieceRows /\ Loaded(p).status = seen[p] /\ seen[p] \in PieceStatuses
         /\ Loaded(p).forSale = piece[p].forSale /\ Loaded(p).type = piece[p].type
         /\ ~Outdated(p) => Loaded(p) = piece[p] /\ seen[p] = piece[p].status
         /\ seen[p] \in Gone \/ piece[p].status \in Gone => ~Outdated(p)
<1>1. piece[p] \in PieceRows /\ seen[p] \in PieceStatuses
  BY Typing DEF Read
<1> QED
  BY <1>1 DEF Loaded, PieceRows, Read, Outdated

LEMMA FlushedRow ==
  ASSUME Columns, Read, NEW p \in Pieces, NEW row \in PieceRows
  PROVE  /\ Flushed(p, row) \in PieceRows
         /\ Flushed(p, row).forSale = row.forSale /\ Flushed(p, row).type = row.type
         /\ Flushed(p, row).status = IF row.status = seen[p] THEN piece[p].status ELSE row.status
         /\ ~Outdated(p) => Flushed(p, row) = row
<1>1. piece[p] \in PieceRows /\ piece[p].status \in PieceStatuses
  BY Typing
<1> QED
  BY <1>1 DEF Flushed, PieceRows, Outdated

\* What is marked when a request writes to a work.
LEMMA CrossedHoles ==
  ASSUME NEW p \in Pieces, holes[p] \subseteq Holes
  PROVE  /\ Crossed(p) \subseteq Holes /\ holes[p] \subseteq Crossed(p)
         /\ Outdated(p) => "stale" \in Crossed(p)
         /\ Outdated(p) /\ InProgress(p) => "crossed" \in Crossed(p)
         /\ ~Outdated(p) => Crossed(p) = holes[p]
         /\ \A h \in Crossed(p) : h \in {"stale", "crossed"} \/ h \in holes[p]
BY DEF Crossed, Mark, Holes, RunHoles, OrderHoles

\* A request that is out of date leaves a hole, whatever it writes.
LEMMA OutdatedGood ==
  ASSUME Sound, Read, NEW p \in Pieces, NEW marks, Outdated(p), piece'[p].status # "none",
         Crossed(p) \subseteq marks, Lasts(p, marks),
         "removed" \in marks => "removed" \in holes[p] \/ piece'[p].status = "deleted",
         auction'[p].status = "draft" => ~auction'[p].bids,
         sale' = sale, Sold(p)'
  PROVE  Good(p)'
<1>1. Good(p) /\ holes[p] \subseteq Holes /\ piece[p].status # "deleted"
  BY Typing DEF Sound, Read, Gone
<1>2. "removed" \notin holes[p]
  BY <1>1 DEF Good, Biddable
<1>3. "stale" \in marks /\ (InProgress(p) => "crossed" \in marks)
  BY <1>1, CrossedHoles
<1>4. Running(p)' => Fell(p, {"stale"})'
  BY <1>3 DEF Lasts, Fell
<1>5. "removed" \in holes'[p] => piece'[p].status = "deleted"
  BY <1>2 DEF Lasts
<1>6. Kept(p)'
  BY <1>3 DEF Lasts, Kept, InProgress, Fell, RunHoles
<1> QED
  BY <1>4, <1>5, <1>6 DEF Good, Fresh, Biddable, Auctioned, OnItsBill, Open, Running, Fell

-----------------------------------------------------------------------------
(* The owner. *)

LEMMA CreateSound ==
  ASSUME Sound, Acts, NEW p \in Pieces, NEW status \in {"draft", "live"}, NEW type \in ListingTypes, NEW dies \in BOOLEAN,
         Create(p, status, type, dies)
  PROVE  Sound'
<1> DEFINE row == [status |-> status, forSale |-> type # "none", type |-> type]
           run == IF type # "auction" \/ dies THEN NoAuction
                  ELSE [NoAuction EXCEPT !.status = IF status = "live" THEN "live" ELSE "draft"]
<1>1. row \in PieceRows /\ row.status = status /\ (row.forSale <=> type # "none") /\ row.type = type
  BY DEF PieceRows, PieceStatuses
<1>2. /\ run \in AuctionRows /\ run.event = NoEvent /\ ~run.bids
      /\ run.status \in {"live", "draft"} => type = "auction"
      /\ run.status = "live" => status = "live"
  BY AuctionTypes DEF AuctionRows
<1>3. Rows(p, row, run, {}) /\ Fresh(p) /\ piece[p].status = "none" /\ (type # "none" => seller.sells)
  BY DEF Create, Sound, Good, MayList
<1> HIDE DEF row, run
<1>4. /\ piece'[p] = row /\ auction'[p] = run /\ Lasts(p, {})
      /\ sale' = sale /\ bill' = bill /\ event' = event /\ seller' = seller
      /\ Good(p)' => Sound'
  BY <1>1, <1>2, <1>3, RowsAt
<1>5. holes'[p] = {}
  BY <1>4 DEF Lasts
<1>6. Good(p)'
  BY <1>1, <1>2, <1>3, <1>4, <1>5
     DEF Acts, Good, Fresh, Biddable, Auctioned, OnItsBill, Kept, InProgress, Sold, Exists, Open, Running, Fell, Listing
<1> QED
  BY <1>4, <1>6

LEMMA PatchSound ==
  ASSUME Sound, Acts, NEW p \in Pieces, NEW type \in ListingTypes \cup {"same"},
         NEW status \in {"same", "draft", "live", "delisted"}, Patch(p, type, status)
  PROVE  Sound'
<1> DEFINE old == piece[p]
           terms == WithTerms(old, type)
           to == IF status = "same" THEN terms.status ELSE status
           row == [terms EXCEPT !.status = to]
           marks == Mark(p, "split", Running(p) /\ ~HasBids(p))
                      \cup Mark(p, "reopened", InProgress(p))
<1>1. /\ Good(p) /\ old \in PieceRows /\ old.status \in PieceStatuses /\ holes[p] \subseteq Holes
      /\ old.forSale \in BOOLEAN /\ old.type \in ListingTypes
      /\ auction[p] \in AuctionRows /\ auction[p].bids \in BOOLEAN
  BY Typing DEF Sound
<1>2. /\ terms \in PieceRows /\ terms.status = old.status
      /\ IF type = "same" THEN terms = old ELSE (terms.forSale <=> type # "none") /\ terms.type = type
  BY <1>1 DEF WithTerms, PieceRows, ListingTypes
<1>3. /\ Exists(p) /\ (type # "same" => (TermsEditable(p) /\ (type # "none" => MayList)))
      /\ Moves(terms.status, to) /\ (to # terms.status => Withdrawable(terms, p, to))
      /\ row # old /\ Rows(p, row, auction[p], marks)
  BY DEF Patch
<1>4. to \in PieceStatuses \ {"none"}
  BY <1>1, <1>2, <1>3 DEF PieceStatuses, Exists
<1>5. /\ marks \subseteq Holes /\ holes[p] \subseteq marks
      /\ Running(p) /\ ~HasBids(p) => "split" \in marks
      /\ InProgress(p) => "reopened" \in marks
      /\ "removed" \in marks => "removed" \in holes[p]
  BY <1>1 DEF Mark, Holes, RunHoles, OrderHoles
<1>6. row \in PieceRows /\ row.status = to /\ row.forSale = terms.forSale /\ row.type = terms.type
  BY <1>2, <1>4 DEF PieceRows
<1>7. type = "same" /\ to = terms.status => row = old
  BY <1>1, <1>2 DEF PieceRows
<1> HIDE DEF row, marks, to, terms
<1>8. /\ piece'[p] = row /\ auction'[p] = auction[p] /\ Lasts(p, marks)
      /\ sale' = sale /\ bill' = bill /\ event' = event /\ seller' = seller
      /\ Good(p)' => Sound'
  BY <1>1, <1>3, <1>5, <1>6, RowsAt
<1>9. "removed" \notin holes[p] /\ piece[p].status # "none" /\ piece[p].status # "deleted"
  BY <1>1, <1>3 DEF Good, Biddable, Exists
\* Where somebody has bid on a work that is listed, nothing is patched.
<1>10. HasBids(p) => Fell(p, {"split", "stale"})
  <2>1. SUFFICES ASSUME HasBids(p), ~Fell(p, {"split", "stale"}) PROVE FALSE
    OBVIOUS
  <2>2. Open(p)
    BY <1>1, <2>1 DEF HasBids, Running, Open, Good, Biddable
  <2>3. Listing(old)
    BY <1>1, <1>3, <1>9, <2>1, <2>2 DEF Good, Biddable, Fell
  <2>4. type = "same"
    BY <1>3, <2>1, <2>3 DEF TermsEditable, Listing
  <2>5. to \in {"live", "draft", "delisted"}
    BY <1>2, <2>3 DEF to, Listing
  <2> QED
    BY <1>2, <1>3, <1>7, <2>1, <2>3, <2>4, <2>5 DEF Withdrawable, Listing
<1>11. Running(p)' => Fell(p, {"split", "stale"})'
  BY <1>5, <1>8, <1>10 DEF Fell, Lasts, Running
<1>12. Fresh(p)' /\ Kept(p)'
  BY <1>1, <1>4, <1>5, <1>6, <1>8 DEF Good, Fresh, Kept, InProgress, Fell, Lasts, RunHoles
<1>13. Biddable(p)' /\ Auctioned(p)' /\ OnItsBill(p)'
  BY <1>1, <1>5, <1>8, <1>9, <1>11 DEF Good, Biddable, Auctioned, OnItsBill, Fell, Open, Running, Lasts
<1>14. Sold(p)'
  BY <1>1, <1>2, <1>3, <1>5, <1>6, <1>8 DEF Good, Sold, Fell, Acts, MayList, Lasts, RunHoles
<1> QED
  BY <1>8, <1>12, <1>13, <1>14 DEF Good

LEMMA DeleteSound ==
  ASSUME Sound, Read, Acts, NEW p \in Pieces, Delete(p)
  PROVE  Sound'
<1> DEFINE row == [Loaded(p) EXCEPT !.status = "deleted"]
           new == Flushed(p, row)
           marks == Mark(p, "removed", HasBids(p)) \cup Crossed(p)
<1>1. /\ Good(p) /\ auction[p] \in AuctionRows /\ holes[p] \subseteq Holes
      /\ Loaded(p) \in PieceRows /\ Loaded(p).forSale = piece[p].forSale
      /\ Loaded(p).type = piece[p].type
      /\ ~Outdated(p) => seen[p] = piece[p].status
  BY Typing, LoadedRow DEF Sound
<1>2. /\ seen[p] \in {"draft", "live", "delisted"}
      /\ Rows(p, new, auction[p], marks)
  BY EdgesTyped DEF Delete, Read
<1>3. /\ row \in PieceRows /\ row.status = "deleted" /\ row.forSale = piece[p].forSale
      /\ row.type = piece[p].type
  BY <1>1 DEF PieceRows, PieceStatuses
<1> HIDE DEF row
<1>4. /\ new \in PieceRows /\ new.status = "deleted" /\ new.forSale = piece[p].forSale
      /\ new.type = piece[p].type
  BY <1>2, <1>3, FlushedRow DEF Sound
<1>5. /\ marks \subseteq Holes /\ Crossed(p) \subseteq marks /\ holes[p] \subseteq marks
      /\ HasBids(p) => "removed" \in marks
  BY <1>1, CrossedHoles DEF Mark, Holes, RunHoles
<1> HIDE DEF new, marks
<1>6. /\ piece'[p] = new /\ auction'[p] = auction[p] /\ Lasts(p, marks)
      /\ sale' = sale /\ bill' = bill /\ event' = event /\ seller' = seller
      /\ Good(p)' => Sound'
  BY <1>1, <1>2, <1>4, <1>5, RowsAt
<1>7. Sold(p)'
  BY <1>1, <1>4, <1>5, <1>6 DEF Good, Sold, Fell, Lasts, RunHoles
<1>8. CASE Outdated(p)
  <2>1. Good(p)'
    BY <1>1, <1>4, <1>5, <1>6, <1>7, <1>8, OutdatedGood DEF Good, Biddable
  <2> QED
    BY <1>6, <2>1
<1>9. CASE ~Outdated(p)
  <2>1. Biddable(p)'
    BY <1>1, <1>4, <1>5, <1>6 DEF Good, Biddable, Fell, Open, Exists, HasBids, Running, Lasts
  <2>2. Fresh(p)' /\ Auctioned(p)' /\ OnItsBill(p)'
    BY <1>1, <1>4, <1>5, <1>6 DEF Good, Fresh, Auctioned, OnItsBill, Fell, Open, Running, Lasts
  <2>3. Kept(p)'
    BY <1>1, <1>2, <1>5, <1>6, <1>9 DEF Good, Kept, InProgress, Fell, Lasts, RunHoles
  <2> QED
    BY <1>6, <1>7, <2>1, <2>2, <2>3 DEF Good
<1> QED
  BY <1>8, <1>9

LEMMA RelistSound ==
  ASSUME Sound, Read, Acts, NEW p \in Pieces, Relist(p)
  PROVE  Sound'
<1> DEFINE row == [Loaded(p) EXCEPT !.status = "live"]
           new == Flushed(p, row)
           run == Started(NoEvent)
           marks == Mark(p, "split", row.type # "auction" \/ ~row.forSale) \cup Crossed(p)
<1>1. /\ Good(p) /\ piece[p] \in PieceRows /\ holes[p] \subseteq Holes
      /\ Loaded(p) \in PieceRows /\ Loaded(p).forSale = piece[p].forSale
      /\ Loaded(p).type = piece[p].type
      /\ ~Outdated(p) => seen[p] = piece[p].status
  BY Typing, LoadedRow DEF Sound
<1>2. /\ Exists(p) /\ seller.sells /\ seen[p] \in {"delisted", "auction_won", "live"}
      /\ Rows(p, new, run, marks)
  BY DEF Relist, MayList
<1>3. /\ row \in PieceRows /\ row.status = "live" /\ row.forSale = piece[p].forSale
      /\ row.type = piece[p].type
  BY <1>1 DEF PieceRows, PieceStatuses
<1> HIDE DEF row
<1>4. /\ new \in PieceRows /\ new.status \notin Gone /\ new.forSale = piece[p].forSale
      /\ new.type = piece[p].type /\ (~Outdated(p) => new.status = "live")
  <2>1. /\ new \in PieceRows /\ new.forSale = row.forSale /\ new.type = row.type
        /\ new.status = IF row.status = seen[p] THEN piece[p].status ELSE row.status
    BY <1>3, FlushedRow DEF Sound
  <2> HIDE DEF new
  <2> QED
    BY <1>1, <1>2, <1>3, <2>1 DEF Gone, Exists
<1>5. /\ marks \subseteq Holes /\ Crossed(p) \subseteq marks /\ holes[p] \subseteq marks
      /\ (piece[p].type # "auction" \/ ~piece[p].forSale) => "split" \in marks
      /\ "removed" \in marks => "removed" \in holes[p]
  BY <1>1, <1>3, CrossedHoles DEF Mark, Holes, RunHoles
<1>6. run \in AuctionRows /\ run.status = "live" /\ run.event = NoEvent /\ ~run.bids
  BY AuctionTypes
<1> HIDE DEF new, run, marks
<1>7. /\ piece'[p] = new /\ auction'[p] = run /\ Lasts(p, marks)
      /\ sale' = sale /\ bill' = bill /\ event' = event /\ seller' = seller
      /\ Good(p)' => Sound'
  BY <1>1, <1>2, <1>4, <1>5, <1>6, RowsAt
<1>8. Sold(p)'
  BY <1>1, <1>2, <1>4, <1>5, <1>7 DEF Good, Sold, Fell, Lasts, RunHoles, Acts
<1>9. CASE Outdated(p)
  <2>1. Good(p)'
    BY <1>4, <1>5, <1>6, <1>7, <1>8, <1>9, OutdatedGood DEF Gone
  <2> QED
    BY <1>7, <2>1
<1>10. CASE ~Outdated(p)
  <2>1. "removed" \notin holes[p]
    BY <1>1, <1>2 DEF Good, Biddable, Exists
  <2>2. Biddable(p)' /\ Auctioned(p)' /\ OnItsBill(p)'
    BY <1>1, <1>4, <1>5, <1>6, <1>7, <1>10, <2>1
       DEF Good, Biddable, Auctioned, OnItsBill, Fell, Open, Exists, Running, Listing, Lasts
  <2>3. Fresh(p)' /\ Kept(p)'
    BY <1>1, <1>2, <1>4, <1>5, <1>7, <1>10 DEF Good, Fresh, Kept, InProgress, Fell, Lasts, RunHoles, Gone
  <2> QED
    BY <1>7, <1>8, <2>2, <2>3 DEF Good
<1> QED
  BY <1>9, <1>10

\* What cancelling an auction makes of a work and of its auction.
LEMMA CancelledRows ==
  ASSUME Columns, Read, NEW p \in Pieces
  PROVE  /\ Cancelled(p).row \in PieceRows /\ Cancelled(p).run \in AuctionRows
         /\ Cancelled(p).row.forSale = piece[p].forSale /\ Cancelled(p).row.type = piece[p].type
         /\ IF Open(p) /\ seen[p] = "live" THEN Cancelled(p).row.status = "delisted"
            ELSE Cancelled(p).row = Loaded(p)
         /\ IF Open(p) THEN Cancelled(p).run.status = "cancelled" /\ ~Cancelled(p).run.bids
            ELSE Cancelled(p).run = auction[p]
<1>1. /\ auction[p] \in AuctionRows /\ Loaded(p) \in PieceRows /\ Loaded(p).status = seen[p]
      /\ Loaded(p).forSale = piece[p].forSale /\ Loaded(p).type = piece[p].type
  BY Typing, LoadedRow
<1>2. CASE Open(p)
  <2>1. Cancelled(p).run = [auction[p] EXCEPT !.status = "cancelled", !.bids = FALSE]
    BY <1>2 DEF Cancelled
  <2>2. Cancelled(p).row = IF seen[p] = "live" THEN [Loaded(p) EXCEPT !.status = "delisted"] ELSE Loaded(p)
    BY <1>2 DEF Cancelled
  <2> HIDE DEF Cancelled
  <2>3. /\ Cancelled(p).run \in AuctionRows
        /\ Cancelled(p).run.status = "cancelled" /\ ~Cancelled(p).run.bids
    BY <1>1, <2>1 DEF AuctionRows
  <2>4. /\ Cancelled(p).row \in PieceRows
        /\ Cancelled(p).row.forSale = piece[p].forSale /\ Cancelled(p).row.type = piece[p].type
        /\ IF seen[p] = "live" THEN Cancelled(p).row.status = "delisted"
           ELSE Cancelled(p).row = Loaded(p)
    BY <1>1, <2>2 DEF PieceRows, PieceStatuses
  <2> QED
    BY <1>2, <2>3, <2>4
<1>3. CASE ~Open(p)
  BY <1>1, <1>3 DEF Cancelled
<1> QED
  BY <1>2, <1>3

\* A work whose listing ends, one way or another, without any new hole.
LEMMA EndedGood ==
  ASSUME Sound, NEW p \in Pieces, piece[p].status # "none",
         piece'[p] \in PieceRows, auction'[p] \in AuctionRows,
         piece'[p].forSale => piece[p].forSale, piece'[p].type = piece[p].type,
         \/ piece'[p].status = piece[p].status
         \/ /\ piece'[p].status \in {"delisted", "auction_won"}
            /\ piece[p].status \notin {"deleted", "reserved", "sold"},
         auction'[p].status # "live",
         auction'[p].status = "draft" => auction'[p] = auction[p],
         sale' = sale, Lasts(p, holes[p]), UNCHANGED seller
  PROVE  Good(p)'
<1>1. Good(p)
  BY DEF Sound
<1> QED
  BY <1>1 DEF Good, Fresh, Biddable, Auctioned, OnItsBill, Kept, InProgress, Sold, Fell, Open, Running, Lasts, RunHoles

\* The same, of what a request makes of a work it has loaded, in or out of date.
Ends(p, row, run) ==
  /\ row \in PieceRows /\ run \in AuctionRows
  /\ row.forSale => piece[p].forSale
  /\ row.type = piece[p].type
  /\ row.status = seen[p] \/ (row.status = "delisted" /\ seen[p] = "live")
  /\ run.status # "live" /\ (run.status = "draft" => run = auction[p])

LEMMA EndsGood ==
  ASSUME Sound, Read, NEW p \in Pieces, NEW row, NEW run, Ends(p, row, run), piece[p].status # "none",
         piece'[p] = Flushed(p, row), auction'[p] = run, Lasts(p, Crossed(p)),
         sale' = sale, UNCHANGED seller
  PROVE  Good(p)' /\ piece'[p] \in PieceRows
<1>1. /\ Good(p) /\ holes[p] \subseteq Holes /\ seen[p] \in PieceStatuses
      /\ ~Outdated(p) => seen[p] = piece[p].status
  BY Typing, LoadedRow DEF Sound
<1>2. /\ row \in PieceRows /\ run \in AuctionRows /\ (row.forSale => piece[p].forSale)
      /\ row.type = piece[p].type /\ (row.status = seen[p] \/ (row.status = "delisted" /\ seen[p] = "live"))
      /\ run.status # "live" /\ (run.status = "draft" => run = auction[p])
  BY DEF Ends
<1>3. /\ piece'[p] \in PieceRows /\ piece'[p].forSale = row.forSale /\ piece'[p].type = row.type
      /\ piece'[p].status = IF row.status = seen[p] THEN piece[p].status ELSE row.status
      /\ ~Outdated(p) => piece'[p] = row
  BY <1>2, FlushedRow DEF Sound
<1>4. CASE Outdated(p)
  <2>1. piece'[p].status # "none"
    BY <1>2, <1>3
  <2>2. Sold(p)'
    BY <1>1, <1>2, <1>3, CrossedHoles DEF Good, Sold, Fell, Lasts, RunHoles
  <2>3. "removed" \in Crossed(p) => "removed" \in holes[p]
    BY <1>1, CrossedHoles
  <2>4. auction'[p].status = "draft" => ~auction'[p].bids
    BY <1>1, <1>2 DEF Good, Biddable
  <2> QED
    BY <1>3, <1>4, <2>1, <2>2, <2>3, <2>4, OutdatedGood
<1>5. CASE ~Outdated(p)
  <2>1. Lasts(p, holes[p])
    BY <1>1, <1>5, CrossedHoles
  <2>2. piece'[p].forSale => piece[p].forSale
    BY <1>2, <1>3
  <2>3. piece'[p].type = piece[p].type
    BY <1>2, <1>3
  <2>4. \/ piece'[p].status = piece[p].status
        \/ /\ piece'[p].status \in {"delisted", "auction_won"}
           /\ piece[p].status \notin {"deleted", "reserved", "sold"}
    BY <1>1, <1>2, <1>3, <1>5
  <2>5. auction'[p] \in AuctionRows /\ auction'[p].status # "live"
        /\ (auction'[p].status = "draft" => auction'[p] = auction[p])
    BY <1>2
  <2> QED
    BY <1>3, <2>1, <2>2, <2>3, <2>4, <2>5, EndedGood
<1> QED
  BY <1>4, <1>5

LEMMA CancelledEnds ==
  ASSUME Columns, Read, NEW p \in Pieces
  PROVE  Ends(p, Cancelled(p).row, Cancelled(p).run)
BY CancelledRows, LoadedRow, Typing DEF Ends, Open

LEMMA CancelAuctionSound ==
  ASSUME Sound, Read, Acts, NEW p \in Pieces, CancelAuction(p)
  PROVE  Sound'
<1> DEFINE row == Cancelled(p).row
           run == Cancelled(p).run
<1>1. /\ Exists(p) /\ Rows(p, Flushed(p, row), run, Crossed(p)) /\ Ends(p, row, run)
      /\ holes[p] \subseteq Holes
  BY Typing, CancelledEnds DEF CancelAuction, Sound
<1> HIDE DEF row, run
<1>2. row \in PieceRows /\ run \in AuctionRows /\ Crossed(p) \subseteq Holes
  BY <1>1, CrossedHoles DEF Ends
<1>3. Flushed(p, row) \in PieceRows
  BY <1>2, FlushedRow DEF Sound
<1>4. /\ piece'[p] = Flushed(p, row) /\ auction'[p] = run /\ Lasts(p, Crossed(p))
      /\ sale' = sale /\ bill' = bill /\ event' = event /\ seller' = seller
      /\ Good(p)' => Sound'
  BY <1>1, <1>2, <1>3, RowsAt
<1>5. Good(p)'
  BY <1>1, <1>4, EndsGood DEF Exists
<1> QED
  BY <1>4, <1>5

LEMMA OwnerSound ==
  ASSUME Sound, Read, Acts, NEW p \in Pieces, Owner(p)
  PROVE  Sound'
BY CreateSound, PatchSound, DeleteSound, RelistSound, CancelAuctionSound DEF Owner

-----------------------------------------------------------------------------
(* Bids and sales. *)

LEMMA BidSound ==
  ASSUME Sound, NEW p \in Pieces, Bid(p)
  PROVE  Sound'
<1> DEFINE run == [auction[p] EXCEPT !.bids = TRUE]
<1>1. /\ Good(p) /\ piece[p] \in PieceRows /\ auction[p] \in AuctionRows /\ holes[p] \subseteq Holes
      /\ Exists(p) /\ Open(p) /\ Rows(p, piece[p], run, holes[p])
  BY Typing DEF Bid, Sound
<1>2. /\ run \in AuctionRows /\ run.status = "live" /\ run.event = auction[p].event
  BY <1>1 DEF AuctionRows, Open
<1> HIDE DEF run
<1>3. /\ piece'[p] = piece[p] /\ auction'[p] = run /\ Lasts(p, holes[p])
      /\ sale' = sale /\ bill' = bill /\ event' = event /\ seller' = seller
      /\ Good(p)' => Sound'
  BY <1>1, <1>2, RowsAt
<1>4. Good(p)'
  BY <1>1, <1>2, <1>3 DEF Good, Fresh, Biddable, Auctioned, OnItsBill, Kept, InProgress, Sold, Fell, Open, Running, Exists, Lasts, RunHoles
<1> QED
  BY <1>3, <1>4

LEMMA ClosingSound ==
  ASSUME Sound, NEW p \in Pieces, CloseUnsold(p) \/ CloseWon(p) \/ WinnersFail(p)
  PROVE  Sound'
<1>1. Good(p) /\ piece[p] \in PieceRows /\ auction[p] \in AuctionRows /\ holes[p] \subseteq Holes
  BY Typing DEF Sound
<1>2. piece[p].status # "none"
  BY <1>1, AuctionTypes DEF Good, Fresh, CloseUnsold, CloseWon, WinnersFail, Open
<1>3. PICK row \in PieceRows, run \in AuctionRows :
        /\ Rows(p, row, run, holes[p])
        /\ row.forSale = piece[p].forSale /\ row.type = piece[p].type
        /\ \/ row.status = piece[p].status
           \/ /\ row.status \in {"delisted", "auction_won"}
              /\ piece[p].status \notin {"deleted", "reserved", "sold"}
        /\ run.status \in {"unsold", "settling"}
  <2> DEFINE off == [piece[p] EXCEPT !.status = "delisted"]
             won == [piece[p] EXCEPT !.status = "auction_won"]
             unsold == [auction[p] EXCEPT !.status = "unsold", !.bids = FALSE]
             settling == [auction[p] EXCEPT !.status = "settling"]
  <2>1. /\ off \in PieceRows /\ off.status = "delisted" /\ off.forSale = piece[p].forSale /\ off.type = piece[p].type
        /\ won \in PieceRows /\ won.status = "auction_won" /\ won.forSale = piece[p].forSale /\ won.type = piece[p].type
    BY <1>1 DEF PieceRows, PieceStatuses
  <2>2. /\ unsold \in AuctionRows /\ unsold.status = "unsold"
        /\ settling \in AuctionRows /\ settling.status = "settling"
    BY <1>1 DEF AuctionRows
  <2>3. CASE CloseUnsold(p)
    <3>1. Rows(p, off, unsold, holes[p]) /\ piece[p].status \in {"live", "delisted"}
      BY <2>3 DEF CloseUnsold
    <3> HIDE DEF off, unsold
    <3> QED
      BY <2>1, <2>2, <3>1
  <2>4. CASE CloseWon(p)
    <3>1. Rows(p, won, settling, holes[p]) /\ piece[p].status \in {"live", "auction_won"}
      BY <2>4 DEF CloseWon
    <3> HIDE DEF won, settling
    <3> QED
      BY <2>1, <2>2, <3>1
  <2>5. CASE WinnersFail(p)
    <3>1. Rows(p, IF piece[p].status = "auction_won" THEN off ELSE piece[p], unsold, holes[p])
      BY <2>5 DEF WinnersFail
    <3> HIDE DEF off, unsold
    <3> QED
      BY <1>1, <2>1, <2>2, <3>1
  <2> QED
    BY <2>3, <2>4, <2>5
<1>4. /\ piece'[p] = row /\ auction'[p] = run /\ Lasts(p, holes[p])
      /\ sale' = sale /\ bill' = bill /\ event' = event /\ seller' = seller
      /\ Good(p)' => Sound'
  BY <1>1, <1>3, RowsAt
<1>5. Good(p)'
  BY <1>2, <1>3, <1>4, EndedGood
<1> QED
  BY <1>4, <1>5

\* An order begins, goes on or ends.
LEMMA SaleSound ==
  ASSUME Sound, NEW p \in Pieces, Buy(p) \/ BuyWon(p) \/ Pay(p) \/ Release(p) \/ Complete(p)
  PROVE  Sound'
<1>1. Good(p) /\ piece[p] \in PieceRows /\ auction[p] \in AuctionRows
  BY Typing DEF Sound
<1>2. /\ UNCHANGED <<bill, event, seller>>
      /\ \/ holes' = holes
         \/ holes' = [holes EXCEPT ![p] = @ \ OrderHoles] /\ sale'[p] \in {"none", "done"}
  BY DEF Buy, BuyWon, Ordered, Pay, Release, Complete, Sound, Columns
<1>3. PICK row \in PieceRows, sold \in {"none", "pending", "paid", "done"}, run \in AuctionRows :
        /\ piece' = [piece EXCEPT ![p] = row] /\ sale' = [sale EXCEPT ![p] = sold]
        /\ auction' = [auction EXCEPT ![p] = run]
        /\ row.forSale = piece[p].forSale /\ row.type = piece[p].type
        /\ \/ row = piece[p]
           \/ /\ ~Listing(piece[p]) /\ piece[p].status \notin {"none", "deleted"}
              /\ row.status \notin {"none", "deleted"}
        /\ sold \in {"pending", "paid"} => row.status \in {"reserved", "sold"}
        /\ run = auction[p] \/ run.status = "sold"
        /\ piece[p].status # "none"
  <2> DEFINE To(status) == [piece[p] EXCEPT !.status = status]
             over == [auction[p] EXCEPT !.status = "sold"]
  <2>1. \A status \in PieceStatuses :
          /\ To(status) \in PieceRows /\ To(status).status = status
          /\ To(status).forSale = piece[p].forSale /\ To(status).type = piece[p].type
          /\ [piece EXCEPT ![p].status = status] = [piece EXCEPT ![p] = To(status)]
    BY <1>1 DEF PieceRows, Sound, Columns
  <2>2. over \in AuctionRows /\ over.status = "sold"
    BY <1>1 DEF AuctionRows
  <2>3. /\ {"live", "reserved", "sold", "auction_won", "delisted"} \subseteq PieceStatuses
        /\ auction = [auction EXCEPT ![p] = auction[p]] /\ piece = [piece EXCEPT ![p] = piece[p]]
        /\ sale[p] # "none" => piece[p].status # "none"
    BY <1>1 DEF PieceStatuses, Sound, Columns, Good, Fresh
  <2>4. CASE Buy(p)
    <3>1. /\ piece' = [piece EXCEPT ![p].status = "reserved"] /\ sale' = [sale EXCEPT ![p] = "pending"]
          /\ auction' = auction /\ piece[p].status = "live" /\ piece[p].type = "fixed"
      BY <2>3, <2>4 DEF Buy, Ordered
    <3>2. /\ piece' = [piece EXCEPT ![p] = To("reserved")] /\ auction' = [auction EXCEPT ![p] = auction[p]]
          /\ To("reserved") \in PieceRows /\ To("reserved").status = "reserved"
          /\ To("reserved").forSale = piece[p].forSale /\ To("reserved").type = piece[p].type
      BY <2>1, <2>3, <3>1
    <3> HIDE DEF To
    <3> QED
      BY <1>1, <3>1, <3>2 DEF Listing
  <2>5. CASE BuyWon(p)
    <3>1. /\ piece' = [piece EXCEPT ![p].status = "reserved"] /\ sale' = [sale EXCEPT ![p] = "pending"]
          /\ auction' = [auction EXCEPT ![p] = over] /\ piece[p].status = "auction_won"
      BY <2>5 DEF BuyWon, Ordered
    <3>2. /\ piece' = [piece EXCEPT ![p] = To("reserved")]
          /\ To("reserved") \in PieceRows /\ To("reserved").status = "reserved"
          /\ To("reserved").forSale = piece[p].forSale /\ To("reserved").type = piece[p].type
      BY <2>1, <2>3, <3>1
    <3> HIDE DEF To, over
    <3> QED
      BY <2>2, <3>1, <3>2 DEF Listing
  <2>6. CASE Pay(p)
    <3>1. /\ piece' = [piece EXCEPT ![p].status = "sold"] /\ sale' = [sale EXCEPT ![p] = "paid"]
          /\ auction' = [auction EXCEPT ![p] = auction[p]] /\ piece[p].status \in {"reserved", "sold"}
      BY <2>3, <2>6 DEF Pay
    <3>2. /\ piece' = [piece EXCEPT ![p] = To("sold")]
          /\ To("sold") \in PieceRows /\ To("sold").status = "sold"
          /\ To("sold").forSale = piece[p].forSale /\ To("sold").type = piece[p].type
      BY <2>1, <2>3, <3>1
    <3> HIDE DEF To
    <3> QED
      BY <1>1, <3>1, <3>2 DEF Listing
  <2>7. CASE Release(p) /\ piece[p].status \in {"reserved", "sold"}
    <3>1. PICK status \in {"live", "auction_won", "delisted"} :
            piece' = [piece EXCEPT ![p].status = status]
      <4>1. ReleaseTarget(p) \in {"live", "auction_won", "delisted"}
        BY DEF ReleaseTarget
      <4> QED
        BY <2>7, <4>1 DEF Release
    <3>2. sale' = [sale EXCEPT ![p] = "none"] /\ auction' = [auction EXCEPT ![p] = auction[p]]
      BY <2>3, <2>7 DEF Release
    <3>3. /\ piece' = [piece EXCEPT ![p] = To(status)]
          /\ To(status) \in PieceRows /\ To(status).status = status
          /\ To(status).forSale = piece[p].forSale /\ To(status).type = piece[p].type
      BY <2>1, <2>3, <3>1
    <3> HIDE DEF To
    <3> QED
      BY <1>1, <2>7, <3>2, <3>3 DEF Listing
  <2>8. CASE Release(p) /\ piece[p].status \notin {"reserved", "sold"}
    <3>1. /\ piece' = [piece EXCEPT ![p] = piece[p]] /\ sale' = [sale EXCEPT ![p] = "none"]
          /\ auction' = [auction EXCEPT ![p] = auction[p]] /\ piece[p].status # "none"
      BY <2>3, <2>8 DEF Release
    <3> QED
      BY <1>1, <3>1
  <2>9. CASE Complete(p)
    <3>1. /\ piece' = [piece EXCEPT ![p] = piece[p]] /\ sale' = [sale EXCEPT ![p] = "done"]
          /\ auction' = [auction EXCEPT ![p] = auction[p]] /\ piece[p].status # "none"
      BY <2>3, <2>9 DEF Complete
    <3> QED
      BY <1>1, <3>1
  <2> QED
    BY <2>4, <2>5, <2>6, <2>7, <2>8, <2>9
<1>4. /\ piece'[p] = row /\ sale'[p] = sold /\ auction'[p] = run
      /\ holes'[p] = holes[p] \/ (holes'[p] = holes[p] \ OrderHoles /\ sold \notin {"pending", "paid"})
      /\ \A q \in Pieces \ {p} : /\ piece'[q] = piece[q] /\ sale'[q] = sale[q]
                                 /\ auction'[q] = auction[q] /\ holes'[q] = holes[q]
  BY <1>2, <1>3 DEF Sound, Columns
<1>5. Good(p)'
  BY <1>1, <1>2, <1>3, <1>4
     DEF Good, Fresh, Biddable, Auctioned, OnItsBill, Kept, InProgress, Sold, Fell, Open, Running, Exists, OrderHoles
<1>6. \A q \in Pieces \ {p} : Good(q)'
  BY <1>2, <1>4, Typing, Elsewhere DEF Sound
<1>7. Columns'
  <2>1. piece' \in [Pieces -> PieceRows] /\ auction' \in [Pieces -> AuctionRows]
    BY <1>3 DEF Sound, Columns
  <2>2. sale' \in [Pieces -> {"none", "pending", "paid", "done"}]
    BY <1>3 DEF Sound, Columns
  <2> QED
    BY <1>2, <2>1, <2>2 DEF Sound, Columns
<1> QED
  BY <1>5, <1>6, <1>7 DEF Sound

LEMMA SalesSound ==
  ASSUME Sound, NEW p \in Pieces, Sales(p)
  PROVE  Sound'
BY BidSound, ClosingSound, SaleSound DEF Sales

\* No sale makes a work or deletes it.
LEMMA SalesMove ==
  ASSUME Sound, NEW p \in Pieces, Sales(p)
  PROVE  /\ \A q \in Pieces \ {p} : piece'[q] = piece[q]
         /\ piece'[p].status # piece[p].status => piece[p].status \notin Gone /\ piece'[p].status \notin Gone
<1>1. piece[p] \in PieceRows /\ piece \in [Pieces -> PieceRows]
  BY Typing DEF Sound, Columns
<1>2. PICK row :
        /\ piece' = [piece EXCEPT ![p] = row]
        /\ row.status # piece[p].status => piece[p].status \notin Gone /\ row.status \notin Gone
  <2> DEFINE To(status) == [piece[p] EXCEPT !.status = status]
  <2>1. /\ \A status \in PieceStatuses :
             To(status).status = status /\ [piece EXCEPT ![p].status = status] = [piece EXCEPT ![p] = To(status)]
        /\ piece = [piece EXCEPT ![p] = piece[p]]
        /\ {"live", "reserved", "sold", "auction_won", "delisted"} \subseteq PieceStatuses \ Gone
    BY <1>1 DEF PieceRows, PieceStatuses, Gone
  <2>2. CASE Bid(p) \/ Complete(p)
    BY <2>1, <2>2 DEF Bid, Rows, Complete
  <2>3. CASE CloseUnsold(p)
    <3>1. piece' = [piece EXCEPT ![p] = To("delisted")] /\ piece[p].status \in {"live", "delisted"}
      BY <2>3 DEF CloseUnsold, Rows
    <3> HIDE DEF To
    <3> QED
      BY <2>1, <3>1 DEF Gone
  <2>4. CASE CloseWon(p)
    <3>1. piece' = [piece EXCEPT ![p] = To("auction_won")] /\ piece[p].status \in {"live", "auction_won"}
      BY <2>4 DEF CloseWon, Rows
    <3> HIDE DEF To
    <3> QED
      BY <2>1, <3>1 DEF Gone
  <2>5. CASE WinnersFail(p)
    <3>1. piece' = [piece EXCEPT ![p] = IF piece[p].status = "auction_won" THEN To("delisted") ELSE piece[p]]
      BY <2>5 DEF WinnersFail, Rows
    <3> HIDE DEF To
    <3> QED
      BY <2>1, <3>1 DEF Gone
  <2>6. CASE Buy(p) \/ BuyWon(p)
    <3>1. piece' = [piece EXCEPT ![p].status = "reserved"] /\ piece[p].status \in {"live", "auction_won"}
      BY <2>6 DEF Buy, BuyWon, Ordered
    <3>2. piece' = [piece EXCEPT ![p] = To("reserved")]
      BY <2>1, <3>1
    <3> HIDE DEF To
    <3> QED
      BY <2>1, <3>1, <3>2 DEF Gone
  <2>7. CASE Pay(p)
    <3>1. piece' = [piece EXCEPT ![p].status = "sold"] /\ piece[p].status \in {"reserved", "sold"}
      BY <2>7 DEF Pay
    <3>2. piece' = [piece EXCEPT ![p] = To("sold")]
      BY <2>1, <3>1
    <3> HIDE DEF To
    <3> QED
      BY <2>1, <3>1, <3>2 DEF Gone
  <2>8. CASE Release(p)
    <3>1. PICK status \in {"live", "auction_won", "delisted"} :
            \/ piece' = [piece EXCEPT ![p].status = status] /\ piece[p].status \in {"reserved", "sold"}
            \/ piece' = piece
      <4>1. ReleaseTarget(p) \in {"live", "auction_won", "delisted"}
        BY DEF ReleaseTarget
      <4> QED
        BY <2>8, <4>1 DEF Release
    <3>2. \/ piece' = [piece EXCEPT ![p] = To(status)] /\ piece[p].status \in {"reserved", "sold"}
          \/ piece' = [piece EXCEPT ![p] = piece[p]]
      BY <2>1, <3>1
    <3> HIDE DEF To
    <3> QED
      BY <2>1, <3>1, <3>2 DEF Gone
  <2> QED
    BY <2>2, <2>3, <2>4, <2>5, <2>6, <2>7, <2>8 DEF Sales
<1> QED
  BY <1>1, <1>2

\* Nor does a sale open an auction, or mend one.
LEMMA SalesStayOpen ==
  ASSUME Sound, NEW p \in Pieces, NEW q \in Pieces, Sales(p), Open(q)'
  PROVE  Open(q) /\ (Fell(q, {"split", "stale"}) => Fell(q, {"split", "stale"})')
<1>1. auction[p] \in AuctionRows /\ auction \in [Pieces -> AuctionRows] /\ holes \in [Pieces -> SUBSET Holes]
  BY Typing DEF Sound, Columns
<1>2. CASE Bid(p) \/ CloseUnsold(p) \/ CloseWon(p) \/ WinnersFail(p)
  <2>1. PICK run \in AuctionRows :
          /\ auction' = [auction EXCEPT ![p] = run] /\ holes' = [holes EXCEPT ![p] = Lasting(holes[p], run)]
          /\ run.status = "live" => Open(p)
    <3> DEFINE bid == [auction[p] EXCEPT !.bids = TRUE]
               unsold == [auction[p] EXCEPT !.status = "unsold", !.bids = FALSE]
               settling == [auction[p] EXCEPT !.status = "settling"]
    <3>1. /\ bid \in AuctionRows /\ unsold \in AuctionRows /\ settling \in AuctionRows
          /\ unsold.status = "unsold" /\ settling.status = "settling"
      BY <1>1 DEF AuctionRows
    <3>2. CASE Bid(p)
      <4>1. Open(p) /\ Rows(p, piece[p], bid, holes[p])
        BY <3>2 DEF Bid
      <4> HIDE DEF bid
      <4> QED
        BY <3>1, <4>1 DEF Rows
    <3>3. CASE CloseUnsold(p) \/ CloseWon(p) \/ WinnersFail(p)
      <4>1. \E row : Rows(p, row, unsold, holes[p]) \/ Rows(p, row, settling, holes[p])
        BY <3>3 DEF CloseUnsold, CloseWon, WinnersFail
      <4> HIDE DEF unsold, settling
      <4> QED
        BY <3>1, <4>1 DEF Rows
    <3> QED
      BY <1>2, <3>2, <3>3
  <2> QED
    BY <1>1, <2>1 DEF Open, Fell, Lasting
<1>3. CASE Buy(p) \/ BuyWon(p) \/ Pay(p) \/ Release(p) \/ Complete(p)
  <2>1. PICK run \in AuctionRows :
          /\ auction' = [auction EXCEPT ![p] = run] /\ (run = auction[p] \/ run.status = "sold")
    <3> DEFINE over == [auction[p] EXCEPT !.status = "sold"]
    <3>1. over \in AuctionRows /\ over.status = "sold" /\ auction = [auction EXCEPT ![p] = auction[p]]
      BY <1>1 DEF AuctionRows
    <3>2. auction' = [auction EXCEPT ![p] = over] \/ auction' = [auction EXCEPT ![p] = auction[p]]
      BY <1>3, <3>1 DEF Buy, BuyWon, Ordered, Pay, Release, Complete
    <3> HIDE DEF over
    <3> QED
      BY <1>1, <3>1, <3>2
  <2>2. holes' = holes \/ holes' = [holes EXCEPT ![p] = @ \ OrderHoles]
    BY <1>3 DEF Buy, BuyWon, Ordered, Pay, Release, Complete
  <2>3. holes[q] \cap {"split", "stale"} \subseteq holes'[q]
    BY <1>1, <2>2 DEF OrderHoles
  <2>4. Open(q)
    BY <1>1, <2>1 DEF Open
  <2> QED
    BY <2>3, <2>4 DEF Fell
<1> QED
  BY <1>2, <1>3 DEF Sales

LEMMA SalesRead ==
  ASSUME Sound, Read, NEW p \in Pieces, Sales(p), Loads(p)
  PROVE  Read'
<1>1. Sound' /\ piece'[p].status \in PieceStatuses
  BY SalesSound DEF Sound, Columns, PieceRows
<1>2. seen \in [Pieces -> PieceStatuses] /\ (seen' = seen \/ seen' = [seen EXCEPT ![p] = piece'[p].status])
  BY DEF Read, Loads
<1>3. seen' \in [Pieces -> PieceStatuses]
  BY <1>1, <1>2
<1>4. \A q \in Pieces \ {p} : seen'[q] = seen[q] /\ piece'[q] = piece[q]
  BY <1>2, SalesMove
<1>5. /\ seen'[p] = piece'[p].status \/ seen'[p] = seen[p]
      /\ piece'[p].status # piece[p].status => piece[p].status \notin Gone /\ piece'[p].status \notin Gone
  BY <1>2, SalesMove
<1>6. ASSUME NEW q \in Pieces, seen'[q] \in Gone \/ piece'[q].status \in Gone
      PROVE  ~Outdated(q)'
  BY <1>4, <1>5, <1>6 DEF Read, Outdated
<1>7. ASSUME NEW q \in Pieces, Open(q)', seen'[q] \in Committed
      PROVE  Fell(q, {"split", "stale"})'
  <2>1. CASE seen'[q] = seen[q]
    BY <1>7, <2>1, SalesStayOpen DEF Read
  <2>2. CASE seen'[q] = piece'[q].status
    <3>1. (Good(q) /\ Open(q) /\ piece[q].status \in Committed)'
      BY <1>1, <1>7, <2>2 DEF Sound
    <3> QED
      BY <3>1 DEF Good, Biddable, Exists, Committed, Listing, Fell
  <2> QED
    BY <1>4, <1>5, <2>1, <2>2
<1> QED
  BY <1>3, <1>6, <1>7 DEF Read

-----------------------------------------------------------------------------
(* Starting and stopping to sell. *)

LEMMA SellerTypes ==
  ASSUME Columns
  PROVE  seller \in [sells : BOOLEAN, leaving : BOOLEAN, gone : BOOLEAN]
BY DEF Columns

\* A work whose seller goes on selling, or starts to, or has it off sale.
LEMMA SellerGood ==
  ASSUME Sound, UNCHANGED <<piece, auction, sale, bill, event, holes>>,
         seller' \in [sells : BOOLEAN, leaving : BOOLEAN, gone : BOOLEAN],
         seller.sells /\ ~seller.leaving => seller'.sells /\ ~seller'.leaving
  PROVE  Sound'
<1>1. Columns'
  BY DEF Sound, Columns
<1>2. \A p \in Pieces : Good(p)'
  BY DEF Sound, Good, Fresh, Biddable, Auctioned, OnItsBill, Kept, InProgress, Sold, Exists, Open, Running, Fell
<1> QED
  BY <1>1, <1>2 DEF Sound

LEMMA SellerSound ==
  ASSUME Sound, (Acts /\ SellerEnable) \/ Anonymise \/ StopsLeaving
  PROVE  Sound'
<1>1. seller \in [sells : BOOLEAN, leaving : BOOLEAN, gone : BOOLEAN]
  BY SellerTypes DEF Sound
<1>2. CASE Acts /\ SellerEnable
  <2>1. /\ seller' = [seller EXCEPT !.sells = TRUE] /\ UNCHANGED <<piece, auction, sale, bill, event>>
        /\ holes' = [p \in Pieces |-> holes[p] \ SellerHoles] /\ ~seller.leaving
    BY <1>2 DEF SellerEnable, Acts
  <2>2. /\ seller' \in [sells : BOOLEAN, leaving : BOOLEAN, gone : BOOLEAN]
        /\ seller'.sells /\ ~seller'.leaving
    BY <1>1, <2>1
  <2>3. holes' \in [Pieces -> SUBSET Holes] /\ \A p \in Pieces : holes'[p] = holes[p] \ SellerHoles
    BY <2>1 DEF Sound, Columns
  <2>4. ASSUME NEW p \in Pieces PROVE Good(p)'
    <3>1. Good(p)
      BY DEF Sound
    <3> QED
      BY <2>1, <2>2, <2>3, <3>1
         DEF Good, Fresh, Biddable, Auctioned, OnItsBill, Kept, InProgress, Sold, Exists, Open, Running, Fell, SellerHoles
  <2> QED
    BY <2>1, <2>2, <2>3, <2>4 DEF Sound, Columns
<1>3. CASE Anonymise
  <2>1. /\ seller' = [sells |-> FALSE, leaving |-> FALSE, gone |-> TRUE] /\ seller.leaving
        /\ UNCHANGED <<piece, auction, sale, bill, event, holes>>
    BY <1>3 DEF Anonymise
  <2> QED
    BY <2>1, SellerGood
<1>4. CASE StopsLeaving
  <2>1. seller' = [seller EXCEPT !.leaving = FALSE] /\ UNCHANGED <<piece, auction, sale, bill, event, holes>>
    BY <1>4 DEF StopsLeaving
  <2>2. /\ seller' \in [sells : BOOLEAN, leaving : BOOLEAN, gone : BOOLEAN]
        /\ seller'.sells = seller.sells /\ ~seller'.leaving
    BY <1>1, <2>1
  <2> QED
    BY <2>1, <2>2, SellerGood
<1> QED
  BY <1>2, <1>3, <1>4

LEMMA DelistedRows ==
  ASSUME Columns, Read, NEW p \in Pieces
  PROVE  /\ DelistedAll[p] \in PieceRows /\ DelistedAll[p].status = seen[p]
         /\ DelistedAll[p].type = piece[p].type
         /\ DelistedAll[p].forSale = (piece[p].forSale /\ seen[p] \in Committed)
<1>1. DelistedAll[p] = IF seen[p] \in Committed THEN Loaded(p) ELSE [Loaded(p) EXCEPT !.forSale = FALSE]
  BY DEF DelistedAll
<1>2. /\ Loaded(p) \in PieceRows /\ Loaded(p).status = seen[p]
      /\ Loaded(p).forSale = piece[p].forSale /\ Loaded(p).type = piece[p].type
  BY LoadedRow
<1>3. piece[p].forSale \in BOOLEAN
  BY Typing
<1> QED
  BY <1>1, <1>2, <1>3 DEF PieceRows

LEMMA LeavingSound ==
  ASSUME Sound, Read, Acts, SellerDisable \/ DeleteAccount
  PROVE  Sound'
<1>1. /\ MayLeave /\ UNCHANGED <<auction, sale, bill, event>>
      /\ seller' \in [sells : BOOLEAN, leaving : BOOLEAN, gone : BOOLEAN]
  BY SellerTypes DEF SellerDisable, DeleteAccount, Sound
<1>2. PICK rows :
        /\ Leave(rows)
        /\ \A p \in Pieces :
             /\ rows[p] \in PieceRows /\ rows[p].type = piece[p].type
             /\ rows[p].forSale = (piece[p].forSale /\ seen[p] \in Committed)
             /\ \/ rows[p].status = seen[p]
                \/ rows[p].status = "deleted" /\ seen[p] \in {"draft", "live", "delisted"}
  <2>1. CASE SellerDisable
    <3>1. Leave(DelistedAll)
      BY <2>1 DEF SellerDisable
    <3>2. \A p \in Pieces :
             /\ DelistedAll[p] \in PieceRows /\ DelistedAll[p].type = piece[p].type
             /\ DelistedAll[p].forSale = (piece[p].forSale /\ seen[p] \in Committed)
             /\ DelistedAll[p].status = seen[p]
      BY DelistedRows DEF Sound
    <3> HIDE DEF DelistedAll
    <3> QED
      BY <3>1, <3>2
  <2>2. CASE DeleteAccount
    <3> DEFINE rows == [p \in Pieces |->
                 IF "deleted" \in Edges(seen[p])
                 THEN [DelistedAll[p] EXCEPT !.status = "deleted"] ELSE DelistedAll[p]]
    <3>1. Leave(rows)
      BY <2>2 DEF DeleteAccount
    <3>2. ASSUME NEW p \in Pieces
          PROVE  /\ rows[p] \in PieceRows /\ rows[p].type = piece[p].type
                 /\ rows[p].forSale = (piece[p].forSale /\ seen[p] \in Committed)
                 /\ \/ rows[p].status = seen[p]
                    \/ rows[p].status = "deleted" /\ seen[p] \in {"draft", "live", "delisted"}
      <4> DEFINE row == DelistedAll[p]
      <4>1. rows[p] = IF "deleted" \in Edges(seen[p]) THEN [row EXCEPT !.status = "deleted"] ELSE row
        OBVIOUS
      <4>2. /\ row \in PieceRows /\ row.status = seen[p] /\ row.type = piece[p].type
            /\ row.forSale = (piece[p].forSale /\ seen[p] \in Committed)
        BY DelistedRows DEF Sound
      <4>3. "deleted" \in Edges(seen[p]) => seen[p] \in {"draft", "live", "delisted"}
        BY EdgesTyped DEF Read
      <4> HIDE DEF row, rows
      <4> QED
        BY <4>1, <4>2, <4>3 DEF PieceRows, PieceStatuses
    <3> HIDE DEF rows
    <3> QED
      BY <3>1, <3>2
  <2> QED
    BY <2>1, <2>2
<1>3. ASSUME NEW p \in Pieces
      PROVE  /\ piece'[p] \in PieceRows /\ piece'[p].type = piece[p].type
             /\ piece'[p].forSale = (piece[p].forSale /\ seen[p] \in Committed)
             /\ \/ piece'[p].status = piece[p].status
                \/ piece'[p].status = "deleted" /\ seen[p] \in {"draft", "live", "delisted"}
  <2>1. piece'[p] = Flushed(p, rows[p])
    BY <1>2 DEF Leave
  <2>2. /\ rows[p] \in PieceRows /\ rows[p].type = piece[p].type
        /\ rows[p].forSale = (piece[p].forSale /\ seen[p] \in Committed)
        /\ \/ rows[p].status = seen[p]
           \/ rows[p].status = "deleted" /\ seen[p] \in {"draft", "live", "delisted"}
    BY <1>2
  <2>3. /\ Flushed(p, rows[p]) \in PieceRows
        /\ Flushed(p, rows[p]).forSale = rows[p].forSale /\ Flushed(p, rows[p]).type = rows[p].type
        /\ Flushed(p, rows[p]).status = IF rows[p].status = seen[p] THEN piece[p].status ELSE rows[p].status
    BY <2>2, FlushedRow DEF Sound
  <2> QED
    BY <2>1, <2>2, <2>3
<1>4. ASSUME NEW p \in Pieces
      PROVE  LET marks == IF seen[p] \in Committed THEN Mark(p, "lapsed", piece[p].forSale) ELSE Crossed(p)
             IN  Lasts(p, marks) /\ marks \in SUBSET Holes /\ holes[p] \subseteq marks /\ holes'[p] \in SUBSET Holes
  <2> DEFINE marks == IF seen[p] \in Committed THEN Mark(p, "lapsed", piece[p].forSale) ELSE Crossed(p)
  <2>1. marks \in SUBSET Holes /\ holes[p] \subseteq marks
    BY Typing, CrossedHoles DEF Mark, Sound, Holes, SellerHoles
  <2>2. holes'[p] = Lasting(marks, auction[p])
    BY <1>2 DEF Leave
  <2> HIDE DEF marks
  <2>3. Lasts(p, marks) /\ holes'[p] \in SUBSET Holes
    BY <1>1, <2>1, <2>2, Lasted DEF Lasting
  <2> QED
    BY <2>1, <2>3 DEF marks
<1>5. ASSUME NEW p \in Pieces PROVE Good(p)'
  <2>1. /\ Good(p) /\ holes[p] \subseteq Holes /\ ~(piece[p].forSale /\ seen[p] = "live")
        /\ InProgress(p) => Outdated(p)
    BY <1>1, Typing DEF Sound, MayLeave, ActiveListing
  <2>2. CASE seen[p] \in Committed
    <3> DEFINE marks == Mark(p, "lapsed", piece[p].forSale)
    <3>1. /\ piece'[p].status = piece[p].status
          /\ piece'[p].type = piece[p].type /\ piece'[p] \in PieceRows
          /\ piece'[p].forSale = piece[p].forSale
      BY <1>3, <2>1, <2>2, Typing DEF Committed, Sound
    <3>2. /\ Lasts(p, marks) /\ holes[p] \subseteq marks /\ (piece[p].forSale => "lapsed" \in marks)
          /\ "removed" \in marks => "removed" \in holes[p]
      BY <1>4, <2>2 DEF Mark
    <3> HIDE DEF marks
    <3>3. Sold(p)'
      BY <3>1, <3>2 DEF Sold, Fell, Lasts, RunHoles
    <3> QED
      BY <1>1, <2>1, <3>1, <3>2, <3>3
         DEF Good, Fresh, Biddable, Auctioned, OnItsBill, Kept, InProgress, Fell, Open, Running, Exists, Listing, Lasts, RunHoles
  <2>3. CASE seen[p] \notin Committed
    <3>1. Lasts(p, Crossed(p)) /\ ~piece'[p].forSale
      BY <1>3, <1>4, <2>3
    <3>2. Sold(p)'
      BY <3>1 DEF Sold
    <3>3. CASE Outdated(p)
      <4>1. piece'[p].status # "none"
        BY <1>3, <3>3 DEF Read, Gone
      <4>2. "removed" \in Crossed(p) => "removed" \in holes[p]
        BY <2>1, CrossedHoles
      <4>3. auction'[p].status = "draft" => ~auction'[p].bids
        BY <1>1, <2>1 DEF Good, Biddable
      <4> QED
        BY <1>1, <3>1, <3>2, <3>3, <4>1, <4>2, <4>3, OutdatedGood
    <3>4. CASE ~Outdated(p)
      <4>1. Lasts(p, holes[p]) /\ seen[p] = piece[p].status /\ ~InProgress(p) /\ ~Listing(piece[p])
        BY <2>1, <3>1, <3>4, CrossedHoles DEF Outdated, Listing
      <4> QED
        BY <1>1, <1>3, <2>1, <3>2, <4>1
           DEF Good, Fresh, Biddable, Auctioned, OnItsBill, Kept, InProgress, Fell, Open, Running, Exists, Listing, Lasts
    <3> QED
      BY <3>3, <3>4
  <2> QED
    BY <2>2, <2>3
<1>6. Columns'
  <2>1. piece' \in [Pieces -> PieceRows]
    <3>1. piece' = [p \in Pieces |-> piece'[p]]
      BY <1>2 DEF Leave
    <3> QED
      BY <1>3, <3>1
  <2>2. holes' \in [Pieces -> SUBSET Holes]
    <3>1. holes' = [p \in Pieces |-> holes'[p]]
      BY <1>2 DEF Leave
    <3>2. \A p \in Pieces : holes'[p] \in SUBSET Holes
      BY <1>4
    <3> QED
      BY <3>1, <3>2
  <2> QED
    BY <1>1, <2>1, <2>2 DEF Sound, Columns
<1> QED
  BY <1>5, <1>6 DEF Sound

-----------------------------------------------------------------------------
(* Events and their bills. *)

LEMMA CreateEventSound ==
  ASSUME Sound, NEW e \in Events, CreateEvent(e)
  PROVE  Sound'
<1>1. event' = [event EXCEPT ![e] = "draft"] /\ event[e] = "none" /\ UNCHANGED <<piece, auction, sale, bill, seller, holes>>
  BY DEF CreateEvent
<1>2. Columns' /\ \A x \in Events : event[x] = "published" => event'[x] = "published"
  BY <1>1 DEF Sound, Columns
<1>3. \A p \in Pieces : auction[p].event \in Events \cup {NoEvent}
  BY Typing DEF Sound
<1>4. \A p \in Pieces : Good(p)'
  BY <1>1, <1>2, <1>3 DEF Sound, Good, Fresh, Biddable, Auctioned, OnItsBill, Kept, InProgress, Sold, Exists, Open, Running, Fell
<1> QED
  BY <1>2, <1>4 DEF Sound

\* What ending its listing makes of a work about to be sold at an event.
LEMMA EndedEnds ==
  ASSUME Columns, Read, NEW p \in Pieces
  PROVE  Ends(p, Ended(p).row, Ended(p).run)
<1>1. /\ auction[p] \in AuctionRows /\ Loaded(p) \in PieceRows /\ Loaded(p).status = seen[p]
      /\ Loaded(p).forSale = piece[p].forSale /\ Loaded(p).type = piece[p].type
  BY Typing, LoadedRow
<1>2. CASE Running(p)
  <2>1. Ended(p) = Cancelled(p)
    BY <1>2 DEF Ended
  <2> QED
    BY <2>1, CancelledEnds
<1>3. CASE ~Running(p)
  <2> DEFINE off == [Loaded(p) EXCEPT !.status = "delisted", !.forSale = FALSE]
  <2>1. off \in PieceRows /\ off.status = "delisted" /\ ~off.forSale /\ off.type = piece[p].type
    BY <1>1 DEF PieceRows, PieceStatuses
  <2>2. /\ Ended(p).run = auction[p]
        /\ \/ Ended(p).row = off /\ seen[p] = "live"
           \/ Ended(p).row = Loaded(p)
    BY <1>3 DEF Ended, ActiveListing
  <2> HIDE DEF off, Ended
  <2> QED
    BY <1>1, <1>3, <2>1, <2>2 DEF Running, Ends
<1> QED
  BY <1>2, <1>3

LEMMA TaggedSound ==
  ASSUME Sound, Read, NEW e \in Events, NEW p \in Pieces, NEW mode \in Modes, AddPiece(e, p, mode)
  PROVE  Sound'
<1>1. /\ Exists(p) /\ bill[e][p] = "none" /\ UNCHANGED <<sale, event, seller>>
      /\ bill' = [bill EXCEPT ![e][p] = mode]
  BY DEF AddPiece, Tagged
<1>2. /\ bill' \in [Events -> [Pieces -> Modes]]
      /\ \A x \in Events, q \in Pieces : bill'[x][q] = IF x = e /\ q = p THEN mode ELSE bill[x][q]
  BY <1>1 DEF Sound, Columns
<1>3. CASE Selling(mode)
  <2> DEFINE row == Ended(p).row
             run == Ended(p).run
             left == Lasting(Crossed(p), run)
  <2>1. /\ piece' = [piece EXCEPT ![p] = Flushed(p, row)] /\ auction' = [auction EXCEPT ![p] = run]
        /\ holes' = [holes EXCEPT ![p] = left] /\ Ends(p, row, run)
    BY <1>3, EndedEnds DEF AddPiece, Tagged, Sound
  <2>2. left \in SUBSET Holes /\ Crossed(p) \in SUBSET Holes
    BY Typing, CrossedHoles DEF Lasting, Sound
  <2> HIDE DEF row, run, left
  <2>3. /\ piece'[p] = Flushed(p, row) /\ auction'[p] = run /\ holes'[p] = left
        /\ \A q \in Pieces \ {p} : /\ piece'[q] = piece[q] /\ auction'[q] = auction[q]
                                   /\ holes'[q] = holes[q]
    BY <2>1 DEF Sound, Columns
  <2>4. Lasts(p, Crossed(p))
    BY <2>2, <2>3, Lasted DEF left
  <2>5. Good(p)' /\ piece'[p] \in PieceRows
    BY <1>1, <2>1, <2>3, <2>4, EndsGood DEF Exists
  <2>6. \A q \in Pieces \ {p} : Good(q)'
    BY <1>1, <1>2, <2>3, Typing, Elsewhere DEF Sound
  <2>7. /\ piece' \in [Pieces -> PieceRows] /\ auction' \in [Pieces -> AuctionRows]
        /\ holes' \in [Pieces -> SUBSET Holes]
    BY <2>1, <2>2, <2>3, <2>5 DEF Sound, Columns, Ends
  <2> QED
    BY <1>1, <1>2, <2>5, <2>6, <2>7 DEF Sound, Columns
<1>4. CASE ~Selling(mode)
  <2>1. UNCHANGED <<piece, auction, holes>>
    BY <1>4 DEF AddPiece, Tagged
  <2>2. Good(p)'
    <3>1. Good(p) /\ auction[p].event \in Events \cup {NoEvent}
      BY Typing DEF Sound
    <3> QED
      BY <1>1, <1>2, <2>1, <3>1
         DEF Good, Fresh, Biddable, Auctioned, OnItsBill, Kept, InProgress, Sold, Exists, Open, Running, Fell
  <2>3. \A q \in Pieces \ {p} : Good(q)'
    BY <1>1, <1>2, <2>1, Typing, Elsewhere DEF Sound
  <2> QED
    BY <1>1, <1>2, <2>1, <2>2, <2>3 DEF Sound, Columns
<1> QED
  BY <1>3, <1>4

LEMMA UntaggedSound ==
  ASSUME Sound, NEW e \in Events, NEW p \in Pieces, RemovePiece(e, p)
  PROVE  Sound'
<1>1. /\ ~(event[e] = "published" /\ Selling(bill[e][p]))
      /\ bill' = [bill EXCEPT ![e][p] = "none"] /\ UNCHANGED <<piece, auction, sale, event, seller, holes>>
  BY DEF RemovePiece, Untagged
<1>2. /\ bill' \in [Events -> [Pieces -> Modes]]
      /\ \A x \in Events, q \in Pieces : bill'[x][q] = IF x = e /\ q = p THEN "none" ELSE bill[x][q]
  BY <1>1 DEF Sound, Columns, Modes
<1>3. Good(p)'
  <2>1. Good(p) /\ auction[p].event \in Events \cup {NoEvent}
    BY Typing DEF Sound
  <2> QED
    BY <1>1, <1>2, <2>1 DEF Selling, Good, Fresh, Biddable, Auctioned, OnItsBill, Kept, InProgress, Sold, Exists, Open, Running, Fell
<1>4. \A q \in Pieces \ {p} : Good(q)'
  BY <1>1, <1>2, Typing, Elsewhere DEF Sound
<1>5. Columns'
  BY <1>1, <1>2 DEF Sound, Columns
<1> QED
  BY <1>3, <1>4, <1>5 DEF Sound

LEMMA ListedRow ==
  ASSUME Columns, Read, NEW p \in Pieces, NEW mode \in {"sale", "bid"}
  PROVE  /\ Listed(p, mode) \in PieceRows /\ Listed(p, mode).forSale
         /\ Listed(p, mode).type = IF mode = "sale" THEN "fixed" ELSE "auction"
         /\ Listed(p, mode).status =
              IF seen[p] \in {"draft", "delisted"} THEN "live" ELSE seen[p]
BY DEF Read, Listed, PieceRows, PieceStatuses, ListingTypes

LEMMA PublishSound ==
  ASSUME Sound, Read, Acts, NEW e \in Events, Publish(e)
  PROVE  Sound'
<1>1. event[e] = "draft" /\ event' = [event EXCEPT ![e] = "published"] /\ UNCHANGED <<sale, bill, seller>>
  BY DEF Publish
<1>2. /\ event' \in [Events -> {"none", "draft", "published", "cancelled", "gone"}]
      /\ event'[e] = "published" /\ \A x \in Events : event[x] = "published" => event'[x] = "published"
  BY <1>1 DEF Sound, Columns
<1>3. ASSUME NEW p \in Pieces, ~ListsNow(e, p)
      PROVE  piece'[p] = piece[p] /\ auction'[p] = auction[p] /\ holes'[p] = holes[p]
  BY <1>3 DEF Publish, ListsNow
<1> DEFINE Marks(p) == Mark(p, "stale", Running(p) \/ piece[p].status \in Committed)
                         \cup Mark(p, "unready", ~MayList) \cup Crossed(p)
<1>4. ASSUME NEW p \in Pieces, ListsNow(e, p)
      PROVE  /\ bill[e][p] \in {"sale", "bid"}
             /\ piece'[p] = Flushed(p, Listed(p, bill[e][p]))
             /\ auction'[p] = IF bill[e][p] = "bid" THEN Started(e) ELSE auction[p]
             /\ bill[e][p] = "bid" => ~Running(p)
             /\ holes'[p] = Lasting(Marks(p), auction'[p])
  BY <1>4 DEF Publish, ListsNow
<1>5. ASSUME NEW p \in Pieces, ListsNow(e, p)
      PROVE  /\ Marks(p) \in SUBSET Holes /\ holes[p] \subseteq Marks(p) /\ Crossed(p) \subseteq Marks(p)
             /\ Running(p) \/ piece[p].status \in Committed => "stale" \in Marks(p)
             /\ ~MayList => "unready" \in Marks(p)
             /\ "removed" \in Marks(p) => "removed" \in holes[p]
  BY Typing, CrossedHoles DEF Sound, Mark, Holes, RunHoles, SellerHoles
<1> HIDE DEF Marks
<1>6. ASSUME NEW p \in Pieces, ListsNow(e, p)
      PROVE  /\ piece'[p] \in PieceRows /\ piece'[p].forSale
             /\ piece'[p].type = IF bill[e][p] = "sale" THEN "fixed" ELSE "auction"
             /\ piece'[p].status = (IF seen[p] \in {"draft", "delisted"} THEN "live" ELSE piece[p].status)
             /\ Lasts(p, Marks(p)) /\ holes'[p] \in SUBSET Holes
  <2> DEFINE row == Listed(p, bill[e][p])
  <2>1. /\ row \in PieceRows /\ row.forSale
        /\ row.type = IF bill[e][p] = "sale" THEN "fixed" ELSE "auction"
        /\ row.status = IF seen[p] \in {"draft", "delisted"} THEN "live" ELSE seen[p]
    BY <1>4, <1>6, ListedRow DEF Sound
  <2>2. piece'[p] = Flushed(p, row)
    BY <1>4, <1>6
  <2> HIDE DEF row
  <2>3. /\ Flushed(p, row) \in PieceRows
        /\ Flushed(p, row).forSale = row.forSale /\ Flushed(p, row).type = row.type
        /\ Flushed(p, row).status = IF row.status = seen[p] THEN piece[p].status ELSE row.status
    BY <2>1, FlushedRow DEF Sound
  <2>4. Lasts(p, Marks(p)) /\ holes'[p] \in SUBSET Holes
    BY <1>4, <1>5, <1>6, Lasted DEF Lasting
  <2> QED
    BY <2>1, <2>2, <2>3, <2>4
<1>7. ASSUME NEW p \in Pieces
      PROVE  piece'[p] \in PieceRows /\ auction'[p] \in AuctionRows /\ holes'[p] \in SUBSET Holes
  <2>1. CASE ListsNow(e, p)
    BY <1>4, <1>6, <2>1, AuctionTypes, Typing DEF Sound
  <2>2. CASE ~ListsNow(e, p)
    BY <1>3, <2>2, Typing DEF Sound
  <2> QED
    BY <2>1, <2>2
<1>8. Columns'
  <2>1. /\ piece' = [p \in Pieces |-> piece'[p]] /\ auction' = [p \in Pieces |-> auction'[p]]
        /\ holes' = [p \in Pieces |-> holes'[p]]
    BY DEF Publish
  <2>2. /\ piece' \in [Pieces -> PieceRows] /\ auction' \in [Pieces -> AuctionRows]
        /\ holes' \in [Pieces -> SUBSET Holes]
    BY <1>7, <2>1
  <2> QED
    BY <1>1, <1>2, <2>2 DEF Sound, Columns
<1>9. ASSUME NEW p \in Pieces, ~ListsNow(e, p) PROVE Good(p)'
  <2>1. Good(p) /\ auction[p].event \in Events \cup {NoEvent}
    BY Typing DEF Sound
  <2> QED
    BY <1>1, <1>2, <1>3, <1>9, <2>1
       DEF Good, Fresh, Biddable, Auctioned, OnItsBill, Kept, InProgress, Sold, Exists, Open, Running, Fell
<1>10. ASSUME NEW p \in Pieces, ListsNow(e, p) PROVE Good(p)'
  <2>1. /\ Good(p) /\ auction[p].event \in Events \cup {NoEvent} /\ piece[p].status \in PieceStatuses
        /\ piece[p].status # "none" /\ holes[p] \subseteq Holes
    BY <1>4, <1>10, Typing DEF Sound, Good, Fresh
  <2>2. /\ piece'[p].forSale
        /\ piece'[p].type = IF bill[e][p] = "sale" THEN "fixed" ELSE "auction"
        /\ piece'[p].status = (IF seen[p] \in {"draft", "delisted"} THEN "live" ELSE piece[p].status)
        /\ Lasts(p, Marks(p))
    BY <1>6, <1>10
  <2>3. Sold(p)'
    BY <1>1, <1>5, <1>10, <2>2 DEF Sold, Fell, MayList, Acts, Lasts, RunHoles
  <2>4. auction'[p].status = "draft" => ~auction'[p].bids
    BY <1>4, <1>10, <2>1, AuctionTypes DEF Good, Biddable
  <2>5. CASE Outdated(p)
    <3>1. piece'[p].status # "none"
      BY <2>1, <2>2
    <3> QED
      BY <1>1, <1>5, <1>10, <2>2, <2>3, <2>4, <2>5, <3>1, OutdatedGood
  <2>6. CASE ~Outdated(p)
    <3>1. seen[p] = piece[p].status
      BY <2>6 DEF Outdated
    <3>2. piece'[p].status \in {"live", "deleted"} \/ "stale" \in Marks(p)
      BY <1>5, <1>10, <2>1, <2>2, <3>1 DEF PieceStatuses, Committed
    <3>3. Fresh(p)' /\ Kept(p)'
      BY <1>1, <1>5, <1>10, <2>1, <2>2, <3>1 DEF Good, Fresh, Kept, InProgress, Fell, Lasts, RunHoles
    <3>4. "removed" \in holes'[p] => piece'[p].status = "deleted"
      BY <1>5, <1>10, <2>1, <2>2, <3>1 DEF Good, Biddable, Lasts
    <3>5. Running(p)' => holes'[p] = Marks(p)
      BY <2>2 DEF Lasts
    <3>6. CASE bill[e][p] = "bid"
      <4>1. auction'[p].status = "live" /\ auction'[p].event = e /\ ~auction'[p].bids /\ bill'[e][p] = "bid"
        BY <1>1, <1>4, <1>10, <3>6, AuctionTypes
      <4> QED
        BY <1>2, <1>5, <1>10, <2>1, <2>2, <2>3, <3>1, <3>2, <3>3, <3>4, <3>5, <3>6, <4>1
           DEF Good, Biddable, Auctioned, OnItsBill, Fell, Open, Running, Exists, Listing
    <3>7. CASE bill[e][p] # "bid"
      <4>1. auction'[p] = auction[p]
        BY <1>4, <1>10, <3>7
      <4>2. Running(p)' => "stale" \in holes'[p]
        BY <1>5, <1>10, <3>5, <4>1 DEF Running
      <4> QED
        BY <2>3, <2>4, <3>3, <3>4, <4>1, <4>2
           DEF Good, Biddable, Auctioned, OnItsBill, Fell, Open, Running, Exists
    <3> QED
      BY <3>6, <3>7
  <2> QED
    BY <2>5, <2>6
<1> QED
  BY <1>8, <1>9, <1>10 DEF Sound

LEMMA TakenDownEnds ==
  ASSUME Columns, Read, NEW p \in Pieces
  PROVE  Ends(p, TakenDown(p).row, TakenDown(p).run)
<1>1. /\ auction[p] \in AuctionRows /\ Loaded(p) \in PieceRows /\ Loaded(p).status = seen[p]
      /\ Loaded(p).forSale = piece[p].forSale /\ Loaded(p).type = piece[p].type
  BY Typing, LoadedRow
<1>2. CASE Running(p)
  <2>1. TakenDown(p) = Cancelled(p)
    BY <1>2 DEF TakenDown
  <2> QED
    BY <2>1, CancelledEnds
<1>3. CASE ~Running(p)
  <2> DEFINE off == [Loaded(p) EXCEPT !.status = "delisted", !.forSale = FALSE]
  <2>1. off \in PieceRows /\ off.status = "delisted" /\ ~off.forSale /\ off.type = piece[p].type
    BY <1>1 DEF PieceRows, PieceStatuses
  <2>2. /\ TakenDown(p).run = auction[p]
        /\ \/ TakenDown(p).row = off /\ seen[p] = "live"
           \/ TakenDown(p).row = Loaded(p)
    BY <1>3 DEF TakenDown
  <2> HIDE DEF off, TakenDown
  <2> QED
    BY <1>1, <1>3, <2>1, <2>2 DEF Running, Ends
<1> QED
  BY <1>2, <1>3

LEMMA CancelEventSound ==
  ASSUME Sound, Read, NEW e \in Events, CancelEvent(e)
  PROVE  Sound'
<1>1. event' = [event EXCEPT ![e] = "cancelled"] /\ UNCHANGED <<sale, bill, seller>>
  BY DEF CancelEvent
<1>2. /\ event' \in [Events -> {"none", "draft", "published", "cancelled", "gone"}]
      /\ \A x \in Events \ {e} : event'[x] = event[x]
  BY <1>1 DEF Sound, Columns
<1>3. ASSUME NEW p \in Pieces, Withdrawn(e, p)
      PROVE  Good(p)' /\ piece'[p] \in PieceRows /\ auction'[p] \in AuctionRows /\ holes'[p] \in SUBSET Holes
  <2> DEFINE row == TakenDown(p).row
             run == TakenDown(p).run
  <2>1. /\ piece'[p] = Flushed(p, row) /\ auction'[p] = run /\ holes'[p] = Lasting(Crossed(p), run)
        /\ Ends(p, row, run)
    BY <1>3, TakenDownEnds DEF CancelEvent, Sound
  <2>2. piece[p].status # "none"
    BY <1>3 DEF Withdrawn, Selling, Sound, Good, Fresh
  <2>3. Crossed(p) \in SUBSET Holes
    BY Typing, CrossedHoles DEF Sound
  <2> HIDE DEF row, run
  <2>4. Lasts(p, Crossed(p)) /\ holes'[p] \in SUBSET Holes
    BY <2>1, <2>3, Lasted DEF Lasting
  <2> QED
    BY <1>1, <2>1, <2>2, <2>4, EndsGood DEF Ends
\* A work left alone, because it was being sold when it was loaded, has lost the listing
\* of its auction.
<1>4. ASSUME NEW p \in Pieces, ~Withdrawn(e, p)
      PROVE  piece'[p] = piece[p] /\ auction'[p] = auction[p] /\ holes'[p] = holes[p]
  BY <1>4 DEF CancelEvent
<1>5. ASSUME NEW p \in Pieces, ~Withdrawn(e, p) PROVE Good(p)'
  <2>1. Good(p) /\ auction[p].event \in Events \cup {NoEvent}
    BY Typing DEF Sound
  <2>2. piece'[p] = piece[p] /\ auction'[p] = auction[p] /\ holes'[p] = holes[p]
    BY <1>4, <1>5
  <2>3. OnItsBill(p)'
    <3>1. CASE Open(p) /\ auction[p].event = e /\ bill[e][p] = "bid"
      <4>1. seen[p] \in {"reserved", "sold", "auction_won"}
        BY <1>5, <3>1 DEF Withdrawn, Selling, Committed
      <4>2. Fell(p, {"split", "stale"})
        BY <3>1, <4>1 DEF Read, Committed
      <4> QED
        BY <1>1, <2>2, <4>2 DEF OnItsBill, Fell
    <3> QED
      BY <1>1, <1>2, <2>1, <2>2, <3>1 DEF Good, OnItsBill, Open, Fell
  <2> QED
    BY <1>1, <2>1, <2>2, <2>3
       DEF Good, Fresh, Biddable, Auctioned, Kept, InProgress, Sold, Exists, Open, Running, Fell
<1>6. Columns'
  <2>1. /\ piece' = [p \in Pieces |-> piece'[p]] /\ auction' = [p \in Pieces |-> auction'[p]]
        /\ holes' = [p \in Pieces |-> holes'[p]]
    BY DEF CancelEvent
  <2>2. ASSUME NEW p \in Pieces
        PROVE  piece'[p] \in PieceRows /\ auction'[p] \in AuctionRows /\ holes'[p] \in SUBSET Holes
    BY <1>3, <1>4, Typing DEF Sound
  <2>3. /\ piece' \in [Pieces -> PieceRows] /\ auction' \in [Pieces -> AuctionRows]
        /\ holes' \in [Pieces -> SUBSET Holes]
    BY <2>1, <2>2
  <2> QED
    BY <1>1, <1>2, <2>3 DEF Sound, Columns
<1> QED
  BY <1>3, <1>5, <1>6 DEF Sound

LEMMA DeleteEventSound ==
  ASSUME Sound, NEW e \in Events, DeleteEvent(e)
  PROVE  Sound'
<1>1. /\ event[e] # "published" /\ event' = [event EXCEPT ![e] = "gone"]
      /\ bill' = [bill EXCEPT ![e] = [p \in Pieces |-> "none"]]
      /\ UNCHANGED <<piece, auction, sale, seller, holes>>
  BY DEF DeleteEvent
<1>2. Columns'
  BY <1>1 DEF Sound, Columns, Modes
<1>3. \A p \in Pieces, x \in Events : /\ bill'[x][p] = (IF x = e THEN "none" ELSE bill[x][p])
                                      /\ event'[x] = IF x = e THEN "gone" ELSE event[x]
  BY <1>1 DEF Sound, Columns
<1>4. ASSUME NEW p \in Pieces PROVE Good(p)'
  <2>1. Good(p) /\ auction[p].event \in Events \cup {NoEvent}
    BY Typing DEF Sound
  <2> QED
    BY <1>1, <1>3, <2>1 DEF Good, Fresh, Biddable, Auctioned, OnItsBill, Kept, InProgress, Sold, Exists, Open, Running, Fell
<1> QED
  BY <1>2, <1>4 DEF Sound

-----------------------------------------------------------------------------
LEMMA InitSound == Init => Sound /\ Read
<1> SUFFICES ASSUME Init PROVE Sound /\ Read
  OBVIOUS
<1>1. Columns
  <2>1. [status |-> "none", forSale |-> FALSE, type |-> "none"] \in PieceRows
    BY DEF PieceRows, PieceStatuses, ListingTypes
  <2> QED
    BY <2>1, AuctionTypes DEF Init, Columns, Modes
<1>2. ASSUME NEW p \in Pieces PROVE Good(p)
  <2>1. /\ piece[p].status = "none" /\ ~piece[p].forSale /\ auction[p] = NoAuction /\ sale[p] = "none"
        /\ holes[p] = {} /\ \A e \in Events : bill[e][p] = "none"
    BY DEF Init
  <2> QED
    BY <2>1, AuctionTypes DEF Good, Fresh, Biddable, Auctioned, OnItsBill, Kept, InProgress, Sold, Open, Running
<1>3. Read
  BY DEF Init, Read, Outdated, PieceStatuses, Committed
<1> QED
  BY <1>1, <1>2, <1>3 DEF Sound

LEMMA RequestSound ==
  ASSUME Sound, Read, Request
  PROVE  Sound'
<1>1. CASE \E p \in Pieces : Acts /\ Owner(p)
  BY <1>1, OwnerSound
<1>2. CASE (Acts /\ (SellerEnable \/ SellerDisable \/ DeleteAccount)) \/ Anonymise \/ StopsLeaving
  BY <1>2, SellerSound, LeavingSound
<1>3. CASE \E e \in Events : (Acts /\ (CreateEvent(e) \/ Publish(e))) \/ CancelEvent(e) \/ DeleteEvent(e)
  BY <1>3, CreateEventSound, PublishSound, CancelEventSound, DeleteEventSound
<1>4. CASE \E e \in Events, p \in Pieces : RemovePiece(e, p) \/ \E mode \in Modes : AddPiece(e, p, mode)
  BY <1>4, UntaggedSound, TaggedSound
<1> QED
  BY <1>1, <1>2, <1>3, <1>4 DEF Request

LEMMA StepSound == Sound /\ Read /\ [Next]_vars => (Sound /\ Read)'
<1> SUFFICES ASSUME Sound, Read, [Next]_vars PROVE Sound' /\ Read'
  OBVIOUS
<1>1. CASE UNCHANGED vars
  <2>1. Sound'
    BY <1>1, SellerGood, SellerTypes DEF vars, Sound
  <2>2. Read'
    BY <1>1 DEF vars, Read, Outdated, Open, Fell
  <2> QED
    BY <2>1, <2>2
<1>2. CASE \E p \in Pieces : Sales(p) /\ Loads(p)
  BY <1>2, SalesSound, SalesRead
<1>3. CASE Request /\ LoadsAgain
  <2>1. Sound'
    BY <1>3, RequestSound
  <2>2. \A p \in Pieces : piece'[p].status \in PieceStatuses
    BY <2>1 DEF Sound, Columns, PieceRows
  <2>3. seen' = [p \in Pieces |-> piece'[p].status]
    BY <1>3 DEF LoadsAgain
  <2>4. ASSUME NEW p \in Pieces, Open(p)', seen'[p] \in Committed
        PROVE  Fell(p, {"split", "stale"})'
    <3>1. (Good(p) /\ Open(p) /\ piece[p].status \in Committed)'
      BY <2>1, <2>3, <2>4 DEF Sound
    <3> QED
      BY <3>1 DEF Good, Biddable, Exists, Committed, Listing, Fell
  <2> QED
    BY <2>1, <2>2, <2>3, <2>4 DEF Read, Outdated
<1> QED
  BY <1>1, <1>2, <1>3 DEF Next

LEMMA Invariance == Spec => [](Sound /\ Read)
BY InitSound, StepSound, PTL DEF Spec

THEOREM Typed == Spec => []TypeOK
<1>1. Sound /\ Read => TypeOK
  BY DEF Sound, Columns, Read, TypeOK, PieceRows, AuctionRows
<1> QED
  BY <1>1, Invariance, PTL

\* Whoever has bid on a work finds it listed as an auction, but through one of the three
\* holes that let its terms, its row or its listing go while its auction is open.
THEOREM BiddersFindIt == Spec => []BidsHaveAListing
<1>1. Sound => BidsHaveAListing
  <2> SUFFICES ASSUME Sound, NEW p \in Pieces, Open(p), auction[p].bids, ~Fell(p, {"split", "removed", "stale"})
               PROVE  piece[p] = [status |-> "live", forSale |-> TRUE, type |-> "auction"]
    BY DEF BidsHaveAListing, ListedForBidders
  <2>1. piece[p] \in PieceRows /\ piece[p].status = "live" /\ piece[p].forSale = TRUE /\ piece[p].type = "auction"
    BY Typing DEF Sound, Good, Biddable, Listing
  <2> QED
    BY <2>1 DEF PieceRows
<1> QED
  BY <1>1, Invariance, PTL

\* A work with an order in progress stays reserved or sold, whatever is done to its
\* listing, its seller or its events, but where its owner changes its status by hand, or a
\* request that had loaded it before the sale writes over it.
THEOREM OrdersKeepWorks == Spec => []OrderKeepsWork
<1>1. Sound => OrderKeepsWork
  BY DEF Sound, Good, Kept, OrderKeepsWork
<1> QED
  BY <1>1, Invariance, PTL

\* What is on sale is sold by somebody who sells.
THEOREM SellersSell == Spec => []OnlySellersSell
<1>1. Sound => OnlySellersSell
  BY DEF Sound, Good, Sold, OnlySellersSell
<1> QED
  BY <1>1, Invariance, PTL

\* An event can be called off, and no auction it opened outlives it, but for a work that
\* fell through one of two holes.
THEOREM EventsComeDown == Spec => []EventComesDown
<1>1. Sound => NothingOutlivesEvent
  BY Typing DEF Sound, Good, OnItsBill, NothingOutlivesEvent
<1>2. Sound => NeverStuck
  BY DEF Sound, Good, Auctioned, NeverStuck, CanCallOff, Withdrawn, Selling
<1>3. Sound => EventComesDown
  BY <1>1, <1>2 DEF EventComesDown
<1> QED
  BY <1>3, Invariance, PTL

=============================================================================
