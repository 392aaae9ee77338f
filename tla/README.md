# Studio3 Discover backend: TLA+ models, checks and proofs

This directory specifies the parts of the backend in which money, artworks,
accounts and concurrency meet. The code under `src/src/` is the reference: an
action is a request handler (or one of its commits), a sweep section or a webhook,
its guards are the code's conditions and early returns, and `PROJECT.json` names
the lines every definition stands for.

## The system

The backend is a Flask application (gunicorn, gevent workers) over PostgreSQL
(SQLAlchemy sessions, READ COMMITTED, no autoflush), with a Celery worker and
beat, Redis, and Stripe for cards, transfers and webhooks. Everything below runs
concurrently with everything else: web requests, webhook deliveries and sweeps
share only the database, Redis and Stripe.

Four facts about it decide how the models look.

* `SELECT ... FOR UPDATE` is the lock of the critical sections of auctions, orders,
  payouts and RSVPs. What a section reads and writes under the lock is one action.
* A session keeps the objects it has loaded, and the locking SELECT does not
  refresh them (nobody asks for `populate_existing`). A request that loaded a row
  *before* taking its lock therefore works with the attributes of that moment,
  and its UPDATE contains only the attributes that differ from them. Such a
  request is two actions: one that takes the snapshot, one that uses it.
* Most other handlers lock nothing: they read, decide and commit, often several
  times. There a handler is a *request* with the steps it has still to take; the
  steps of several requests interleave and any of them may be the last.
* Stripe and Redis are not part of the transaction. When a section raises, or its
  process dies before the commit, the rows go back and what Stripe or Redis did
  stays.

### Inventory

| Component | State | Operations | What is hard | What makes it correct | Module |
|---|---|---|---|---|---|
| Bidding (`modules/bids/bid_dao`, `auction_dao`, controllers) | auctions, bids | place_bid, soft close, extend, retry, relist | stale auction row, soft close against the sweep, order of new and old hold | no bid after the close, close never earlier, nobody dropped | `Auction` |
| Closing and settling (`auction_closer`, `auction_winner`) | auctions, bids, holds, piece | two minute sweeps, settle_on, cascade, give up | capture before commit, a cascade racing the winner's retry | one charge is booked, and a charge nobody recorded is taken up next; every due auction and window ends | `Auction`, `Sale` |
| Holds (`holds_service`, `hold_refresh`) | holds, Stripe intents | authorise, release, capture, reauthorise | stale hold row, idempotency keys and rollbacks | hold row and Stripe agree, nothing left on a card | `Auction` |
| Pieces, line-ups, listings (`modules/pieces`, `events/lineup_service`, seller) | pieces, auctions, bills | create, patch, delete, list, relist, tag, publish, call off, stop selling | a listing is kept on three rows that different handlers write | a bid-on work is listed, an ordered one is kept and an event can come down, but for named unchecked steps | `Listings` |
| Orders (`modules/orders`) | orders, order items, pieces | checkout, auction checkout, transitions, abandoned-order sweep | a piece loaded before its lock, a payment arriving after the sweep | nothing but an outdated row lets two orders hold a piece, a lost order stays lost | `Checkout`, `OneWork` |
| Escrow (`payments`, `orders_controller`, `shipments`, `admin/disputes_service`) | orders, payouts, disputes, shipments, webhook events | ship, confirm, complain, pay out, refund, chargeback | claim, Stripe call and finalise in separate commits; duplicated, late, reordered events | one transfer, and with a refund only where a completion crossed it; rows and books agree | `Escrow`, `Custody` |
| Ledger (`shared/ledger`, `payments/money`) | transactions, entries | post_transaction, the bookings | idempotent keys, rounding, what is booked before the order exists | every transaction balances, the clearing account is Stripe's balance | `Escrow` |
| Sessions (`modules/auth`, middleware) | refresh tokens, Redis keys, reset links | login, refresh, log out, change, reset, delete | two stores, handlers of up to five commits | revoked stays revoked, signed in stays signed in | `Sessions` |
| Codes, names, addresses (`otp_service`, `shared/username`, `user`) | users, username history, Redis | ask for a code, register, rename, change address | checks whose answer is cached or burnt before it is used | a name is kept for its owner, a code serves once | `Accounts` |
| Social graph, chat (`modules/social`, `chat`) | follows, blocks, conversations, messages | follow, admit, block, start, say, accept, decline | everything read before it is written, nothing locked | blocked people stay apart, a thread opens by consent but for named paths | `Social` |
| Chat's read state (`chat_dao`, `chat_controller`, `chat_models`) | `last_message_at`, two `read_at` | send, open a thread, mark as read, list the inbox | times are taken before the commits that store them, and nothing is locked | what a conversation says was read was shown, what is new is unread | `Receipts` |
| Events: attendance (`rsvp_service`, `events_controller`) | events, RSVPs | publish, capacity, claim, withdraw, call off, tell | the event's row is loaded before it is locked | not more guests than places, everybody told | `Rsvps` |
| Community (`posts`, `series`, `collections`, `reports`, `addresses`, `notifications`, account deletion) | rows of their own | create, mark, comment, report, decide, shelve, choose a default, leave | a look-up and the insert it justifies are two commits; deletion is many | a deleted account leaves nothing, what may be once is once | `Community` |
| Reconciliation | drift records | compare Stripe and ledger | signs | agreement is reported as agreement | operator in `Escrow` |
| Saved cards, inquiries, feeds, share, media, legal, configuration | – | – | little | – | not modelled |

`PROJECT.json` lists the components with their status, and under `hazards` each
place where the code is hard to test.

## Modules

| Module | What it is |
|---|---|
| `Auction` | One run of one auction: auction row, bids, holds, Stripe's idempotency keys, the booking of the hammer price, the piece, the clock. |
| `Sale` | What an auction promises, abstractly: bidding ends once, then the work is offered to one bidder at a time, and is booked to one at most. |
| `Checkout` | One work and the orders made for it: reservation, payment intents, payment webhooks, cancelling, refunding, the abandoned-order sweep. |
| `OneWork` | What checkout promises, abstractly: a work is kept for one order at a time, sold to that order only, and never returned to an order that lost it. |
| `Escrow` | Paid orders of one artist: shipping, confirmation, complaint, payout, refund, chargeback, the ledger, and what Stripe knows. |
| `Custody` | What escrow promises, abstractly: a payment moves once, whole, while the books agree where it is; one whose order is completed over a refund goes astray. |
| `Listings` | A seller's works, their auctions and orders as far as they touch the work, and the bills of events. |
| `Sessions` | Refresh tokens and Redis keys, and the handlers that open and end sessions. |
| `Accounts` | Names, the reservations of names given up, addresses and one-time codes. |
| `People` | Who uses the server and how many requests it serves at once; `Social`, `Receipts` and `Community` extend it. |
| `Social` | Follows, blocks and conversations. |
| `Receipts` | One conversation: the times of its messages and readings, and what it says of them. |
| `Rsvps` | One event and its guests. |
| `Community` | Marks, comments, reports, shelves, addresses, and what goes with an account. |
| `Auction_proofs`, `Checkout_proofs`, `Escrow_proofs`, `Listings_proofs`, `Sessions_proofs`, `Accounts_proofs`, `Social_proofs`, `Rsvps_proofs` | The inductive invariants and the theorems of the module they extend; `Social_proofs` extends `Receipts` and `Community` as well and holds their theorems. |
| `MC*` | Symmetries, and the few values that a cfg cannot write. |

Two refinements meet at a work won at auction: `Auction` ends with `awaiting_winner`
and `Checkout` begins there. `Checkout` ends with a paid order and `Escrow` begins
there. `Listings` has the steps of both as far as they change the piece.

`Auction`, `Checkout`, `Escrow`, `Sessions`, `Accounts` and `Rsvps` have a constant
`Hazards` (`Community` has `Oddities`) that says which misbehaviours of the environment an
instance has; a run names those it has. Where the code breaks a promise on a path of its
own, a history variable names the rows that went that way, and the property says that
nothing else breaks it.

### Auction

State and code. `status`, `closesAt`, `extended`, `winner`, `deadline` and
`depth` are columns of `auctions`; `piece` and `listing` are the piece's status
and whether its listing type is `auction`. `bids[b]` joins a bid row, its hold
row and what Stripe knows under each idempotency key `hold:{id}:{n}`; `booked`
says that the ledger has `auction_captured:{hold}`. A key is `torn` when Stripe has
charged it and the section that did so never committed; to the code it is a charge
like any other, and the section that next takes that bid up adopts it. `request[u]` is
the auction row a bidder's open request has already loaded, `sweep` the hold row the
refresh sweep has loaded.

Actions. `PlaceBid` is `bid_dao.place_bid`, including the new authorisation, the
release of the bidder's previous hold and the soft close; `CloseOne`, `ExpireOne`
and `RefreshOne` are the sweeps' per-row sections; `RetryPayment` the winner's
second card; `Extend`, `CancelAuction`, `EditStatus` and `EditTerms` the seller's
requests. Every section that touches Stripe and the database ends in `Conclude`:
its rows are committed, or it raised or died and only Stripe's side remains.

`OneSale` counts charges at Stripe and not rows: one charge stands and is booked to
whoever has the work, and a torn charge's bid, as long as it is in the running, is the
one the next sweep or retry settles on. So a second bidder is charged only past a
forfeit (the winner's window ends after a retry that died) or past the winner's own
retry (after a cascade that died): see "Known disagreements".

`Hazards`: `bid_overlap` and `refresh_overlap` (a row loaded before the lock),
`crash`, `edit` (the owner edits the piece), `cancel`. "Proofs" says which theorems
exclude which.

Abstractions. The clock ticks in units; prices are small numbers with one
increment per step; Stripe's own expiry of authorisations is represented by a
refused re-authorisation; a decline is always possible where Stripe may decline.
The statuses `pending` and `failed` of a hold are never committed and are left
out. Notifications, audit records and the branch without a Stripe key are left
out. An owner's patch of a piece and the close are atomic towards each other,
although they lock different rows. `RequestLife` bounds the time between a bid
request's read and its lock; `TimesAssumption` asks that it plus the soft-close
window is at most the extension floor (in the code: a request's lifetime plus
five minutes against three days), without which an extension could be undone.

### Checkout

State and code. `piece` and `listing` are `pieces.status` and `listing_type` of one
work, `auction` the status of the closed auction it was won in, if any. `orders[o]`
is an order row of this work (`referenced`: `payment_reference` is set) with what
was booked for it (`booked`: the ledger has `order_paid:{id}` and the payout row
exists; the two are committed together). `loaded[o]` is the piece row a
checkout has loaded and not yet locked. `intents[o]` and `events[o]` are Stripe's:
the intent created under the key `pi:{order}` and its undelivered webhook events.
They survive a rollback. `crossed` is history: while an order held the work, another
checkout has reserved it on an outdated row, or its owner has moved it away. It ends
with the last order that holds the work.

Actions. `LoadPiece` followed by `Collect` or `AuctionCheckout` are `collect` and
`auction_checkout` with their `create_order`; `CreateIntent` is
`create_payment_intent`, `OnPaymentSucceeded` and `OnPaymentFailed` the webhooks,
`Cancel` the PATCH of a buyer or seller, `ExpireAbandoned` one order of the sweep
with its call to Stripe, `Refund` the second transaction of `refund_order`, `Ship`
`create_shipment`, `EditStatus` and `EditTerms` the owner's requests. `Confirm` and
`Settle` are the payment sheet and Stripe.

`Hazards`: `overlap` (two checkouts between load and lock), `crash` (a
handler dies after talking to Stripe and before its commit), `redeliver` (an event
is handled twice), `cancel` (PATCH by a participant), `edit_committed` (the owner
moves a work that an order holds, which `VALID_TRANSITIONS` permits).

Abstractions. What follows `shipped` is `Escrow`; so are the two Stripe calls of a
refund. An order's age is nondeterministic: the sweep may take any pending order.
`is_for_sale` is folded into `live`. Webhooks and the sweep read the piece without
locking it, after they locked the order; read and write are one step here. The
development branch without a Stripe key is left out, and so are prices, addresses
and messages. An auctioned work here starts when its auction has been settled.

### Escrow

State and code. `orders[o]` is the order from `paid` on (`auctioned`: the hammer
price was captured at the close; `received`: history, the collector confirmed or an
admin ruled for the artist). `shipments`, `disputes`, `payouts` are rows, `reviews` the orders whose refund an
admin has been asked to look at (an audit entry), `ledger` the transactions by their idempotency key with their
entries, `seller` the Connect account and its unread `account.updated`s.
`transfers`, `refunds`, `chargebacks` and `events` are Stripe's. `payers` and
`refunders` are the requests that are paying out or refunding, each with the step
it is at: `release_payout_for_order` claims the payout, calls Stripe, and
finalises in three transactions; `refund_order` reads, makes one or two Stripe
calls, and records in another. Between any two of these steps others act: nothing keeps
a confirmation out while a refund runs. `crossed` is history: the orders that were
completed (confirmed, or released by a ruling) while a refund of them ran or had gone
through at Stripe, and completed ones that an admin refunded by hand.

Actions. `CreateShipment`, `Delivered`, `RecordCost` are the shipments controller;
`ConfirmReceived`, `ReportIssue`, `Cancel` the order's participants; `ReleaseOrder`,
`RetryPayout`, `BeginRefund` the admin's; `PayoutStep` and `RefundStep` one step of
a running request; `Webhook` the handler of each event type, in any order;
`OnAccountUpdated`, `StartOnboarding`, `OnboardingStatus` the Connect account;
`RefundByHand`, `OpenChargeback`, `CloseChargeback`, `TransferReturns`,
`AccountChanges` what happens at Stripe; `Crash` a dying process.

`Hazards`: see `HazardKinds`; each names one thing that goes wrong at Stripe, at
the courier or in the process, or one order of events. That a refund interleaves with
other requests, fails half way, or is made for an order that has shipped is no hazard
there: every run has it.

Abstractions. Amounts are a handful of cents chosen so that the commission needs
rounding (25 cents at 10 %) and every entry has a different size. Partial transfers
and the branch without a Stripe key are left out. Stripe's idempotency key is
forgotten only under `amnesia`, which no run has: then two transfers are possible.

### Listings

State and code. `piece[p]` is status, `is_for_sale` and `listing_type`; `auction[p]`
its latest auction, with the event it is for and whether anybody has bid; `sale[p]`
the latest order; `bill[e][p]` the mode in which a work is tagged; `event`, `seller`.
`holes[p]` is history: it records which unchecked step a work has gone through, and
is what the properties exclude by name. `split`, `removed` and `stale` last as long as
the auction runs, `reopened` and `crossed` as long as the order is in progress, `unready`
and `lapsed` until the owner sells again; the module says what each is. So a property
says: *the only ways this can go wrong are the ones listed here*.

`seen[p]` is the status of a work in the row that the owner's running request has
loaded. Only `patch` loads it with a lock; delete, relist, tagging, publishing, calling
off and leaving judge by `seen`, and write the columns that they change of that row over
whatever bids, closes and sales have made of it since (`Loaded`, `Flushed`). A sale comes
before such a request loads the work or after it (`Loads`), and a request begins after the
owner's last one has committed (`LoadsAgain`).

Actions. One per handler of `pieces_controller` (create, patch of terms and of
status, delete, relist), of the line-up (`AddPiece`, `RemovePiece`, `Publish`,
`CancelEvent`, `DeleteEvent`), of the seller's settings, and the deletion of the
account in its commits; `Sales` collects the bids, settlement and orders that touch
a work.

Abstractions. The owner's requests do not overlap each other, and an auction's row is
read when it is written: what is stale here is the work, against what bidders and buyers
do to it. Interleavings inside bidding and checkout are the business of `Auction` and
`Checkout`. Prices, dates and descriptions are left out.

### Sessions

State and code. `session[s]` is the row of `refresh_tokens` (`token`) and the Redis
key (`redis`) of a session id; `ticket` the password-reset links; `account` the
password, deletion, and number of revocations. `chain` names the session a login
opened and refreshes continued. `request[r]` is a handler with the commits and Redis
calls it has still to make (`Steps`): `login`, `refresh`, `logout`, `logout_all`,
`change`, `reset`, `delete`.

Actions. `Arrive` is everything a handler checks before its first write; `Step` its
next commit or Redis call; `Dies` a crash. `ForgetPassword`, `LinkExpires`.

`Hazards`: `crash`, `outage` (one Redis call raises), `blip` (Redis fails for one key
of a scan and the scan goes on; no run has it).

Abstractions. Access tokens are a Redis look-up and not states. Rate limits and
devices are left out. A refresh does not look at `deleted_at`, which is modelled.

### Accounts

State and code. `user`, `history` (`username_history`, unique per name, never
deleted) with `fresh` for the month of reservation, `cache` (names answered
"available" within a minute), `otp` and `resend` (Redis). `request[r]` keeps the stage
of a handler. `mailed`, `used`, `raced`, `slipped`, `torn` are history.

Actions. `AskForCode` and `SendCode` are `request_otp` with INCR and EXPIRE apart;
`Register`, `ConfirmEmail` read the code, `Burn` deletes it, and `CreateUser`,
`UpdateEmail` commit; `Rename` and `UsernameCheck` go through `Look` (the database)
and `Remember` (the cache), and `ChangeUsername` and `Forget` finish a rename.
`CodeExpires`, `WindowEnds`, `AnswerExpires`, `MonthPasses` are clocks.

`Hazards`: `asks` (an owner asks about a name they gave up: the answer, "yes", is
cached for everybody), `overlap` (an account deleted while it renames; no run has
it), `crash`.

Abstractions. The attempts counter of a code is left out; so are reserved words and
the normalisation of names. Renaming the prefix of stored media, which changes no row
the properties read, is left out.

### Social

State and code. `profile` (private, who may message), `follow[u][v]`, `blocks`, and
one `thread` per pair of people with the sender of its oldest message. `request[r]`
is a handler that has read and decided and not yet committed. `agreed`, `slips`, `late`,
`silent` are history: who has shown that they want a thread, what has gone wrong with
its consent since it was last started, which follows a block came too late for, and which
threads were answered before they had a message.

Actions. `ReadAndCommit` is the part of a handler up to its first commit (follow,
admit, refuse, start, say, accept, decline); `InsertFollow`, `SettleFollow`, `Say`,
`Decide` the commit that remains; `Unfollow`, `Block`, `Unblock`, `SetProfile` one
commit each.

The module has no hazards. Messages go over REST and over Socket.IO (`Accepts`), where any
message accepts a pending thread, whoever sends it: a thread so opened by whoever asked is
`forced`. Either side may start a closed thread again (`Start`), and the oldest message
goes on telling who asked: a thread started again by the other side is `reversed`.

### Receipts

State and code. Times are what `utcnow()` returns in a request; no two are the same,
so a message is known by its `created_at`. `now` is the last one taken, `sender[t]` who
sent the message created at `t` once it is committed, `lastAt` and `readAt` are
`conversations.last_message_at` and the two `participant_*_read_at`. `handling[r]` is a
request between taking its time and its commit, with the page it has listed. `shown`,
`furthest` and `crossed` are history: what each participant was shown, the latest time
they have read at, and the messages that were on their way while a reading, or a
younger message, overtook them.

Actions. `FlushMessage` and `CommitMessage` are `create_message`; `OpenThread` is
`get_thread`, which lists a page before any cursor and marks the whole thread as read,
`SayRead` the `mark_read` of a client that has every message from its socket; each goes
on with `TakeReadAt` and `CommitReadAt`. `Abandon` is a failure before the commit.
`InboxItem` is what `list_inbox` and `list_requests` derive.

Abstractions. Consent, blocks and declining are `Social`; message bodies, presence and
typing are left out.

### Rsvps

State and code. `event` (status, capacity, over) and `rsvp[g]`. A claim has loaded
event and RSVP before it locks the event and sees them as they were
(`Claim`, then `TakePlace`); an edit of the capacity counts without a lock
(`SetCapacity`, `CommitCapacity`). Calling off and deleting list the attendees and
tell them one by one (`CallOff`, `ListAttendees`, `Tell`, `Remove`); notices fail.
`told`, `missed`, `squeezed` are history. `Hazards`: `double` (two requests of the
host at once; no run has it).

### Community

State and code. `content` (scenes), `comment`, `marks` (likes, saves, collection
items), `named` (people a notification names), `report` (open ones), `shelf`
(`series_pieces`), `address`, `closed` (deleted accounts). `request[r]` is a handler
between a look-up and its insert, between an insert and the notification, or between
two commits of a deletion. `late`, `doubled`, `split`, `torn` are history: who had a
request in flight, or two.

`Oddities`: `odd` (PATCH gives a scene a status that is neither live nor draft; no run
has it).

Abstractions. Likes and saves are written alike and are one kind. Handlers that
cannot come apart visibly (editing, deleting, ruling on a report) are one step. Names
and covers of folders, positions on shelves and media are left out.

## Runs

All runs pass. "Environment" is what the run's `Hazards` admit.

| Run | States | Environment | Shows |
|---|---|---|---|
| `auction_orderly` | 57,669 | sellers may cancel, nothing overlaps | `FallbackFunded`, `OneLiveHold`, `NothingLeftOnCards`, `NobodyDropped`, `NoSniping`, that `Auction` implements `Sale` (`KeepsPromise`), and under the beat's fairness `NothingWaits` |
| `auction_storm` | 1,957,096 | every hazard at once | `OneSale`, `LosersBidLess`, `NoBidAfterClose` |
| `checkout_orderly` | 246,497 | participants cancel, events repeat | `PieceFollowsOrders`, that `Checkout` implements `OneWork` (`KeepsPromise`), and under fairness `EveryCheckoutEnds` |
| `checkout_storm` | 258,746 | overlaps, crashes, repeated events, edits of committed works | `SoldOnce`, `CancelledIsUncharged`, `ReleasedForGood` |
| `escrow_orderly` | 359,370 | refunds race everything and fail half way, transfers are reversed, the account is not always ready, courier costs come late | `BooksAreTrue`, that `Escrow` implements `Custody` (`KeepsCustody`), and under fairness `ConfirmationPays` |
| `escrow_storm` | 819,840 | the same, with crashes, refunds by hand, chargebacks, returned and early reversed transfers; the account is ready | `PaidOrRefunded`, `OneTransfer`, `PaidOutWasDelivered`, `RowsMatchBooks` |
| `listings` | 1,161,739 | any order of the seller's, hosts', bidders' and buyers' requests, and works sold while a request holds an older row | `BidsHaveAListing`, `OrderKeepsWork`, `EventComesDown`, `OnlySellersSell` |
| `sessions` | 536,506 | crashes, Redis outages | `RevocationHolds`, `KeepsSignedIn` |
| `accounts` | 3,298,773 | crashes, owners who ask about old names | `ReservedForOwner`, `CodeServesOnce`, `NobodyLockedOut` |
| `social` | 1,371,070 | crashes, overlapping requests, REST and socket, restarts by either side, readings and messages that overtake each other | `BlockedApart`, `ConsentToOpen`, `RequestReachesRecipient` of `Social`, `ReadStateIsTrue` of `Receipts` |
| `rsvps` | 281,638 | crashes, failed notices, overlapping claims and edits | `RoomHolds`, `CalledOffTold` |
| `community` | 779,629 | crashes, overlapping requests | `FootprintGone`, `NothingTwice` |

Every property has a mutant in `PROJECT.json`: a change of one mapped definition,
such as a dropped check, a swapped order or a missing write, that violates it.

Every module has a type invariant, `TypeOK` (`ReceiptsTypeOK`, `CommunityTypeOK`).
They are all proved, and have been checked
with the constants of their run (`escrow_storm` for `Escrow`); the runs do not repeat
them.

### Bounds

*Auction.* Two bidders and three bids are enough for: raising one's own bid, being
outbid and outbidding, a tie, a winner with one fallback, and a cascade that goes
past the depth limit. One refresh per hold gives two Stripe keys, the least with
which an old and a new authorisation can be confused; with all hazards on, two
bids suffice because every property relates at most a winner and one other (a torn charge
and the bidder who is charged after it). The
times are the smallest for which an extension is possible (`Duration` above
`ExtendFloor`) in the run that needs one.

*Checkout.* Three orders for one work are one more than any property relates: an
order that lost the work, one that holds it and one that could take it. A work that
falls through and is sold again, a winner's second order and a payment against an
old order all fit.

*Escrow.* One order, because no handler reads a second one except through the
balance of the artist and of the clearing account, which are sums over the orders (and
the theorems are about every order of any set). Two workers give
every race of two payouts, with a crash and a retry; one admin refunds against both, and
against the confirmation, as often as it takes.
Two transfers is one more than may happen.

*Listings.* One work and two events: tagging on two bills at once is where events
meet, and no handler decides about a work by reading another. One row in flight (`seen`)
is that of the owner's one request. Auctions and orders repeat without
bound.

*Sessions.* One user, three session ids (a chain of two refreshes, or a chain and a
second login), two overlapping requests, one revocation before and one after. No
handler reads another user's rows.

*Accounts.* Two users, two names (an old and a new), two requests, one address, one code,
and one code per minute. Other accounts are open from the start, so that every
request is possible at once.

*Social.* Two users: every row is about a pair. Two overlapping requests, one for each
side or both for one. *Receipts.* A conversation has two participants. Two requests are a
message overtaken by a message or by a reading, or two readings; five times are a
thread's own, three messages and a reading, or a message between two readings; a page
of one message is the least that leaves something out. The two modules share no state:
`EitherSpec` explores each from one of the other's initial states.

*Rsvps.* Two guests, three requests: two claims and the host.
*Community.* One scene and one comment, two of what may be doubled (reports, series,
addresses); `MaxRows` caps the rows of a kind.

Symmetry is used where a run's properties are invariants and action properties, so
it is sound; the runs with temporal properties have none. Deadlock is not checked: an
auction that has ended, a work whose order slots are used up, an account that is
deleted have nothing left to do.

### Fairness

*Auction.* Only `CloseOne` and `ExpireOne` are weakly fair: the beat starts both
sweeps every minute and each takes every due row. Nobody is obliged to bid, pay,
retry, edit or cancel. Time is not assumed to pass.

*Checkout.* `ExpireAbandoned` is weakly fair for every order, because the beat runs
the sweep every five minutes over all pending orders past fifteen minutes; so are
Stripe's settling of a payment it is processing and the two webhooks, because Stripe
delivers an event until it is acknowledged. Without crashes only: a sweep that dies
between cancelling the intent and committing leaves a pending order whose intent
Stripe will not cancel a second time, and no later pass frees it.

*Escrow.* `PayoutStep` and `RefundStep` are weakly fair: a request that runs goes on
(`escrow_orderly` has no crashes). `Webhook` is: Stripe redelivers. Nobody has to
confirm, ship, retry or refund, and no job retries a payout; `ConfirmationPays`
therefore says that a confirmed order's payout is released or *visibly* failed or
blocked, where the admin's queue shows it.

The other modules state no fairness and no liveness: their code has no retries, no
jobs and no waiting. What must not be forgotten there is an invariant over requests
that have ended (`CalledOffTold`, `NobodyLockedOut`), or over every state (the second half
of `EventComesDown`).

## Proofs

Every invariant and action property that a run checks, and all three refinements, is
also a theorem, for every value of the constants that satisfies the module's
assumptions: any number of bidders, orders, works, events, guests, users, sessions
and overlapping requests. A theorem excludes a hazard only where the property is
false with it; the exclusion is a hypothesis on `Hazards`, and "under every hazard"
below means there is none. `TypeOK` is proved of every module under every hazard
(`Typed`; `ReceiptsTyped`, `CommunityTyped`). Each proof has one lemma or step per action, and the inductive
invariants have been checked by TLC with the constants of the runs before they were
proved.

### Auction

Under every hazard: `AtMostOneSale` (`OneSale`), `WinnersArePaid` (`SettledCleanly`),
`HoldsDoNotPileUp` (`OneLiveHold`), `LosersHadBidLess` (`LosersBidLess`), and the action
properties `CloseOnlyMovesLater` (`NeverShorter`), `ClosedToBids` (`NoBidAfterClose`),
`WindowToAnswer` (`NoSniping`), `PlacesAreKept` (`NobodyDropped`).

The invariant `Inv` says what the rows are at each status of the auction (`Sound`): that
nobody is booked before the sale, and that a winner who is being replaced is not. It adds
that a closed auction is past its
close time (`PastClose`) and that a row loaded earlier was loaded no later than now
and is no later than the real one (`Loaded`, `SweepLoaded`), which is what the action
properties need. Each locked section is handled once, through `Conclude`. `Rank` adds,
for `LosersBidLess`, that bids still in the running rise with their numbers, so that
the highest is the latest, also after a cascade has passed over some. `OneSale` rests on
both and on `Charge`: a row's standing charge is its only one, is booked and has won
(`Accounted`), and a torn charge's bid, while it is in the running, is above all others
that are, or is the winner's (`TornInLine`); each section is shown to charge nobody else.

Under hypotheses:

* `ImplementsSale` (`KeepsPromise`), unless bids overlap cancellations. `Unsettled`
  is what it needs: while bidding is open there is no winner, and an auction that
  nobody may cancel is never cancelled.
* `FallbacksStayFunded` (`FallbackFunded`), without `crash` and `edit`. `Funded` says that
  the piece follows the auction, that every fallback has an authorisation or is known
  to need one (`Backed`), and that a hold row the refresh sweep has loaded is still true
  of a fallback (`Swept`).
* `CardsAreCleared` (`NothingLeftOnCards`), without `crash`, `edit` and `refresh_overlap`
  and unless bids overlap cancellations. `Clear` says that a hold knows the only
  authorisation there is for it, and that no bid of an ended auction is active.

### Checkout

* Under every hazard, `BooksFollowStripe` (`PaidIsCharged`) and `NeverRevived`
  (`ReleasedForGood`). `Inv` adds that an event tells the truth about its intent, that
  Stripe only charges an order which knows its intent, and that an order that was
  never made has nothing at Stripe.
* Without `cancel`, `SweepIsSafe` (`CancelledIsUncharged`). The strengthening is
  `SheetClosed`: a cancelled order has no intent that a buyer could still confirm.
* Under every hazard, `NoDoubleSale` (`SoldOnce`): outside a crossing one order holds the
  work and the piece agrees with it (`OneHolder`, in which that a free work has no holder
  comes from the piece's status), a crossing lasts as long as some order holds the work,
  and when the last lets go one order can hold it again (`Tidy`).
* Without `overlap` and `edit_committed` (`Careful`), where no order is ever crossed,
  `PieceAndOrdersAgree` (`PieceFollowsOrders`) and `ImplementsOneWork` (`KeepsPromise`). A
  step either takes the work, sells it, lets it go or does none of these; one lemma per
  kind serves the invariant and the refinement alike.

### Escrow

* Under every hazard, `PaidOnceReceived` (`PaidOutWasDelivered`), `RowsAreBooked`
  (`RowsMatchBooks`) and `ClearingAlwaysTrue`: the books of each order sum to nothing, and
  its clearing balance is what Stripe holds once they have caught up. `ReceivedFirst`
  carries the receipt through a running payout; `PayoutBooked` and `RefundBooked` tie a row
  to its transaction.
* While Stripe remembers idempotency keys (no `amnesia`), `PaidOnce` (`OneTransfer`).
* Under every hazard, `OneWayOnly` (`PaidOrRefunded`), from `OneWay`: an order that was
  received is completed or refunded, one that is received and is being or was refunded is
  crossed, and a transfer is made for a received order only (`ReceivedFirst`). Crashes,
  failed and lost answers of Stripe, refunds of shipped orders and any interleaving of
  refunds with confirmations, rulings and payouts are among its steps.
* With transfers that come back only once they are booked, refunds made on the platform
  and keys that Stripe remembers (`Steady`: none of `bounce`, `early`, `by_hand`, `amnesia`),
  `ImplementsCustody` (`KeepsCustody`) and `BooksTrue` (`BooksAreTrue`), from
  `TransfersBooked` and `RefundsKnown` (who records a refund knows that all of it was given
  back). Orders completed over a refund go astray in `Custody`, and nothing is said of
  what the artist is owed for them; crashes and refunds of every kind are included.
  `Balance` is a sum per order so that both are about each order for
  itself; amounts are arbitrary naturals and the commission any number of basis
  points, so the bookings balance for all of them.
* `CommissionIsFair`, of the constants alone: for every price and every rate from nothing
  to the whole, which is what `commission_bps` clamps the configured one to, the
  commission is the exact rate to half a cent and takes no more than the price, so the
  share booked for the artist is never negative. It is what the other theorems of this
  module leave open, whose sums would balance with any commission.

### Listings

Under every hazard: `BiddersFindIt` (`BidsHaveAListing`), `OrdersKeepWorks`
(`OrderKeepsWork`), `EventsComeDown` (`EventComesDown`: nothing outlives an event that is
gone, and one that is up can always be called off), `SellersSell` (`OnlySellersSell`).
The holes of the properties are
history, and no hypothesis. The invariant is one conjunction per work, `Good`: a work
that was never put in has neither auction, order nor tag (`Fresh`); a work that somebody
may bid on, or has bid on, is listed (`Biddable`); the terms of a work with a running
auction say so (`Auctioned`); an auction an event opened stays on its bill while it is
open (`OnItsBill`); an order in progress keeps its work (`Kept`); whatever is marked for sale
has a seller who sells and is not leaving (`Sold`). Beside it, `Read` says how far the row
that the owner's request has loaded can be from the work: bids and sales neither make
nor delete one, and a work loaded as sold has no running auction that is still listed. A
request whose row is out of date leaves a hole that excuses what it does to an auction or
an order (`OutdatedGood`); the rest of each lemma is about rows that are in date, and about
what no hole excuses.

### Sessions

Under every hazard: `RevocationsHold` (`RevocationHolds`) and `StaySignedIn`
(`KeepsSignedIn`). `Revoking` says of a revocation under way that whatever it has
already been through is unusable or was issued beside it, and the same of the last one
answered. `SignedIn` follows a chain through a refresh: a request that has spent the
old token and not issued the new one stands for it.

### Accounts

* Under every hazard, `CodesServeOnce` (`CodeServesOnce`): until two requests have read
  it, a code is at one place only (`OnePlace`), in Redis, with one request, or used; and
  `NobodyStaysLockedOut` (`NobodyLockedOut`): a count has an expiry, or the request that
  counted first is about to set it (`Timing`).
* Without `overlap`, `NamesStayReserved` (`ReservedForOwner`). `Reserved` joins that names
  are unique (`Unique`), what a rename under way has done (`Renaming`), that an answer in
  the cache or in a request is no older than the reservation or told apart (`Told`), and
  that a name is with its owner or reserved (`Kept`).

### Social

* Under every hazard, `BlocksSever` (`BlockedApart`): a follow in flight that no block
  overtook is between people who are not blocked (`UnblockedFollows`), and an answer
  still has its row (`AnswersHaveRows`).
* However messages are sent and whoever starts a closed thread again, `OpenByConsent`
  (`ConsentToOpen`) and `RequestsArrive` (`RequestReachesRecipient`), from one invariant
  `Consent`: of every thread that had its first message before it was answered, an open one
  with no slip is agreed by both, and whoever is taken for the one who asked wants it,
  unless it was started again by the other side; and of the requests that are going to
  write to one.

### Receipts

In `Social_proofs`: `ReadStateHolds` (`ReadStateIsTrue`), for pages of any length and any
number of overlapping requests. The three statements need each other's strengthening,
`ReceiptsInv`: no two messages or readings share a time, and nothing has one that was not
taken yet (`TimesTaken`); a reading under way has on its page, or has crossed, whatever
the other had sent when it listed (`ReadingsAccount`), and so has a `read_at` for every
message up to it; `last_message_at` is the time of a message unless there is none, and
of the latest unless that one was overtaken (`LastIsSent`); what was shown was sent
before it was read (`ShownWasSent`).

### Rsvps

Under every hazard: `RoomAlwaysHolds` (`RoomHolds`) and `CallingOffTells`
(`CalledOffTold`); without `double`, `StaysCancelled`, that a cancelled event is not
published again. The room is counted with the facts of finite sets: a claim under
the lock adds one guest to fewer than there are places. `CalledOffTold` follows the round
that tells guests through every request that may join or leave meanwhile.

### Community

In `Social_proofs`:

* under every hazard, `NothingPilesUp` (`NothingTwice`). It is not inductive: two
  reports, shelves or defaults come about by two requests that both looked before either
  wrote, so the invariant `Marked` says that where the history has no mark there are
  no two requests in flight, no request in flight beside a written row, and no two
  rows;
* without `odd`, `AccountsGoWhole` (`FootprintGone`): a request of a deleted account
  overtook the deletion (`Overtaken`), and once the scenes of an account that is going
  have been taken down none of them is seen again (`Emptying`).

### Assumptions

Each module's `ASSUME`s, which TLC evaluates in every run: a value that stands for
"nobody" or "nothing" is no user, order, session or event; bounds are natural numbers;
the sets of users and guests are finite where they are counted or paired. Beyond these,
`TimesAssumption` of `Auction` (see there) is the one that says something about the
deployment. Everything else a theorem needs is a hypothesis in its statement, and
TLC's counterexamples without it are the ones under "Known disagreements" or the
hazards the module lists.

### Only model-checked

* Liveness, which needs `ENABLED` and is outside the prover's reach: `NothingWaits`
  (Auction), `EveryCheckoutEnds` (Checkout), `ConfirmationPays` (Escrow).
* Sums over all orders (`SellerBalance`, `ReconcileDifference`) are not reasoned about: what is
  proved of the books is proved of each order.

## Known disagreements

Places where the code does something else than its comments or documents say, met
while modelling. Where a definition and constants are given, TLC shows the
behaviour: add the definition to a run's cfg and set `Hazards` as stated. "Without" a
history variable means the definition with the excuse it gives taken out; the run is
the one of the module, with its own constants. The
properties of the runs are stated so that each of these is either outside the run's
environment or excepted by name in a history variable.

| What the code does | Where | What is said | Shown by |
|---|---|---|---|
| A refresh that loaded its hold before the close re-authorises it afterwards | `bids/hold_refresh.py:60-65` | losers' cards are freed at the close | `Auction.NothingLeftOnCards`, `{"refresh_overlap"}` |
| A winner's retry that dies after its capture is forfeited when the window ends | `bids/auction_closer.py:309-310` | "Nothing was charged to you"; and the next bidder is charged for the same work | `Auction.ForfeitedNotCharged`, `{"crash"}` |
| A piece deleted under a running auction makes the close raise after the capture | `bids/auction_winner.py:115-117`, `pieces/piece_state.py:99` | what is captured is booked with it | `Auction.CapturedIsBooked`, `{"edit"}` |
| A bid that loaded the auction before its cancellation is accepted after it | `bids/bid_controller.py:45` | `docs/API.md:724`: every bid is voided, every hold released | `Auction.VoidedOnCancel`, `{"bid_overlap", "cancel"}` |
| Two checkouts reserve one work | `orders/orders_dao.py:84-87` | the lock is taken so that only one can | `Checkout.SoldOnce` without `crossed`, `{"overlap"}` |
| PATCH cancels an order between charge and webhook; the money stays | `orders/orders_controller.py:412-425` | a cancelled order was not paid | `Checkout.CancelledIsUncharged`, `{"cancel"}` |
| A winner's work whose order falls through is delisted | `pieces/piece_state.py:137` | `orders/orders_dao.py:246-248`: goes back to its winner | `Checkout.ReturnsToWinner`, `{}` |
| Reconciliation compares a balance with its negative | `admin/reconciliation.py:93-94`, `ledger_service.py:180-196` | agreement is no drift | `Escrow.ReconcileAgrees`, `{}` |
| A refund credits Stripe's fee back to the books | `payments/money.py:149-152` | `money.py:132-135`: the fee stands | `Escrow.NoPhantomMoney`, `{}` |
| A shipped order can be refunded at Stripe and not in its row, and is then delivered, confirmed and paid out as well | `admin/disputes_service.py:27-29` | `orders/orders_dao.py:38-39`: shipped has no edge to refunded | `Escrow.PaidOrRefunded` without `crossed`, any `Hazards` |
| A confirmation between the check and the record of a refund pays the artist while the collector gets the money back | `admin/disputes_service.py:57-120` | `disputes_service.py:27`: a refund only while the platform still holds the money | `Escrow.PaidOrRefunded` without `crossed`, any `Hazards` |
| A work reserved, or won, after a request has loaded it is deleted, relisted, listed by an event or taken down with one | `pieces/pieces_controller.py:347-355`, `pieces/pieces_dao.py:115-122`, `events/lineup_service.py:225, 292` | `pieces_dao.py:116-117`: "Refuses a piece with a sale attached"; `lineup_service.py:295-296`: not the event's to withdraw any more | `Listings.OrderKeepsWork` without `crossed` |
| An owner's PATCH moves a reserved or sold work back to live | `pieces/piece_state.py`, `pieces/pieces_controller.py:333` | there is an order pointing at it | `Listings.OrderKeepsWork` without `reopened` |
| Changing a work from draft to live opens no auction; terms can change under one without bids | `pieces/pieces_controller.py` | `pieces_controller.py:199-201`: opened when the piece goes live | `Listings.BidsAreListed` |
| A cancelled event is published again by an overlapping request | `events/events_controller.py` | `events/event_state.py:38`: "Nothing moves out of these" | `Rsvps.CancelledStays`, `{"double"}` |
| A message over the socket accepts the pending request, whoever writes it; blocks are checked on neither path | `chat/chat_socket.py:132-143` | its header: the same business rules (block checks, pending/accept) as REST | `Social.ConsentToOpen` without `slips` |
| Whoever declined and starts again opens the thread by their own second message | `chat/chat_dao.py:92` | the sender following up must not accept | `Social.ConsentToOpen` without `slips` |
| A thread that whoever declined starts again lies in their own Requests and in the other's inbox | `chat/chat_controller.py:286-288`, `chat/chat_dao.py:92` | `chat_controller.py:281-282`: it starts in the recipient's Requests folder | `Social.RequestReachesRecipient` without `slips` |
| A rename that overlaps the deletion of its account writes on the deleted row and loses the reservation | `user_controller` | a name given up is kept for a month | `Accounts.ReservedForOwner`, `{"overlap"}` |
| PATCH takes any status for a scene; such a scene survives the account | `posts` | "the account's own social footprint goes too" | `Community.FootprintGone`, `Oddities = {"odd"}` |

Met while reading, without a definition of their own:

* *Bidding.* A cascade that dies after its capture leaves the old winner's window open: a
  retry by the old winner then charges a second bidder. A held bid that was captured by a
  close that died may be authorised anew and charged again.
* *Payments.* A chargeback blocks only a payout that is still pending; a lost one is never
  booked; one that is won returns a payout to `pending` even if a refund had blocked it.
  After a reversed transfer a retry adopts the reversed one. An auction whose fee
  exceeds the rest of the price makes `book_order_paid` raise. `account.updated` out of
  order leaves the older state. PATCH cancels a paid order and refunds nothing.
  `charge.refunded` on an order that cannot be refunded is redelivered in vain.
* *Sessions.* A refresh that dies after spending its token strands the device. A login
  between `revoke_all` and `drop_all` keeps its row and loses its key. A reset that
  dies after burning its link leaves the old sessions. A password change that overlaps
  the account's deletion reopens it; a refresh does not look at `deleted_at`.
* *Accounts.* The availability answer is cached under the name alone, so a former owner
  who asks makes a reserved name free for a minute. Nobody can leave a name twice.
  A crash between INCR and EXPIRE locks an address out for good. Two requests
  may use one code, if both read it before one deletes it.
* *Listings.* Publishing an event relists a work over a running auction or a sale, whoever
  its seller is and whether or not it still exists, and skips a work whose auction is a
  draft. Deleting a work does not look at bids. A work whose auction runs while its terms
  say otherwise keeps its event
  from being called off.
* *Community.* Two taps at once leave two open reports, after which the look-up raises; two
  series for one work do the same. A removal and its report are two commits. A comment
  does not look at what it is on. Addresses and RSVPs of a deleted account stay.
* *Social.* A follow that has passed the block check is inserted after the block. A thread
  whose first message was never stored is accepted by whoever writes first.
  Making a private account public leaves its follow requests waiting.

## Not modelled

* *Saved cards.* Stripe keeps them; the handlers store a customer id. A forgotten card
  is a refused authorisation in `Auction`.
* *Inquiries.* Their routes are not registered in `app.py`.
* *Feeds, categories, share cards, search, analytics, serializers.* They read rows and change
  none that a property is about.
* *Media, storage, renaming of a user's media prefix.* I/O on a bucket; the rows hold a URL.
* *Legal texts and their acceptance, onboarding, preferences.* One row per user and no guard.
* *Notifications' texts, email and push.* Best effort, sent after the commit; `Community`
  models that a notification is written and names people.
* *Audit trail.* Written and never read by code, except `refund_needs_review`.
* *Chat's presence and typing.* Display only.
* *Development branches without a Stripe key,* and the legacy `confirm` of an order, which
  changes state only there.
* *Reports on accounts, cohosts, saves of events, positions on a shelf.* As the modelled
  ones, or single rows.
* *Configuration, models, middleware.* Declarations; `database.py`'s session settings shape
  what a loaded row is.

## Plan

Done: every component in which requests race for a row, money or a name, three
abstract specifications (`Sale`, `OneWork`, `Custody`) and the three refinements; the
theorems of all modules, one for every safety property that a run checks.

Left, in this order:

1. Weaker hypotheses. `SoldOnce`, `PaidOrRefunded` and `OneSale` name in history what breaks
   them and are proved under every hazard; `CancelledIsUncharged` with a buyer's PATCH,
   `FallbackFunded` with crashes and the two refinements that are left under hypotheses
   (`OneWork`, `Custody`) could be stated so too.
2. `NothingLeftOnCards` with overlapping refreshes: at most one authorisation, the one
   a refresh made for a hold that was released meanwhile, should remain.
3. What liveness rests on: that a due auction, an abandoned checkout and a running payout
   each have a step that is enabled, stated without `ENABLED` as the guard of that step.
