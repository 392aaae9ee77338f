-------------------------------- MODULE Social --------------------------------
(***************************************************************************)
(* Follows, blocks and direct messages.  A private account admits its      *)
(* followers; a block severs follows in both directions; a first message   *)
(* to somebody who does not follow the sender is a request, which waits    *)
(* for the recipient to accept, answer or decline it.                      *)
(*                                                                         *)
(* Handlers read, decide and then commit, and no row is locked: a handler  *)
(* is a request with what it read, and a commit it has still to make.  Any *)
(* request may die before that commit.                                     *)
(***************************************************************************)
EXTENDS FiniteSets, People

CONSTANT Settings

ASSUME SettingsAssumption ==
  Settings \subseteq [private : BOOLEAN, permission : {"everyone", "following", "no_one"}]

Pairs == {p \in SUBSET Users : Cardinality(p) = 2}

FollowStatuses == {"none", "pending", "accepted"}
ThreadStatuses == {"none", "pending", "open", "closed"}

VARIABLES
  profile,   \* users: private or not, and who may message them
  follow,    \* follow[u][v]: the row of u following v
  blocks,    \* <<blocker, blocked>>
  thread,    \* conversations, one per pair
  request,
  late,      \* history: follows committed by a request that a block overtook
  silent     \* history: threads answered before they had a message

vars == <<profile, follow, blocks, thread, request, late, silent>>

(***************************************************************************)
(* "first" is the sender of the oldest message.  The rest is history since *)
(* the thread was last started.  "agreed": who has shown that they want    *)
(* it, by starting it, following, writing or accepting.  "slips": that it  *)
(* was "forced" open by the socket, for a message of whoever asked; that   *)
(* it was "reversed", started again by the one who had not asked at first. *)
(***************************************************************************)
ThreadRows ==
  [ status : ThreadStatuses, first : Users \cup {NoUser},
    agreed : SUBSET Users, slips : SUBSET {"forced", "reversed"} ]

NoThread == [status |-> "none", first |-> NoUser, agreed |-> {}, slips |-> {}]

\* "status" is the one the handler decided to write.
RequestRows ==
  [ op : {"none", "follow", "admit", "refuse", "create", "say", "open", "close"},
    me : Users \cup {NoUser}, other : Users \cup {NoUser},
    status : FollowStatuses \cup ThreadStatuses, overtaken : BOOLEAN ]

Idle == [op |-> "none", me |-> NoUser, other |-> NoUser,
         status |-> "none", overtaken |-> FALSE]

TypeOK ==
  /\ profile \in [Users -> Settings]
  /\ follow \in [Users -> [Users -> FollowStatuses]]
  /\ blocks \subseteq Users \X Users
  /\ thread \in [Pairs -> ThreadRows]
  /\ request \in [Requests -> RequestRows]
  /\ late \subseteq Users \X Users
  /\ silent \subseteq Pairs

Init ==
  /\ profile \in [Users -> Settings]
  /\ follow = [u \in Users |-> [v \in Users |-> "none"]]
  /\ blocks = {}
  /\ thread = [p \in Pairs |-> NoThread]
  /\ request = [r \in Requests |-> Idle]
  /\ late = {}
  /\ silent = {}

-----------------------------------------------------------------------------
Apart(u, v) == <<u, v>> \in blocks \/ <<v, u>> \in blocks

Follows(u, v) == follow[u][v] = "accepted"

Begin(r, op, u, v, status) ==
  /\ request[r] = Idle
  /\ request' = [request EXCEPT ![r] =
       [op |-> op, me |-> u, other |-> v, status |-> status, overtaken |-> FALSE]]

Done(r) == request' = [request EXCEPT ![r] = Idle]

Doing(r, op) == request[r].op = op

-----------------------------------------------------------------------------
(***************************************************************************)
(* Follows and blocks.                                                     *)
(***************************************************************************)
\* patch_me
SetProfile(u, settings) ==
  /\ profile[u] # settings
  /\ profile' = [profile EXCEPT ![u] = settings]
  /\ UNCHANGED <<follow, blocks, thread, request, late, silent>>

\* follow, as far as it reads: a second follow is a no-op.
AskToFollow(r, u, v) ==
  /\ u # v /\ ~Apart(u, v) /\ follow[u][v] = "none"
  /\ Begin(r, "follow", u, v, IF profile[v].private THEN "pending" ELSE "accepted")
  /\ UNCHANGED <<profile, follow, blocks, thread, late, silent>>

\* Its INSERT.  Two of them collide on uq_follow, and the second is a 500.
InsertFollow(r) ==
  LET q == request[r] IN
  /\ Doing(r, "follow")
  /\ IF follow[q.me][q.other] = "none"
     THEN /\ follow' = [follow EXCEPT ![q.me][q.other] = q.status]
          /\ late' = IF q.overtaken THEN late \cup {<<q.me, q.other>>}
                     ELSE late \ {<<q.me, q.other>>}
     ELSE UNCHANGED <<follow, late, silent>>
  /\ Done(r)
  /\ UNCHANGED <<profile, blocks, thread, silent>>

\* Who was about to answer a follow request that is gone answers nothing.
Outdated(q, u, v) == q.op \in {"admit", "refuse"} /\ q.other = u /\ q.me = v

Overtake(rs) == [r \in Requests |-> [request[r] EXCEPT !.overtaken = @ \/ r \in rs]]

Unfollow(u, v) ==
  /\ follow[u][v] # "none"
  /\ follow' = [follow EXCEPT ![u][v] = "none"]
  /\ request' = Overtake({r \in Requests : Outdated(request[r], u, v)})
  /\ UNCHANGED <<profile, blocks, thread, late, silent>>

\* accept_follow_request and decline_follow_request, as far as they read.
AnswerFollow(r, u, v) ==
  /\ follow[v][u] = "pending"
  /\ \E op \in {"admit", "refuse"} : Begin(r, op, u, v, "none")
  /\ UNCHANGED <<profile, follow, blocks, thread, late, silent>>

\* Their UPDATE or DELETE, by primary key: a row that is gone by then is a
\* StaleDataError and a 500.  A row made since has another key.
SettleFollow(r) ==
  LET q == request[r]
      done == {x \in Requests : q.op = "refuse" /\ Outdated(request[x], q.other, q.me)}
  IN
  /\ q.op \in {"admit", "refuse"}
  /\ follow' = IF q.overtaken THEN follow
               ELSE [follow EXCEPT ![q.other][q.me] =
                      IF q.op = "admit" THEN "accepted" ELSE "none"]
  /\ request' = [(IF q.overtaken THEN request ELSE Overtake(done)) EXCEPT ![r] = Idle]
  /\ UNCHANGED <<profile, blocks, thread, late, silent>>

\* block_user: one transaction.  What is under way between the two is overtaken.
SeveredOneWay(u, v) == [follow EXCEPT ![u][v] = "none"]
Severed(u, v) == [follow EXCEPT ![u][v] = "none", ![v][u] = "none"]

Block(u, v) ==
  /\ u # v /\ <<u, v>> \notin blocks
  /\ blocks' = blocks \cup {<<u, v>>}
  /\ follow' = Severed(u, v)
  /\ request' = Overtake({r \in Requests :
       /\ {request[r].me, request[r].other} = {u, v}
       /\ request[r].op \in {"follow", "admit", "refuse"}})
  /\ UNCHANGED <<profile, thread, late, silent>>

Unblock(u, v) ==
  /\ <<u, v>> \in blocks
  /\ blocks' = blocks \ {<<u, v>>}
  /\ UNCHANGED <<profile, follow, thread, request, late, silent>>

-----------------------------------------------------------------------------
(***************************************************************************)
(* Direct messages.                                                        *)
(***************************************************************************)
ThreadOf(r) == {request[r].me, request[r].other}

\* create_message
WithMessage(row, u) == [row EXCEPT !.first = IF @ = NoUser THEN u ELSE @]

MayMessage(u, v) ==
  /\ ~Apart(u, v)
  /\ \/ profile[v].permission = "everyone"
     \/ profile[v].permission = "following" /\ Follows(v, u)

Started(row, u, v) ==
  [row EXCEPT !.status = IF Follows(v, u) THEN "open" ELSE "pending",
              !.agreed = {u} \cup {x \in {v} : Follows(v, u)},
              !.slips = {"reversed" : x \in {row.first} \ {u, NoUser}}]

\* start_conversation.  A thread that is not closed is used as it is; a closed
\* one starts again, for either of the two, in the commit of its message; a new
\* one is a commit of its own, and its message another.
Start(r, u, v) ==
  LET p == {u, v}
      row == thread[p]
  IN
  /\ u # v /\ MayMessage(u, v)
  /\ CASE row.status \in {"pending", "open"} ->
            /\ thread' = [thread EXCEPT ![p] =
                 [WithMessage(row, u) EXCEPT !.agreed = @ \cup {u}]]
            /\ UNCHANGED request
       [] row.status = "closed" ->
            /\ thread' = [thread EXCEPT ![p] = WithMessage(Started(row, u, v), u)]
            /\ UNCHANGED request
       [] row.status = "none" ->
            /\ thread' = [thread EXCEPT ![p] = Started(row, u, v)]
            /\ Begin(r, "create", u, v, "none")
  /\ UNCHANGED <<profile, follow, blocks, late, silent>>

\* accept, decline and send_message, as far as they read: the sender of the
\* oldest message is taken for the one who asked.
DecidesEither(u, row) == row.status = "pending"
Decides(u, row) == row.status = "pending" /\ row.first # u

Answered(p) == silent' = IF thread[p].first = NoUser THEN silent \cup {p} ELSE silent

Answer(r, u, v) ==
  /\ u # v
  /\ Decides(u, thread[{u, v}])
  /\ \E op \in {"open", "close"} : Begin(r, op, u, v, "none")
  /\ Answered({u, v})
  /\ UNCHANGED <<profile, follow, blocks, thread, late>>

\* A message that answers a request accepts it first, in a commit of its own:
\* send_message if the other side asked, message:send of the socket whoever asked.
Accepts(u, row) == {Decides(u, row), row.status = "pending"}

WantedBy(row, u) == [row EXCEPT !.agreed = @ \cup {u}]

AcceptedBy(row, u) ==
  [WantedBy(row, u) EXCEPT !.status = "open",
                        !.slips = @ \cup {"forced" : x \in {u} \cap {row.first}}]

Send(r, u, v) ==
  LET row == thread[{u, v}] IN
  /\ u # v
  /\ row.status \in {"pending", "open"}
  /\ \E accepts \in Accepts(u, row) :
       IF accepts
       THEN /\ thread' = [thread EXCEPT ![{u, v}] = AcceptedBy(row, u)]
            /\ Answered({u, v})
       ELSE /\ thread' = [thread EXCEPT ![{u, v}] = WantedBy(row, u)]
            /\ UNCHANGED silent
  /\ Begin(r, "say", u, v, "none")
  /\ UNCHANGED <<profile, follow, blocks, late>>

Say(r) ==
  /\ request[r].op \in {"create", "say"}
  /\ thread' = [thread EXCEPT ![ThreadOf(r)] = WithMessage(@, request[r].me)]
  /\ Done(r)
  /\ UNCHANGED <<profile, follow, blocks, late, silent>>

\* The status is written whatever it has become since it was read.
Decide(r) ==
  LET q == request[r] IN
  /\ q.op \in {"open", "close"}
  /\ thread' = [thread EXCEPT
       ![ThreadOf(r)].status = IF q.op = "open" THEN "open" ELSE "closed",
       ![ThreadOf(r)].agreed = IF q.op = "open" THEN @ \cup {q.me} ELSE @ \ {q.me},
       ![ThreadOf(r)].slips = IF q.op = "open" THEN @ ELSE @ \ {"forced"}]
  /\ Done(r)
  /\ UNCHANGED <<profile, follow, blocks, late, silent>>

Crash(r) ==
  /\ request[r] # Idle
  /\ Done(r)
  /\ UNCHANGED <<profile, follow, blocks, thread, late, silent>>

ReadAndCommit(r, u, v) ==
  \/ AskToFollow(r, u, v) \/ AnswerFollow(r, u, v)
  \/ Start(r, u, v) \/ Answer(r, u, v) \/ Send(r, u, v)

Next ==
  \/ \E u \in Users, settings \in Settings : SetProfile(u, settings)
  \/ \E u, v \in Users :
       Unfollow(u, v) \/ Block(u, v) \/ Unblock(u, v)
  \/ \E r \in Requests, u, v \in Users : ReadAndCommit(r, u, v)
  \/ \E r \in Requests :
       InsertFollow(r) \/ SettleFollow(r) \/ Say(r) \/ Decide(r) \/ Crash(r)

Spec == Init /\ [][Next]_vars

-----------------------------------------------------------------------------
\* "Blocking severs any existing follow relationship in either direction", and
\* keeps new ones out: two people of whom one blocks the other do not follow each
\* other, whatever was being asked or answered at the time, except by a follow
\* that had read the blocks before this one was made.
BlockedApart ==
  \A u, v \in Users :
    (Apart(u, v) /\ follow[u][v] # "none") => <<u, v>> \in late

\* "The recipient replying to a pending request implicitly accepts it.  The
\* sender following up on their own request must not": a thread is open only
\* between two people who both did something to want it since it was last
\* started, whichever way messages are sent and whoever starts it again, unless
\* the socket took a message of whoever asked for the answer, whoever had been
\* asked started it again, or it was answered before its first message was stored.
ConsentToOpen ==
  \A p \in Pairs :
    (thread[p].status = "open" /\ thread[p].slips = {} /\ p \notin silent)
      => thread[p].agreed = p

\* list_inbox and list_requests
InInboxOfBoth(u, row) == row.status \in {"open", "pending"}
InInbox(u, row) == row.status = "open" \/ (row.status = "pending" /\ row.first = u)
InRequests(u, row) == row.status = "pending" /\ row.first \notin {u, NoUser}

\* A request is found where each side looks for it: among the requests of whoever
\* has not shown yet that they want it, in the inbox of the other; but not once
\* whoever had been asked has started the thread again, for the oldest message
\* then still tells who asked.
RequestReachesRecipient ==
  \A p \in Pairs :
    LET row == thread[p] IN
    ( /\ row.status = "pending" /\ row.first # NoUser /\ row.agreed # p
      /\ "reversed" \notin row.slips /\ p \notin silent )
      => \A u \in p :
           IF u \in row.agreed THEN InInbox(u, row) /\ ~InRequests(u, row)
           ELSE InRequests(u, row) /\ ~InInbox(u, row)

=============================================================================
