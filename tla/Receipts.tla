------------------------------- MODULE Receipts -------------------------------
(***************************************************************************)
(* What a conversation tells its two participants: which of the messages   *)
(* have been read, and whether there is something new.  Both come from two *)
(* kinds of time: the conversation's last_message_at, and for each         *)
(* participant a read_at.  A time is taken by the server before the commit *)
(* that stores it, so times and commits may come in different orders.      *)
(*                                                                         *)
(* No two times are the same, so a message is known by its created_at.     *)
(***************************************************************************)
EXTENDS Naturals, People

CONSTANTS Participants, PageSize, MaxTime

ASSUME ParticipantsAssumption ==
  \E u, v \in Users : u # v /\ Participants = {u, v}
ASSUME TimesAssumption == PageSize \in Nat \ {0} /\ MaxTime \in Nat \ {0}

Times == 1..MaxTime
Never == 0     \* a read_at that is NULL

VARIABLES
  now,        \* the time taken last
  sender,     \* who sent the message created then, NoUser if there is none
  lastAt,     \* conversations.last_message_at
  readAt,     \* participant_one_read_at and participant_two_read_at
  handling,   \* what each request has read and is about to commit
  shown,      \* history: the messages that each participant was shown
  furthest,   \* history: the latest time each participant has read at
  crossed     \* history: messages that a reading passed over or that were sent
              \* beside one, and those that were sent beside an older message

receiptsVars ==
  <<now, sender, lastAt, readAt, handling, shown, furthest, crossed>>

NotHandling == [op |-> "none", who |-> NoUser, at |-> Never, page |-> {}]

Handlings ==
  [op : {"none", "send", "read", "mark"}, who : Participants \cup {NoUser},
   at : Times \cup {Never}, page : SUBSET Times]

ReceiptsTypeOK ==
  /\ now \in Times
  /\ sender \in [Times -> Participants \cup {NoUser}]
  /\ lastAt \in Times
  /\ readAt \in [Participants -> Times \cup {Never}]
  /\ handling \in [Requests -> Handlings]
  /\ shown \in [Participants -> SUBSET Times]
  /\ furthest \in [Participants -> Times \cup {Never}]
  /\ crossed \subseteq Times

Other(u) == CHOOSE v \in Participants : v # u
Sent == {t \in Times : sender[t] # NoUser}
IsLast(t) == t \in Sent /\ \A s \in Sent : s <= t

\* create_conversation: a thread has a time before it has a message.
ReceiptsInit ==
  /\ now = 1 /\ lastAt = 1
  /\ sender = [t \in Times |-> NoUser]
  /\ readAt = [u \in Participants |-> Never]
  /\ handling = [r \in Requests |-> NotHandling]
  /\ shown = [u \in Participants |-> {}]
  /\ furthest = [u \in Participants |-> Never]
  /\ crossed = {}

-----------------------------------------------------------------------------
(* A message: created_at when it is flushed, and last_message_at with it when it *)
(* is committed.                                                             *)

BeingSent(u) ==
  {handling[r].at : r \in {q \in Requests : handling[q].op = "send" /\ handling[q].who = u}}

Reading(u) == \E r \in Requests : handling[r].op = "read" /\ handling[r].who = u

FlushMessage(r, u) ==
  /\ handling[r] = NotHandling /\ now < MaxTime
  /\ now' = now + 1
  /\ handling' = [handling EXCEPT ![r] = [NotHandling EXCEPT !.op = "send", !.who = u, !.at = now + 1]]
  /\ crossed' = crossed \cup {t \in {now + 1} : Reading(Other(u))}
  /\ UNCHANGED <<sender, lastAt, readAt, shown, furthest>>

\* create_message: "assign created_at before aligning last_message_at"
NotAligned(q) == lastAt
Aligned(q) == q.at

CommitMessage(r) ==
  LET q == handling[r] IN
  /\ q.op = "send"
  /\ sender' = [sender EXCEPT ![q.at] = q.who]
  /\ lastAt' = Aligned(q)
  /\ handling' = [handling EXCEPT ![r] = NotHandling]
  /\ crossed' = crossed \cup {t \in Sent : t > q.at}
  /\ UNCHANGED <<now, readAt, shown, furthest>>

-----------------------------------------------------------------------------
(* A reading lists messages, then takes the time, then commits it, whatever it *)
(* has listed.                                                             *)

\* list_messages: the newest of those before the cursor
Page(before) ==
  {t \in Sent : /\ t < before
                /\ Cardinality({s \in Sent : t < s /\ s < before}) < PageSize}

Lists(r, u, page) ==
  /\ handling[r] = NotHandling
  /\ handling' = [handling EXCEPT ![r] = [NotHandling EXCEPT !.op = "read", !.who = u, !.page = page]]
  /\ crossed' = crossed \cup BeingSent(Other(u))
                \cup {t \in Sent : sender[t] # u /\ t \notin shown[u] \cup page}
  /\ UNCHANGED <<now, sender, lastAt, readAt, shown, furthest>>

\* get_thread
OpenThread(r, u) == \E before \in 1..(MaxTime + 1) : Lists(r, u, Page(before))

\* mark_read: its caller says to have seen what there is, as the socket brings it
SayRead(r, u) == Lists(r, u, Sent)

TakeReadAt(r) ==
  /\ handling[r].op = "read" /\ now < MaxTime
  /\ now' = now + 1
  /\ handling' = [handling EXCEPT ![r].op = "mark", ![r].at = now + 1]
  /\ UNCHANGED <<sender, lastAt, readAt, shown, furthest, crossed>>

\* mark_read: the column of whoever reads
WithOthersReadAt(q) == [readAt EXCEPT ![Other(q.who)] = q.at]
WithReadAt(q) == [readAt EXCEPT ![q.who] = q.at]

CommitReadAt(r) ==
  LET q == handling[r] IN
  /\ q.op = "mark"
  /\ readAt' = WithReadAt(q)
  /\ shown' = [shown EXCEPT ![q.who] = @ \cup q.page]
  /\ furthest' = [furthest EXCEPT ![q.who] = IF q.at > @ THEN q.at ELSE @]
  /\ handling' = [handling EXCEPT ![r] = NotHandling]
  /\ UNCHANGED <<now, sender, lastAt, crossed>>

\* The server fails, or the request does, before a commit.
Abandon(r) ==
  /\ handling[r] # NotHandling
  /\ handling' = [handling EXCEPT ![r] = NotHandling]
  /\ UNCHANGED <<now, sender, lastAt, readAt, shown, furthest, crossed>>

ReceiptsNext ==
  \E r \in Requests :
    \/ \E u \in Participants : FlushMessage(r, u) \/ OpenThread(r, u) \/ SayRead(r, u)
    \/ CommitMessage(r) \/ TakeReadAt(r) \/ CommitReadAt(r) \/ Abandon(r)

ReceiptsSpec == ReceiptsInit /\ [][ReceiptsNext]_receiptsVars

-----------------------------------------------------------------------------
\* is_unread_for, with the sender of the message listed last, if there is one
IsUnreadForSender(u) == readAt[u] = Never \/ lastAt > readAt[u]
IsUnread(u) ==
  /\ \A t \in Sent : IsLast(t) => sender[t] # u
  /\ readAt[u] = Never \/ lastAt > readAt[u]

\* What list_inbox and list_requests say of the thread.
InboxItem(u) == [unread |-> IsUnread(u), otherPartyReadAt |-> readAt[Other(u)]]

\* otherPartyReadAt and conversation:read: whoever sent a message is told that it
\* was read only if it was shown to the other, or the reading that says so passed
\* over it or overlapped with its being sent.
ReceiptsAreTrue ==
  \A t \in Sent :
    t <= InboxItem(sender[t]).otherPartyReadAt
      => t \in shown[Other(sender[t])] \cup crossed

\* A thread whose last message came from the other and was not shown yet is unread:
\* neither a time taken early nor one committed late hides a message, unless it
\* crossed a reading, or an older message that was committed after it.
NewIsUnread ==
  \A u \in Participants, t \in Sent :
    (IsLast(t) /\ sender[t] # u /\ t \notin shown[u] \cup crossed)
      => InboxItem(u).unread

\* "Unread only when the latest message is from the other party and newer than my
\* read_at": once somebody was shown the last message the thread is not unread,
\* whoever sends what meanwhile, as long as no earlier reading wrote read_at back.
ReadGoesOut ==
  \A u \in Participants, t \in Sent :
    (IsLast(t) /\ InboxItem(u).unread /\ readAt[u] = furthest[u])
      => sender[t] # u /\ t \notin shown[u]

\* What a conversation says of itself, to whoever sent and to whoever reads, is so.
ReadStateIsTrue == ReceiptsAreTrue /\ NewIsUnread /\ ReadGoesOut
===============================================================================
