-------------------------------- MODULE Rsvps ---------------------------------
(***************************************************************************)
(* Who is coming to an event, and being told when it is called off.  Places *)
(* are claimed under a lock on the event's row, but what a claim knows of   *)
(* the event itself (that it is published, how many it holds) it has read   *)
(* before: SELECT .. FOR UPDATE does not refresh an object the session has  *)
(* already loaded.  Calling an event off commits first, and tells those who *)
(* said they were coming one by one afterwards.                             *)
(***************************************************************************)
EXTENDS Integers, FiniteSets

CONSTANTS Guests, NoGuest, Requests, MaxCapacity, Unlimited, Hazards

HazardKinds ==
  { "double" }  \* the host sends a request while another of theirs is served

ASSUME GuestsAssumption == IsFiniteSet(Guests) /\ NoGuest \notin Guests
ASSUME CapacityAssumption == MaxCapacity \in Nat \ {0} /\ Unlimited \notin Nat
ASSUME HazardsAssumption == Hazards \subseteq HazardKinds

Capacities == (1 .. MaxCapacity) \cup {Unlimited}
Statuses == {"draft", "published", "cancelled", "gone"}
RsvpStatuses == {"none", "going", "cancelled"}
HostOps == {"publish", "capacity", "cancel", "delete", "attendees", "tell", "remove"}

VARIABLES
  event,
  rsvp,
  request,
  told,      \* history: who was told that the event is off
  missed,    \* history: who was not, because their claim overlapped the calling
             \* off, their notice failed or the server died
  squeezed   \* history: who claimed a place while its number was being changed

vars == <<event, rsvp, request, told, missed, squeezed>>

\* "capacity" is what a claim has read or an edit is to write, "mine" the RSVP a
\* claim has read, "left" who has still to be told; "removes" is set when the
\* event goes away after that.
RequestRows ==
  [ op : {"none", "claim", "withdraw"} \cup HostOps, guest : Guests \cup {NoGuest},
    capacity : Capacities, mine : RsvpStatuses, left : SUBSET Guests, removes : BOOLEAN ]

Idle == [op |-> "none", guest |-> NoGuest, capacity |-> Unlimited, mine |-> "none",
         left |-> {}, removes |-> FALSE]

TypeOK ==
  /\ event \in [status : Statuses, capacity : Capacities, over : BOOLEAN]
  /\ rsvp \in [Guests -> RsvpStatuses]
  /\ request \in [Requests -> RequestRows]
  /\ told \subseteq Guests /\ missed \subseteq Guests /\ squeezed \subseteq Guests

\* create_event
Init ==
  /\ \E c \in Capacities : event = [status |-> "draft", capacity |-> c, over |-> FALSE]
  /\ rsvp = [g \in Guests |-> "none"]
  /\ request = [r \in Requests |-> Idle]
  /\ told = {} /\ missed = {} /\ squeezed = {}

-----------------------------------------------------------------------------
Going == {g \in Guests : rsvp[g] = "going"}

Doing(r, op) == request[r].op = op

Begin(r, row) ==
  /\ request[r] = Idle
  /\ request' = [request EXCEPT ![r] = row]

Continue(r, row) == request' = [request EXCEPT ![r] = row]

Done(r) == Continue(r, Idle)

\* _require_host: the requests of one host follow each other, unless a "double".
HostMay == event.status # "gone" /\ ("double" \in Hazards
             \/ \A r \in Requests : request[r].op \notin HostOps)

Ends ==
  /\ ~event.over
  /\ event' = [event EXCEPT !.over = TRUE]
  /\ UNCHANGED <<rsvp, request, told, missed, squeezed>>

-----------------------------------------------------------------------------
(***************************************************************************)
(* set_rsvp.                                                               *)
(***************************************************************************)
\* As far as it reads.
Claim(r, g) ==
  /\ event.status = "published" /\ ~event.over
  /\ rsvp[g] # "going"
  /\ Begin(r, [Idle EXCEPT !.op = "claim", !.guest = g,
                           !.capacity = event.capacity, !.mine = rsvp[g]])
  /\ UNCHANGED <<event, rsvp, told, missed, squeezed>>

\* Mutant: the last place is given away once more.
FullPastLast(q) == q.capacity # Unlimited /\ Cardinality(Going) > q.capacity

\* is_full: the count is fresh, the capacity is what was read before the lock.
Full(q) == q.capacity # Unlimited /\ Cardinality(Going) >= q.capacity

\* Two inserts of one guest collide on uq_event_rsvp.
Collides(q) == q.mine = "none" /\ rsvp[q.guest] # "none"

\* With the event locked: count, write, commit.
TakePlace(r) ==
  LET q == request[r] IN
  /\ Doing(r, "claim")
  /\ Done(r)
  /\ IF event.status = "gone" \/ Full(q) \/ Collides(q)
     THEN UNCHANGED <<rsvp, missed, squeezed>>
     ELSE /\ rsvp' = [rsvp EXCEPT ![q.guest] = "going"]
          /\ missed' = IF event.status = "cancelled"
                          /\ \A x \in Requests : ~Doing(x, "attendees")
                       THEN missed \cup {q.guest} ELSE missed
          /\ squeezed' = IF q.capacity # event.capacity
                            \/ \E x \in Requests : Doing(x, "capacity")
                         THEN squeezed \cup {q.guest} ELSE squeezed \ {q.guest}
  /\ UNCHANGED <<event, told>>

Withdraw(r, g) ==
  /\ event.status = "published"
  /\ rsvp[g] = "going"
  /\ Begin(r, [Idle EXCEPT !.op = "withdraw", !.guest = g])
  /\ UNCHANGED <<event, rsvp, told, missed, squeezed>>

GivePlaceBack(r) ==
  /\ Doing(r, "withdraw")
  /\ rsvp' = IF event.status = "gone" THEN rsvp
             ELSE [rsvp EXCEPT ![request[r].guest] = "cancelled"]
  /\ Done(r)
  /\ UNCHANGED <<event, told, missed, squeezed>>

-----------------------------------------------------------------------------
(***************************************************************************)
(* The host.  Each handler reads the event, and writes it in one commit at *)
(* its end, whatever has become of it since.                               *)
(***************************************************************************)
Host(r, op, row) ==
  /\ HostMay
  /\ Begin(r, [row EXCEPT !.op = op])
  /\ UNCHANGED <<event, rsvp, told, missed, squeezed>>

Write(r, op, fields) ==
  /\ Doing(r, op)
  /\ event' = IF event.status = "gone" THEN event ELSE fields

Publish(r) ==
  /\ event.status = "draft" /\ ~event.over
  /\ Host(r, "publish", Idle)

CommitPublish(r) ==
  /\ Write(r, "publish", [event EXCEPT !.status = "published"])
  /\ Done(r)
  /\ UNCHANGED <<rsvp, told, missed, squeezed>>

\* validate_capacity: counted without the lock.
SetCapacity(r, c) ==
  /\ event.status \in {"draft", "published"}
  /\ c # Unlimited => c >= Cardinality(Going)
  /\ Host(r, "capacity", [Idle EXCEPT !.capacity = c])

CommitCapacity(r) ==
  /\ Write(r, "capacity", [event EXCEPT !.capacity = request[r].capacity])
  /\ Done(r)
  /\ UNCHANGED <<rsvp, told, missed, squeezed>>

\* An event called off already is called off, and its guests told, again.
Cancel(r) ==
  /\ event.status # "gone"
  /\ Host(r, "cancel", Idle)

\* delete_event: only a published event is called off first.
CalledOffFirst == event.status = "published"

Delete(r) ==
  /\ event.status # "gone"
  /\ IF CalledOffFirst THEN Host(r, "delete", [Idle EXCEPT !.removes = TRUE])
     ELSE Host(r, "remove", Idle)

CallOff(r) ==
  /\ \E op \in {"cancel", "delete"} : Write(r, op, [event EXCEPT !.status = "cancelled"])
  /\ IF event.status = "gone" THEN Done(r)
     ELSE Continue(r, [request[r] EXCEPT !.op = "attendees"])
  /\ UNCHANGED <<rsvp, told, missed, squeezed>>

After(q) == IF q.removes THEN [Idle EXCEPT !.op = "remove"] ELSE Idle

\* list_attendees, after the commit
ListAttendees(r) ==
  LET q == request[r] IN
  /\ Doing(r, "attendees")
  /\ Continue(r, IF Going = {} THEN After(q) ELSE [q EXCEPT !.op = "tell", !.left = Going])
  /\ UNCHANGED <<event, rsvp, told, missed, squeezed>>

\* Mutant: one guest who cannot be reached ends the round.
RestStopping(q, g, reached) == IF reached THEN q.left \ {g} ELSE {}

\* A failure is logged, and the next guest told.
Rest(q, g, reached) == q.left \ {g}

Tell(r, g, reached) ==
  LET q == request[r]
      left == Rest(q, g, reached)
  IN
  /\ Doing(r, "tell") /\ g \in q.left
  /\ told' = IF reached THEN told \cup {g} ELSE told
  /\ missed' = IF reached THEN missed ELSE missed \cup {g}
  /\ Continue(r, IF left = {} THEN After(q) ELSE [q EXCEPT !.left = left])
  /\ UNCHANGED <<event, rsvp, squeezed>>

\* The row is deleted, and its RSVPs with it.
Remove(r) ==
  /\ Doing(r, "remove")
  /\ event' = [event EXCEPT !.status = "gone"]
  /\ rsvp' = [g \in Guests |-> "none"]
  /\ Done(r)
  /\ UNCHANGED <<told, missed, squeezed>>

Crash(r) ==
  /\ request[r] # Idle
  /\ missed' = missed \cup request[r].left
                      \cup (IF Doing(r, "attendees") THEN Going ELSE {})
  /\ Done(r)
  /\ UNCHANGED <<event, rsvp, told, squeezed>>

Next ==
  \/ Ends
  \/ \E r \in Requests, g \in Guests :
       Claim(r, g) \/ Withdraw(r, g) \/ \E reached \in BOOLEAN : Tell(r, g, reached)
  \/ \E r \in Requests, c \in Capacities : SetCapacity(r, c)
  \/ \E r \in Requests :
       \/ TakePlace(r) \/ GivePlaceBack(r)
       \/ Publish(r) \/ CommitPublish(r) \/ CommitCapacity(r)
       \/ Cancel(r) \/ Delete(r) \/ CallOff(r) \/ ListAttendees(r) \/ Remove(r)
       \/ Crash(r)

Spec == Init /\ [][Next]_vars

-----------------------------------------------------------------------------
\* "Two people claiming the last place serialise rather than both being told yes":
\* an event never has more guests than places, but for those who claimed one while
\* the host was changing how many there are.
RoomHolds ==
  event.capacity # Unlimited => Cardinality(Going \ squeezed) <= event.capacity

Waiting == Going \ (told \cup missed)

\* Once nobody is being told any more, whoever said they were coming to an event that
\* is called off has been told so, but for those that the last round could not reach.
CalledOffTold ==
  (event.status = "cancelled" /\ \A r \in Requests : request[r].op \notin {"attendees", "tell"})
    => Waiting = {}

\* "Nothing moves out of these": a cancelled event is not published again.  Holds
\* unless the host's requests overlap ("double").
CancelledStays ==
  [][event.status = "cancelled" => event'.status \in {"cancelled", "gone"}]_vars

=============================================================================
