----------------------------- MODULE Rsvps_proofs -----------------------------
(***************************************************************************)
(* Theorems about Rsvps, for any number of guests, places and requests.    *)
(* That the room holds, and that whoever was coming is told, does not need *)
(* the host's requests to follow each other; that a cancelled event stays  *)
(* cancelled does.                                                         *)
(***************************************************************************)
EXTENDS Rsvps, FiniteSetTheorems, TLAPS

-----------------------------------------------------------------------------
(* Types. *)

\* A claim and a withdrawal are somebody's.
GuestKnown == \A r \in Requests : request[r].op \in {"claim", "withdraw"} => request[r].guest \in Guests

LEMMA IdleTyped == Idle \in RequestRows
BY DEF Idle, RequestRows, Capacities, RsvpStatuses

LEMMA RequestTyped ==
  ASSUME TypeOK, NEW r \in Requests, NEW row \in RequestRows, Begin(r, row) \/ Continue(r, row)
  PROVE  request' \in [Requests -> RequestRows]
BY DEF TypeOK, Begin, Continue

LEMMA DoneTyped ==
  ASSUME TypeOK, NEW r \in Requests, Done(r)
  PROVE  request' \in [Requests -> RequestRows]
BY IdleTyped DEF TypeOK, Done, Continue

LEMMA InitTyped == Init => TypeOK
BY IdleTyped DEF Init, TypeOK, Statuses, RsvpStatuses


Sound == TypeOK /\ GuestKnown

\* Claims and withdrawals.
LEMMA GuestStepsTyped ==
  ASSUME Sound, NEW r \in Requests,
         \/ \E g \in Guests : Claim(r, g) \/ Withdraw(r, g)
         \/ TakePlace(r) \/ GivePlaceBack(r)
  PROVE  TypeOK'
<1> USE DEF Sound
<1>1. ASSUME NEW g \in Guests, Claim(r, g) PROVE TypeOK'
  <2>2. event.capacity \in Capacities /\ rsvp[g] \in RsvpStatuses
    BY DEF TypeOK
  <2>3. [Idle EXCEPT !.op = "claim", !.guest = g, !.capacity = event.capacity, !.mine = rsvp[g]]
          \in RequestRows
    BY <2>2, IdleTyped DEF RequestRows
  <2>4. request' \in [Requests -> RequestRows]
    BY <1>1, <2>3, RequestTyped DEF Claim
  <2> QED
    BY <1>1, <2>4 DEF Claim, TypeOK
<1>2. ASSUME NEW g \in Guests, Withdraw(r, g) PROVE TypeOK'
  <2>1. [Idle EXCEPT !.op = "withdraw", !.guest = g] \in RequestRows
    BY IdleTyped DEF RequestRows
  <2>2. request' \in [Requests -> RequestRows]
    BY <1>2, <2>1, RequestTyped DEF Withdraw
  <2> QED
    BY <1>2, <2>2 DEF Withdraw, TypeOK
<1>3. CASE TakePlace(r)
  <2>1. request' \in [Requests -> RequestRows]
    BY <1>3, DoneTyped DEF TakePlace
  <2>2. rsvp' \in [Guests -> RsvpStatuses]
    BY <1>3 DEF TakePlace, TypeOK, RsvpStatuses
  <2>3. request[r].guest \in Guests
    BY <1>3 DEF TakePlace, Doing, GuestKnown
  <2>4. missed' \subseteq Guests /\ squeezed' \subseteq Guests
    BY <1>3, <2>3 DEF TakePlace, TypeOK
  <2> QED
    BY <1>3, <2>1, <2>2, <2>4 DEF TakePlace, TypeOK
<1>4. CASE GivePlaceBack(r)
  <2>1. request' \in [Requests -> RequestRows]
    BY <1>4, DoneTyped DEF GivePlaceBack
  <2> QED
    BY <1>4, <2>1 DEF GivePlaceBack, TypeOK, RsvpStatuses
<1> QED
  BY <1>1, <1>2, <1>3, <1>4

\* The host's requests arrive with what was in their forms.
HostArrives(r) ==
  \/ \E c \in Capacities : SetCapacity(r, c)
  \/ Publish(r) \/ Cancel(r) \/ Delete(r)

LEMMA HostArrivals ==
  ASSUME NEW r \in Requests, HostArrives(r)
  PROVE  /\ UNCHANGED <<event, rsvp, told, missed, squeezed>>
         /\ HostMay
         /\ \E row \in RequestRows :
              /\ Begin(r, row)
              /\ row.op \in HostOps \ {"attendees", "tell"} /\ row.left = {}
              /\ row.op = "publish" => event.status = "draft"
              /\ row.op = "capacity" /\ row.capacity # Unlimited => row.capacity >= Cardinality(Going)
<1> DEFINE Goal(row) ==
      /\ row \in RequestRows
      /\ row.op \in HostOps \ {"attendees", "tell"} /\ row.left = {}
      /\ row.op = "publish" => event.status = "draft"
      /\ row.op = "capacity" /\ row.capacity # Unlimited => row.capacity >= Cardinality(Going)
<1>1. UNCHANGED <<event, rsvp, told, missed, squeezed>> /\ HostMay
  BY DEF HostArrives, SetCapacity, Publish, Cancel, Delete, Host
<1>2. ASSUME NEW c \in Capacities, SetCapacity(r, c)
      PROVE  \E row : Goal(row) /\ Begin(r, row)
  <2> DEFINE row == [[Idle EXCEPT !.capacity = c] EXCEPT !.op = "capacity"]
  <2>1. Begin(r, row) /\ (c # Unlimited => c >= Cardinality(Going))
    BY <1>2 DEF SetCapacity, Host
  <2>2. row \in RequestRows /\ row.op = "capacity" /\ row.left = {} /\ row.capacity = c
    BY IdleTyped DEF RequestRows, HostOps, Idle
  <2> HIDE DEF row
  <2> QED
    BY <2>1, <2>2 DEF HostOps
<1>3. ASSUME NEW op \in {"publish", "cancel", "remove"}, Host(r, op, Idle),
             op = "publish" => event.status = "draft"
      PROVE  \E row : Goal(row) /\ Begin(r, row)
  <2> DEFINE row == [Idle EXCEPT !.op = op]
  <2>1. Begin(r, row)
    BY <1>3 DEF Host
  <2>2. row \in RequestRows /\ row.op = op /\ row.left = {}
    BY IdleTyped DEF RequestRows, HostOps, Idle
  <2> HIDE DEF row
  <2> QED
    BY <1>3, <2>1, <2>2 DEF HostOps
<1>4. ASSUME Host(r, "delete", [Idle EXCEPT !.removes = TRUE])
      PROVE  \E row : Goal(row) /\ Begin(r, row)
  <2> DEFINE row == [[Idle EXCEPT !.removes = TRUE] EXCEPT !.op = "delete"]
  <2>1. Begin(r, row)
    BY <1>4 DEF Host
  <2>2. row \in RequestRows /\ row.op = "delete" /\ row.left = {}
    BY IdleTyped DEF RequestRows, HostOps, Idle
  <2> HIDE DEF row
  <2> QED
    BY <2>1, <2>2 DEF HostOps
<1>5. \E row : Goal(row) /\ Begin(r, row)
  BY <1>2, <1>3, <1>4 DEF HostArrives, Publish, Cancel, Delete
<1> QED
  BY <1>1, <1>5

\* Their commits.
LEMMA HostStepsTyped ==
  ASSUME TypeOK, NEW r \in Requests,
         \/ HostArrives(r)
         \/ CommitPublish(r) \/ CommitCapacity(r) \/ CallOff(r) \/ ListAttendees(r) \/ Remove(r)
         \/ \E g \in Guests, reached \in BOOLEAN : Tell(r, g, reached)
         \/ Crash(r)
  PROVE  TypeOK'
<1>1. CASE HostArrives(r)
  <2>1. request' \in [Requests -> RequestRows]
    BY <1>1, HostArrivals, RequestTyped
  <2> QED
    BY <1>1, <2>1, HostArrivals DEF TypeOK
<1>2. request[r] \in RequestRows
  BY DEF TypeOK
<1>3. After(request[r]) \in RequestRows
  BY IdleTyped DEF After, RequestRows, HostOps
<1>4. CASE CommitPublish(r)
  <2>1. request' \in [Requests -> RequestRows]
    BY <1>4, DoneTyped DEF CommitPublish
  <2> QED
    BY <1>4, <2>1 DEF CommitPublish, Write, TypeOK, Statuses
<1>5. CASE CommitCapacity(r)
  <2>1. request' \in [Requests -> RequestRows]
    BY <1>5, DoneTyped DEF CommitCapacity
  <2> QED
    BY <1>2, <1>5, <2>1 DEF CommitCapacity, Write, TypeOK, RequestRows
<1>6. CASE CallOff(r)
  <2>1. [request[r] EXCEPT !.op = "attendees"] \in RequestRows
    BY <1>2 DEF RequestRows, HostOps
  <2>2. request' \in [Requests -> RequestRows]
    BY <1>6, <2>1, DoneTyped, RequestTyped DEF CallOff
  <2> QED
    BY <1>6, <2>2 DEF CallOff, Write, TypeOK, Statuses
<1>7. CASE ListAttendees(r)
  <2>1. [request[r] EXCEPT !.op = "tell", !.left = Going] \in RequestRows
    BY <1>2 DEF RequestRows, HostOps, Going
  <2>2. request' \in [Requests -> RequestRows]
    BY <1>3, <1>7, <2>1, RequestTyped DEF ListAttendees
  <2> QED
    BY <1>7, <2>2 DEF ListAttendees, TypeOK
<1>8. CASE Remove(r)
  <2>1. request' \in [Requests -> RequestRows]
    BY <1>8, DoneTyped DEF Remove
  <2> QED
    BY <1>8, <2>1 DEF Remove, TypeOK, Statuses, RsvpStatuses
<1>9. ASSUME NEW g \in Guests, NEW reached \in BOOLEAN, Tell(r, g, reached) PROVE TypeOK'
  <2>1. [request[r] EXCEPT !.left = request[r].left \ {g}] \in RequestRows
    BY <1>2 DEF RequestRows
  <2>2. request' \in [Requests -> RequestRows]
    BY <1>3, <1>9, <2>1, RequestTyped DEF Tell, Rest
  <2> QED
    BY <1>9, <2>2 DEF Tell, TypeOK
<1>10. CASE Crash(r)
  <2>1. request' \in [Requests -> RequestRows]
    BY <1>10, DoneTyped DEF Crash
  <2>2. request[r].left \subseteq Guests /\ Going \subseteq Guests
    BY <1>2 DEF RequestRows, Going
  <2> QED
    BY <1>10, <2>1, <2>2 DEF Crash, TypeOK
<1> QED
  BY <1>1, <1>4, <1>5, <1>6, <1>7, <1>8, <1>9, <1>10

\* One request at a time makes a step, and goes on to something that can follow.
OneRow(r, row) == request' = [request EXCEPT ![r] = row]

LEMMA KnownKept ==
  ASSUME TypeOK, GuestKnown, NEW r \in Requests, NEW row, OneRow(r, row),
         row.op \in {"claim", "withdraw"} => row.guest \in Guests
  PROVE  GuestKnown'
BY DEF TypeOK, GuestKnown, OneRow

LEMMA IdleRow == Idle.op = "none" /\ Idle.left = {}
BY DEF Idle

LEMMA AfterRow == \A q : After(q).op \in {"none", "remove"} /\ After(q).left = {}
BY DEF After, Idle

\* What a claim and a withdrawal begin with.
LEMMA GuestArrivals ==
  ASSUME NEW r \in Requests, NEW g \in Guests, Claim(r, g) \/ Withdraw(r, g)
  PROVE  \E row : OneRow(r, row) /\ row.op \in {"claim", "withdraw"} /\ row.guest = g
                 /\ row.left = {}
<1>1. CASE Claim(r, g)
  <2> DEFINE row == [Idle EXCEPT !.op = "claim", !.guest = g,
                                 !.capacity = event.capacity, !.mine = rsvp[g]]
  <2>1. OneRow(r, row)
    BY <1>1 DEF Claim, Begin, OneRow
  <2>2. row.op = "claim" /\ row.guest = g /\ row.left = {}
    BY DEF Idle
  <2> HIDE DEF row
  <2> QED
    BY <2>1, <2>2
<1>2. CASE Withdraw(r, g)
  <2> DEFINE row == [Idle EXCEPT !.op = "withdraw", !.guest = g]
  <2>1. OneRow(r, row)
    BY <1>2 DEF Withdraw, Begin, OneRow
  <2>2. row.op = "withdraw" /\ row.guest = g /\ row.left = {}
    BY DEF Idle
  <2> HIDE DEF row
  <2> QED
    BY <2>1, <2>2
<1> QED
  BY <1>1, <1>2

LEMMA StepKnown == Sound /\ [Next]_vars => GuestKnown'
<1> SUFFICES ASSUME TypeOK, GuestKnown, [Next]_vars PROVE GuestKnown'
  BY DEF Sound
<1>1. ASSUME NEW r \in Requests, NEW g \in Guests, Claim(r, g) \/ Withdraw(r, g)
      PROVE  GuestKnown'
  BY <1>1, GuestArrivals, KnownKept
<1>2. ASSUME NEW r \in Requests, HostArrives(r) PROVE GuestKnown'
  <2>1. PICK row : OneRow(r, row) /\ row.op \in HostOps
    BY <1>2, HostArrivals DEF Begin, OneRow
  <2> QED
    BY <2>1, KnownKept DEF HostOps
<1>3. ASSUME NEW r \in Requests, Done(r) PROVE GuestKnown'
  BY <1>3, KnownKept, IdleRow DEF Done, Continue, OneRow
<1>4. ASSUME NEW r \in Requests, CallOff(r) PROVE GuestKnown'
  <2>1. [request[r] EXCEPT !.op = "attendees"].op = "attendees"
    BY DEF TypeOK, RequestRows
  <2> QED
    BY <1>3, <1>4, <2>1, KnownKept DEF CallOff, Continue, OneRow
<1>5. ASSUME NEW r \in Requests, ListAttendees(r) PROVE GuestKnown'
  <2>1. [request[r] EXCEPT !.op = "tell", !.left = Going].op = "tell"
    BY DEF TypeOK, RequestRows
  <2> QED
    BY <1>5, <2>1, KnownKept, AfterRow DEF ListAttendees, Continue, OneRow
<1>6. ASSUME NEW r \in Requests, NEW g \in Guests, NEW reached \in BOOLEAN, Tell(r, g, reached)
      PROVE  GuestKnown'
  <2>1. [request[r] EXCEPT !.left = request[r].left \ {g}].op = "tell"
    BY <1>6 DEF Tell, Doing, TypeOK, RequestRows
  <2> QED
    BY <1>6, <2>1, KnownKept, AfterRow DEF Tell, Rest, Continue, OneRow
<1>7. CASE Ends \/ UNCHANGED vars
  BY <1>7 DEF Ends, vars, GuestKnown
<1> QED
  BY <1>1, <1>2, <1>3, <1>4, <1>5, <1>6, <1>7
  DEF Next, TakePlace, GivePlaceBack, CommitPublish, CommitCapacity, Remove, Crash, HostArrives

LEMMA StepSound == Sound /\ [Next]_vars => Sound'
<1> SUFFICES ASSUME Sound, [Next]_vars PROVE TypeOK'
  BY StepKnown DEF Sound
<1>1. CASE Ends \/ UNCHANGED vars
  BY <1>1 DEF Ends, vars, Sound, TypeOK
<1> QED
  BY <1>1, GuestStepsTyped, HostStepsTyped DEF Next, Sound, HostArrives

LEMMA InitSound == Init => Sound
BY InitTyped, IdleRow DEF Init, Sound, GuestKnown

\* The event, who is coming, and every request keep their types.
THEOREM Typed == Spec => []TypeOK
<1>1. Sound => TypeOK
  BY DEF Sound
<1> QED
  BY <1>1, InitSound, StepSound, PTL DEF Spec

-----------------------------------------------------------------------------
(* The room holds. *)

Sure == Going \ squeezed

\* The guests who claimed their place undisturbed fit, and would fit into whatever
\* an edit that is under way is about to make of the room.
Fits ==
  /\ event.capacity # Unlimited => Cardinality(Sure) <= event.capacity
  /\ \A r \in Requests :
       request[r].op = "capacity" /\ request[r].capacity # Unlimited =>
         Cardinality(Sure) <= request[r].capacity

LEMMA SureFinite == IsFiniteSet(Going) /\ IsFiniteSet(Sure) /\ Cardinality(Sure) <= Cardinality(Going)
<1>1. Going \subseteq Guests /\ Sure \subseteq Going
  BY DEF Going, Sure
<1> QED
  BY <1>1, GuestsAssumption, FS_Subset

LEMMA OneMore ==
  ASSUME NEW g
  PROVE  /\ IsFiniteSet(Going \cup {g})
         /\ Cardinality(Going \cup {g}) <= Cardinality(Going) + 1
         /\ Cardinality(Going) \in Nat /\ Cardinality(Going \cup {g}) \in Nat
<1>1. IsFiniteSet(Going) /\ Cardinality(Going) \in Nat
  BY SureFinite, FS_CardinalityType
<1>2. /\ IsFiniteSet(Going \cup {g})
      /\ Cardinality(Going \cup {g}) = IF g \in Going THEN Cardinality(Going) ELSE Cardinality(Going) + 1
  BY <1>1, FS_AddElement
<1> QED
  BY <1>1, <1>2

\* A step that adds nobody and changes no number keeps it.
LEMMA FewerFit ==
  ASSUME Sound, Fits, Sure' \subseteq Sure, event'.capacity = event.capacity,
         \A r \in Requests : request'[r].op = "capacity" => request'[r] = request[r]
  PROVE  Fits'
<1>1. Cardinality(Sure') <= Cardinality(Sure) /\ Cardinality(Sure) \in Nat /\ Cardinality(Sure') \in Nat
  BY SureFinite, FS_Subset, FS_CardinalityType
<1>2. \A c \in Capacities : c # Unlimited => c \in Nat
  BY CapacityAssumption DEF Capacities
<1>3. event.capacity \in Capacities /\ \A r \in Requests : request[r].capacity \in Capacities
  BY DEF Sound, TypeOK, RequestRows
<1> QED
  BY <1>1, <1>2, <1>3 DEF Fits

\* A claim is counted under the lock, against the number it read; unless that is
\* the number of places, and will be, it is squeezed.
LEMMA ClaimFits ==
  ASSUME Sound, Fits, NEW r \in Requests, TakePlace(r)
  PROVE  Fits'
<1> DEFINE q == request[r]
<1>1. /\ q.guest \in Guests /\ q.capacity \in Capacities /\ event.capacity \in Capacities
      /\ q.op = "claim"
  BY DEF TakePlace, Doing, Sound, TypeOK, GuestKnown, RequestRows
<1>2. UNCHANGED event /\ OneRow(r, Idle)
  BY DEF TakePlace, Done, Continue, OneRow
<1>3. \A x \in Requests : request'[x].op = "capacity" => request'[x] = request[x] /\ x # r
  BY <1>2, IdleRow DEF OneRow, Sound, TypeOK
<1>4. CASE UNCHANGED <<rsvp, squeezed>>
  <2>1. Sure' = Sure
    BY <1>4 DEF Sure, Going
  <2> QED
    BY <1>2, <1>3, <2>1, FewerFit
<1>5. CASE /\ rsvp' = [rsvp EXCEPT ![q.guest] = "going"]
           /\ q.capacity # event.capacity \/ \E x \in Requests : Doing(x, "capacity")
           /\ squeezed' = squeezed \cup {q.guest}
  <2>1. Sure' \subseteq Sure
    BY <1>1, <1>5 DEF Sure, Going, Sound, TypeOK
  <2> QED
    BY <1>2, <1>3, <2>1, FewerFit
<1>6. CASE /\ ~Full(q)
           /\ rsvp' = [rsvp EXCEPT ![q.guest] = "going"]
           /\ q.capacity = event.capacity /\ \A x \in Requests : ~Doing(x, "capacity")
           /\ squeezed' = squeezed \ {q.guest}
  <2>1. Sure' \subseteq Going \cup {q.guest}
    BY <1>1, <1>6 DEF Sure, Going, Sound, TypeOK
  <2>2. /\ IsFiniteSet(Going \cup {q.guest})
        /\ Cardinality(Going \cup {q.guest}) <= Cardinality(Going) + 1
        /\ Cardinality(Going) \in Nat /\ Cardinality(Going \cup {q.guest}) \in Nat
    BY OneMore
  <2>3. Cardinality(Sure') <= Cardinality(Going) + 1
    BY <2>1, <2>2, FS_Subset, FS_CardinalityType
  <2>4. event.capacity # Unlimited => event.capacity \in Nat /\ Cardinality(Going) < event.capacity
    BY <1>1, <1>6, <2>2, CapacityAssumption DEF Full, Capacities
  <2>5. Cardinality(Sure') \in Nat
    BY <2>1, <2>2, FS_Subset, FS_CardinalityType
  <2>6. event.capacity # Unlimited => Cardinality(Sure') <= event.capacity
    BY <2>2, <2>3, <2>4, <2>5
  <2> QED
    BY <1>2, <1>3, <1>6, <2>6 DEF Fits, Doing
<1> QED
  BY <1>4, <1>5, <1>6 DEF TakePlace

\* A number that an edit has just been let through with is enough for those who are
\* coming, so for the sure ones.
LEMMA EditFits ==
  ASSUME Sound, Fits, NEW r \in Requests, HostArrives(r)
  PROVE  Fits'
<1>1. Sure' = Sure /\ UNCHANGED event
  BY HostArrivals DEF Sure, Going
<1>2. PICK row \in RequestRows :
        /\ OneRow(r, row)
        /\ row.op = "capacity" /\ row.capacity # Unlimited => row.capacity >= Cardinality(Going)
  BY HostArrivals DEF Begin, OneRow
<1>3. \A x \in Requests : request'[x] = IF x = r THEN row ELSE request[x]
  BY <1>2 DEF OneRow, Sound, TypeOK
<1>4. Cardinality(Sure) <= Cardinality(Going) /\ Cardinality(Sure) \in Nat /\ Cardinality(Going) \in Nat
  BY SureFinite, FS_CardinalityType
<1>5. row.capacity # Unlimited => row.capacity \in Nat
  BY CapacityAssumption DEF RequestRows, Capacities
<1>6. row.op = "capacity" /\ row.capacity # Unlimited => Cardinality(Sure) <= row.capacity
  BY <1>2, <1>4, <1>5
<1> QED
  BY <1>1, <1>3, <1>6 DEF Fits

LEMMA CommitFits ==
  ASSUME Sound, Fits, NEW r \in Requests, CommitCapacity(r)
  PROVE  Fits'
<1>1. Sure' = Sure /\ OneRow(r, Idle)
  BY DEF CommitCapacity, Done, Continue, OneRow, Sure, Going
<1>2. \A x \in Requests : request'[x].op = "capacity" => request'[x] = request[x]
  BY <1>1, IdleRow DEF OneRow, Sound, TypeOK
<1>3. event'.capacity \in {event.capacity, request[r].capacity} /\ request[r].op = "capacity"
  BY DEF CommitCapacity, Write, Doing, Sound, TypeOK
<1> QED
  BY <1>1, <1>2, <1>3 DEF Fits

\* The requests whose step has nothing to do with the number of places.
Elsewhere(r) ==
  \/ \E g \in Guests : Claim(r, g) \/ Withdraw(r, g) \/ \E reached \in BOOLEAN : Tell(r, g, reached)
  \/ GivePlaceBack(r) \/ CommitPublish(r) \/ CallOff(r) \/ ListAttendees(r) \/ Remove(r) \/ Crash(r)

LEMMA ElsewhereKeeps ==
  ASSUME Sound, NEW r \in Requests, Elsewhere(r)
  PROVE  /\ \E row : OneRow(r, row) /\ row.op # "capacity"
         /\ event'.capacity = event.capacity
         /\ Sure' \subseteq Sure
<1>1. \E row : OneRow(r, row) /\ row.op # "capacity"
  <2>1. ASSUME NEW g \in Guests, Claim(r, g) \/ Withdraw(r, g)
        PROVE  \E row : OneRow(r, row) /\ row.op # "capacity"
    BY <2>1, GuestArrivals
  <2>2. CASE Done(r)
    BY <2>2, IdleRow DEF Done, Continue, OneRow
  <2>3. CASE CallOff(r)
    <3>1. [request[r] EXCEPT !.op = "attendees"].op = "attendees"
      BY DEF Sound, TypeOK, RequestRows
    <3> QED
      BY <2>2, <2>3, <3>1 DEF CallOff, Continue, OneRow
  <2>4. CASE ListAttendees(r)
    <3>1. [request[r] EXCEPT !.op = "tell", !.left = Going].op = "tell"
      BY DEF Sound, TypeOK, RequestRows
    <3> QED
      BY <2>4, <3>1, AfterRow DEF ListAttendees, Continue, OneRow
  <2>5. ASSUME NEW g \in Guests, NEW reached \in BOOLEAN, Tell(r, g, reached)
        PROVE  \E row : OneRow(r, row) /\ row.op # "capacity"
    <3>1. [request[r] EXCEPT !.left = request[r].left \ {g}].op = "tell"
      BY <2>5 DEF Tell, Doing, Sound, TypeOK, RequestRows
    <3> QED
      BY <2>5, <3>1, AfterRow DEF Tell, Rest, Continue, OneRow
  <2> QED
    BY <2>1, <2>2, <2>3, <2>4, <2>5 DEF Elsewhere, GivePlaceBack, CommitPublish, Remove, Crash
<1>2. event'.capacity = event.capacity
  BY DEF Elsewhere, Claim, Withdraw, Tell, GivePlaceBack, CommitPublish, CallOff, Write,
         ListAttendees, Remove, Crash, Sound, TypeOK
<1>3. squeezed' = squeezed
  BY DEF Elsewhere, Claim, Withdraw, Tell, GivePlaceBack, CommitPublish, CallOff,
         ListAttendees, Remove, Crash
<1>4. Going' \subseteq Going
  BY DEF Elsewhere, Claim, Withdraw, Tell, GivePlaceBack, CommitPublish, CallOff,
         ListAttendees, Remove, Crash, Going, Sound, TypeOK
<1> QED
  BY <1>1, <1>2, <1>3, <1>4 DEF Sure

LEMMA StepFits == Sound /\ Fits /\ [Next]_vars => Fits'
<1> SUFFICES ASSUME Sound, Fits, [Next]_vars PROVE Fits'
  OBVIOUS
<1>1. ASSUME NEW r \in Requests, Elsewhere(r) PROVE Fits'
  <2>1. PICK row : OneRow(r, row) /\ row.op # "capacity"
    BY <1>1, ElsewhereKeeps
  <2>2. \A x \in Requests : request'[x].op = "capacity" => request'[x] = request[x]
    BY <2>1 DEF OneRow, Sound, TypeOK
  <2> QED
    BY <1>1, <2>2, ElsewhereKeeps, FewerFit
<1>2. CASE Ends \/ UNCHANGED vars
  <2>1. Sure' = Sure /\ UNCHANGED request /\ event'.capacity = event.capacity
    BY <1>2 DEF Ends, vars, Sure, Going, Sound, TypeOK
  <2> QED
    BY <2>1, FewerFit
<1> QED
  BY <1>1, <1>2, ClaimFits, EditFits, CommitFits DEF Next, Elsewhere, HostArrives

LEMMA InitFits == Init => Fits
<1> SUFFICES ASSUME Init PROVE Fits
  OBVIOUS
<1>1. Sure = {}
  BY DEF Init, Sure, Going
<1>2. Cardinality(Sure) = 0
  BY <1>1, FS_EmptySet
<1>3. event.capacity # Unlimited => event.capacity \in Nat
  BY CapacityAssumption DEF Init, Capacities
<1> QED
  BY <1>2, <1>3, IdleRow DEF Init, Fits

\* set_rsvp counts under the lock and validate_capacity does not: an event never has
\* more guests than places, but for those who claimed one while the host was changing
\* how many there are.
THEOREM RoomAlwaysHolds == Spec => []RoomHolds
<1>1. Fits => RoomHolds
  BY DEF Fits, RoomHolds, Sure
<1> QED
  BY <1>1, InitSound, StepSound, InitFits, StepFits, PTL DEF Spec

-----------------------------------------------------------------------------
(* Whoever was coming is told. *)

\* Everybody who is coming to a cancelled event has been dealt with, is on the list
\* of a round that is under way, or will be on that of one about to make its list.
Coming ==
  event.status = "cancelled" =>
    \/ \E r \in Requests : request[r].op = "attendees"
    \/ \A g \in Going : \/ g \in told \cup missed
                       \/ \E r \in Requests : request[r].op = "tell" /\ g \in request[r].left

\* A request that tells nobody, and neither brings a guest nor calls the event off.
LEMMA QuietKept ==
  ASSUME Sound, Coming, NEW r \in Requests, NEW row, OneRow(r, row),
         request[r].op \notin {"attendees", "tell"},
         Going' \subseteq Going, UNCHANGED <<told, missed>>,
         event'.status = "cancelled" => event.status = "cancelled"
  PROVE  Coming'
<1>1. \A x \in Requests : request[x].op \in {"attendees", "tell"} => request'[x] = request[x]
  BY DEF OneRow, Sound, TypeOK
<1> QED
  BY <1>1 DEF Coming

Quiet(r) ==
  \/ \E g \in Guests : Claim(r, g) \/ Withdraw(r, g)
  \/ HostArrives(r) \/ GivePlaceBack(r) \/ CommitPublish(r) \/ CommitCapacity(r) \/ Remove(r)

LEMMA QuietComing ==
  ASSUME Sound, Coming, NEW r \in Requests, Quiet(r)
  PROVE  Coming'
<1>1. \E row : OneRow(r, row)
  BY HostArrivals DEF Quiet, Claim, Withdraw, Begin, GivePlaceBack, CommitPublish, CommitCapacity,
     Remove, Done, Continue, OneRow
<1>2. request[r].op \notin {"attendees", "tell"}
  BY HostArrivals, IdleRow DEF Quiet, Claim, Withdraw, Begin, GivePlaceBack, CommitPublish,
     CommitCapacity, Remove, Write, Doing
<1>3. Going' \subseteq Going
  BY HostArrivals DEF Quiet, Claim, Withdraw, GivePlaceBack, CommitPublish, CommitCapacity,
     Remove, Going, Sound, TypeOK
<1>4. UNCHANGED <<told, missed>>
  BY HostArrivals DEF Quiet, Claim, Withdraw, GivePlaceBack, CommitPublish, CommitCapacity, Remove
<1>5. event'.status = "cancelled" => event.status = "cancelled"
  BY HostArrivals DEF Quiet, Claim, Withdraw, GivePlaceBack, CommitPublish, CommitCapacity,
     Remove, Write, Sound, TypeOK
<1> QED
  BY <1>1, <1>2, <1>3, <1>4, <1>5, QuietKept

\* A claim that got in beside the calling off is either on the list still to be made
\* or owned up to as missed.
LEMMA ClaimComing ==
  ASSUME Sound, Coming, NEW r \in Requests, TakePlace(r)
  PROVE  Coming'
<1> DEFINE q == request[r]
<1>1. OneRow(r, Idle) /\ UNCHANGED <<event, told>> /\ q.op = "claim" /\ q.guest \in Guests
  BY DEF TakePlace, Done, Continue, OneRow, Doing, Sound, GuestKnown
<1>2. CASE UNCHANGED <<rsvp, missed, squeezed>>
  <2>1. Going' = Going
    BY <1>2 DEF Going
  <2> QED
    BY <1>1, <1>2, <2>1, QuietKept
<1>3. CASE /\ rsvp' = [rsvp EXCEPT ![q.guest] = "going"]
           /\ missed' = IF event.status = "cancelled" /\ \A x \in Requests : ~Doing(x, "attendees")
                        THEN missed \cup {q.guest} ELSE missed
  <2>1. Going' \subseteq Going \cup {q.guest}
    BY <1>3 DEF Going, Sound, TypeOK
  <2>2. \A x \in Requests : request[x].op \in {"attendees", "tell"} => request'[x] = request[x]
    BY <1>1 DEF OneRow, Sound, TypeOK
  <2>3. CASE \E x \in Requests : Doing(x, "attendees")
    BY <2>2, <2>3 DEF Coming, Doing
  <2>4. CASE event.status = "cancelled" /\ \A x \in Requests : ~Doing(x, "attendees")
    <3>1. missed' = missed \cup {q.guest}
      BY <1>3, <2>4
    <3>2. \A g \in Going : \/ g \in told \cup missed
                           \/ \E x \in Requests : request[x].op = "tell" /\ g \in request[x].left
      BY <2>4 DEF Coming, Doing
    <3> QED
      BY <1>1, <2>1, <2>2, <3>1, <3>2 DEF Coming
  <2>5. CASE event.status # "cancelled"
    BY <1>1, <2>5 DEF Coming
  <2> QED
    BY <2>3, <2>4, <2>5
<1> QED
  BY <1>2, <1>3 DEF TakePlace

\* Calling off makes a round due; the list is of everybody who is coming then.
LEMMA CallOffComing ==
  ASSUME Sound, Coming, NEW r \in Requests, CallOff(r) \/ ListAttendees(r)
  PROVE  Coming'
<1>1. CASE CallOff(r) /\ event.status = "gone"
  <2>1. event'.status = "gone"
    BY <1>1 DEF CallOff, Write
  <2> QED
    BY <2>1 DEF Coming
<1>2. CASE CallOff(r) /\ event.status # "gone"
  <2>1. request'[r] = [request[r] EXCEPT !.op = "attendees"]
    BY <1>2 DEF CallOff, Continue, Sound, TypeOK
  <2>2. request'[r].op = "attendees"
    BY <2>1 DEF Sound, TypeOK, RequestRows
  <2> QED
    BY <2>2 DEF Coming
<1>3. CASE ListAttendees(r)
  <2>1. Going' = Going
    BY <1>3 DEF ListAttendees, Going
  <2>2. CASE Going = {}
    BY <2>1, <2>2 DEF Coming
  <2>3. CASE Going # {}
    <3>1. request'[r] = [request[r] EXCEPT !.op = "tell", !.left = Going]
      BY <1>3, <2>3 DEF ListAttendees, Continue, Sound, TypeOK
    <3>2. request'[r].op = "tell" /\ request'[r].left = Going
      BY <3>1 DEF Sound, TypeOK, RequestRows
    <3> QED
      BY <2>1, <3>2 DEF Coming
  <2> QED
    BY <2>2, <2>3
<1> QED
  BY <1>1, <1>2, <1>3

LEMMA TellComing ==
  ASSUME Sound, Coming, NEW r \in Requests, NEW g \in Guests, NEW reached \in BOOLEAN,
         Tell(r, g, reached)
  PROVE  Coming'
<1> DEFINE left == request[r].left \ {g}
<1>1. request[r] \in RequestRows /\ request[r].op = "tell" /\ UNCHANGED event
  BY DEF Tell, Doing, Sound, TypeOK
<1>2. told' \cup missed' = told \cup missed \cup {g} /\ Going' = Going
  BY DEF Tell, Going
<1>3. \A x \in Requests : x # r => request'[x] = request[x]
  BY DEF Tell, Continue, Sound, TypeOK
<1>4. CASE left = {}
  BY <1>1, <1>2, <1>3, <1>4 DEF Coming
<1>5. CASE left # {}
  <2>1. request'[r] = [request[r] EXCEPT !.left = left]
    BY <1>5 DEF Tell, Rest, Continue, Sound, TypeOK
  <2>2. request'[r].op = "tell" /\ request'[r].left = left
    BY <1>1, <2>1 DEF RequestRows
  <2>3. \A x \in Requests : request[x].op = "attendees" => x # r
    BY <1>1
  <2> HIDE DEF left
  <2>4. \A h \in request[r].left : h \in left \cup {g}
    BY DEF left
  <2> QED
    BY <1>1, <1>2, <1>3, <2>2, <2>3, <2>4 DEF Coming
<1> QED
  BY <1>4, <1>5

\* Those whom a round that dies had not told are missed.
LEMMA CrashComing ==
  ASSUME Sound, Coming, NEW r \in Requests, Crash(r)
  PROVE  Coming'
<1>1. UNCHANGED <<event, told>> /\ Going' = Going
  BY DEF Crash, Going
<1>2. \A x \in Requests : x # r => request'[x] = request[x]
  BY DEF Crash, Done, Continue, Sound, TypeOK
<1>3. missed \cup request[r].left \subseteq missed' /\ (request[r].op = "attendees" => Going \subseteq missed')
  BY DEF Crash, Doing
<1> QED
  BY <1>1, <1>2, <1>3 DEF Coming

LEMMA StepComing == Sound /\ Coming /\ [Next]_vars => Coming'
<1> SUFFICES ASSUME Sound, Coming, [Next]_vars PROVE Coming'
  OBVIOUS
<1>1. CASE Ends \/ UNCHANGED vars
  <2>1. UNCHANGED <<rsvp, request, told, missed>> /\ event'.status = event.status
    BY <1>1 DEF Ends, vars, Sound, TypeOK
  <2> QED
    BY <2>1 DEF Coming, Going
<1> QED
  BY <1>1, QuietComing, ClaimComing, CallOffComing, TellComing, CrashComing
  DEF Next, Quiet, HostArrives

LEMMA InitComing == Init => Coming
BY DEF Init, Coming

\* Once no round is under way, whoever is coming to a cancelled event has been told,
\* or the last round could not reach them: also with calling off done twice, with
\* claims that got in beside it, and with servers that die.
THEOREM CallingOffTells == Spec => []CalledOffTold
<1>1. Coming => CalledOffTold
  BY DEF Coming, CalledOffTold, Waiting
<1> QED
  BY <1>1, InitSound, StepSound, InitComing, StepComing, PTL DEF Spec

-----------------------------------------------------------------------------
(* A cancelled event stays cancelled. *)

\* The host has one request at a time, and what is being published is a draft.
HostAlone ==
  /\ \A x, y \in Requests : request[x].op \in HostOps /\ request[y].op \in HostOps => x = y
  /\ \A x \in Requests : request[x].op = "publish" => event.status = "draft"

\* What a step has to do with the host: whoever changes the event's status is a
\* request of theirs, and only a new one publishes.
HostRow(r, row) ==
  /\ OneRow(r, row)
  /\ row.op \in HostOps => request[r].op \in HostOps \/ HostMay
  /\ row.op = "publish" => event.status = "draft" /\ UNCHANGED event
  /\ event'.status # event.status => request[r].op \in HostOps

LEMMA StepOfHost ==
  ASSUME Sound, NEW r \in Requests,
         Elsewhere(r) \/ HostArrives(r) \/ TakePlace(r) \/ CommitCapacity(r)
  PROVE  \E row : HostRow(r, row)
<1>1. ASSUME NEW g \in Guests, Claim(r, g) \/ Withdraw(r, g)
      PROVE  \E row : HostRow(r, row)
  <2>1. UNCHANGED event
    BY <1>1 DEF Claim, Withdraw
  <2> QED
    BY <1>1, <2>1, GuestArrivals DEF HostRow, HostOps
<1>2. CASE HostArrives(r)
  <2>1. UNCHANGED event /\ HostMay
    BY <1>2, HostArrivals
  <2>2. PICK row : Begin(r, row) /\ (row.op = "publish" => event.status = "draft")
    BY <1>2, HostArrivals
  <2> QED
    BY <2>1, <2>2 DEF HostRow, Begin, OneRow
<1>3. ASSUME Done(r), event'.status # event.status => request[r].op \in HostOps
      PROVE  \E row : HostRow(r, row)
  BY <1>3, IdleRow DEF Done, Continue, OneRow, HostRow, HostOps
<1>4. CASE TakePlace(r) \/ GivePlaceBack(r) \/ CommitPublish(r) \/ CommitCapacity(r)
           \/ Remove(r) \/ Crash(r)
  BY <1>3, <1>4 DEF TakePlace, GivePlaceBack, CommitPublish, CommitCapacity, Remove, Crash,
                    Write, Doing, HostOps, Sound, TypeOK
<1>5. CASE CallOff(r)
  <2>1. [request[r] EXCEPT !.op = "attendees"].op = "attendees"
    BY DEF Sound, TypeOK, RequestRows
  <2>2. request[r].op \in HostOps
    BY <1>5 DEF CallOff, Write, Doing, HostOps
  <2>3. CASE event.status = "gone"
    BY <1>3, <1>5, <2>2, <2>3 DEF CallOff
  <2>4. CASE event.status # "gone"
    BY <1>5, <2>1, <2>2, <2>4 DEF CallOff, Continue, OneRow, HostRow
  <2> QED
    BY <2>3, <2>4
<1>6. CASE ListAttendees(r)
  <2>1. [request[r] EXCEPT !.op = "tell", !.left = Going].op = "tell"
    BY DEF Sound, TypeOK, RequestRows
  <2>2. UNCHANGED event /\ request[r].op \in HostOps
    BY <1>6 DEF ListAttendees, Doing, HostOps
  <2> QED
    BY <1>6, <2>1, <2>2, AfterRow DEF ListAttendees, Continue, OneRow, HostRow
<1>7. ASSUME NEW g \in Guests, NEW reached \in BOOLEAN, Tell(r, g, reached)
      PROVE  \E row : HostRow(r, row)
  <2>1. [request[r] EXCEPT !.left = request[r].left \ {g}].op = "tell"
    BY <1>7 DEF Tell, Doing, Sound, TypeOK, RequestRows
  <2>2. UNCHANGED event /\ request[r].op \in HostOps
    BY <1>7 DEF Tell, Doing, HostOps
  <2> QED
    BY <1>7, <2>1, <2>2, AfterRow DEF Tell, Rest, Continue, OneRow, HostRow
<1> QED
  BY <1>1, <1>2, <1>4, <1>5, <1>6, <1>7 DEF Elsewhere

LEMMA StepAlone ==
  ASSUME "double" \notin Hazards
  PROVE  Sound /\ HostAlone /\ [Next]_vars => HostAlone'
<1> SUFFICES ASSUME Sound, HostAlone, [Next]_vars PROVE HostAlone'
  OBVIOUS
<1>1. ASSUME NEW r \in Requests, NEW row, HostRow(r, row) PROVE HostAlone'
  <2>1. \A x \in Requests : request'[x] = IF x = r THEN row ELSE request[x]
    BY <1>1 DEF HostRow, OneRow, Sound, TypeOK
  <2>2. HostMay => \A x \in Requests : request[x].op \notin HostOps
    BY DEF HostMay
  <2>3. "publish" \in HostOps
    BY DEF HostOps
  <2> QED
    BY <1>1, <2>1, <2>2, <2>3 DEF HostRow, HostAlone
<1>2. CASE Ends \/ UNCHANGED vars
  <2>1. UNCHANGED request /\ event'.status = event.status
    BY <1>2 DEF Ends, vars, Sound, TypeOK
  <2> QED
    BY <2>1 DEF HostAlone
<1> QED
  BY <1>1, <1>2, StepOfHost DEF Next, Elsewhere, HostArrives

LEMMA InitAlone == Init => HostAlone
BY IdleRow DEF Init, HostAlone, HostOps

\* _ALLOWED has nothing that leaves "cancelled": a cancelled event is not published
\* again, as long as the host's requests follow each other.
THEOREM StaysCancelled ==
  ASSUME "double" \notin Hazards
  PROVE  Spec => CancelledStays
<1>1. Sound /\ HostAlone /\ [Next]_vars =>
        [event.status = "cancelled" => event'.status \in {"cancelled", "gone"}]_vars
  <2> SUFFICES ASSUME Sound, HostAlone, event.status = "cancelled", Next
               PROVE  event'.status \in {"cancelled", "gone"}
    OBVIOUS
  <2>1. \A r \in Requests : ~CommitPublish(r)
    BY DEF CommitPublish, Write, Doing, HostAlone
  <2> QED
    BY <2>1, HostArrivals DEF Next, Ends, HostArrives, Claim, Withdraw, Tell, TakePlace, GivePlaceBack,
       CommitCapacity, CallOff, Write, ListAttendees, Remove, Crash, Sound, TypeOK
<1> QED
  BY <1>1, InitSound, StepSound, InitAlone, StepAlone, PTL DEF Spec, CancelledStays

===============================================================================
