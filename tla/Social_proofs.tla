---------------------------- MODULE Social_proofs -----------------------------
(***************************************************************************)
(* Theorems about Social and Community, for any number of users and        *)
(* requests, however messages are sent and whoever starts a closed thread  *)
(* again.                                                                  *)
(***************************************************************************)
EXTENDS Social, Community, Receipts, FiniteSetTheorems, TLAPS

-----------------------------------------------------------------------------
(* Pairs. *)

LEMMA PairOfTwo ==
  ASSUME NEW u \in Users, NEW v \in Users, u # v
  PROVE  {u, v} \in Pairs
<1>1. IsFiniteSet({u}) /\ Cardinality({u}) = 1
  BY FS_Singleton
<1>2. Cardinality({u} \cup {v}) = 2
  BY <1>1, FS_AddElement
<1>3. {u} \cup {v} = {u, v}
  OBVIOUS
<1> QED
  BY <1>2, <1>3 DEF Pairs

LEMMA TwoOfPair ==
  ASSUME NEW p \in Pairs
  PROVE  \E u, v \in Users : u # v /\ p = {u, v}
<1>1. p \subseteq Users /\ IsFiniteSet(p) /\ Cardinality(p) = 2
  BY UsersAssumption, FS_Subset DEF Pairs
<1>2. PICK u \in p : TRUE
  BY <1>1, FS_EmptySet
<1>3. IsFiniteSet(p \ {u}) /\ Cardinality(p \ {u}) = 1
  BY <1>1, <1>2, FS_RemoveElement
<1>4. PICK v : p \ {u} = {v}
  BY <1>3, FS_Singleton
<1> QED
  BY <1>1, <1>2, <1>4

-----------------------------------------------------------------------------
(* Requests. *)

Talk == {"create", "say", "open", "close"}

\* Whom a request is of and about.
KnownRow(q) ==
  /\ q.op # "none" => q.me \in Users /\ q.other \in Users
  /\ q.op = "follow" => q.status \in {"pending", "accepted"}
  /\ q.op \in Talk => q.me # q.other

Known == \A r \in Requests : KnownRow(request[r])

Sound == TypeOK /\ Known

LEMMA IdleFacts == Idle \in RequestRows /\ Idle.op = "none"
BY DEF Idle, RequestRows, FollowStatuses

LEMMA OvertakeFacts ==
  ASSUME TypeOK, NEW rs
  PROVE  \A r \in Requests :
           /\ Overtake(rs)[r] \in RequestRows
           /\ Overtake(rs)[r].op = request[r].op
           /\ Overtake(rs)[r].me = request[r].me
           /\ Overtake(rs)[r].other = request[r].other
           /\ Overtake(rs)[r].status = request[r].status
           /\ Overtake(rs)[r].overtaken <=> request[r].overtaken \/ r \in rs
<1> SUFFICES ASSUME NEW r \in Requests
             PROVE  /\ Overtake(rs)[r] \in RequestRows
                    /\ Overtake(rs)[r].op = request[r].op
                    /\ Overtake(rs)[r].me = request[r].me
                    /\ Overtake(rs)[r].other = request[r].other
                    /\ Overtake(rs)[r].status = request[r].status
                    /\ Overtake(rs)[r].overtaken <=> request[r].overtaken \/ r \in rs
  OBVIOUS
<1> DEFINE b == request[r].overtaken \/ r \in rs
<1>1. request[r] \in RequestRows
  BY DEF TypeOK
<1>2. b \in BOOLEAN
  BY <1>1 DEF RequestRows
<1>3. Overtake(rs)[r] = [request[r] EXCEPT !.overtaken = b]
  BY DEF Overtake
<1> HIDE DEF b
<1>4. /\ Overtake(rs)[r] \in RequestRows
      /\ Overtake(rs)[r].op = request[r].op
      /\ Overtake(rs)[r].me = request[r].me
      /\ Overtake(rs)[r].other = request[r].other
      /\ Overtake(rs)[r].status = request[r].status
      /\ Overtake(rs)[r].overtaken = b
  BY <1>1, <1>2, <1>3 DEF RequestRows
<1> QED
  BY <1>4 DEF b

\* What a step makes of the requests: each is done with, or goes on (overtaken or
\* not), or is one that has just begun.
GoesOn(r) ==
  /\ request'[r].op = request[r].op /\ request'[r].me = request[r].me
  /\ request'[r].other = request[r].other /\ request'[r].status = request[r].status
  /\ request[r].overtaken => request'[r].overtaken

Over(r) == request'[r] = Idle

Fresh(op, u, v, status) == [op |-> op, me |-> u, other |-> v, status |-> status, overtaken |-> FALSE]

LEMMA BeginFacts ==
  ASSUME TypeOK, NEW r \in Requests, NEW op, NEW u, NEW v, NEW status, Begin(r, op, u, v, status)
  PROVE  /\ request'[r] = Fresh(op, u, v, status)
         /\ \A x \in Requests : x # r => request'[x] = request[x]
         /\ request[r] = Idle
         /\ Fresh(op, u, v, status) \in RequestRows => request' \in [Requests -> RequestRows]
BY DEF TypeOK, Begin, Fresh

LEMMA DoneFacts ==
  ASSUME TypeOK, NEW r \in Requests, Done(r)
  PROVE  /\ Over(r) /\ \A x \in Requests : x # r => request'[x] = request[x]
         /\ request' \in [Requests -> RequestRows]
BY IdleFacts DEF TypeOK, Done, Over

LEMMA KnownKept ==
  ASSUME Known, \A r \in Requests : Over(r) \/ GoesOn(r) \/ KnownRow(request'[r])
  PROVE  Known'
BY IdleFacts DEF Known, KnownRow, Over, GoesOn, Talk

\* What a request begins with.
Begun(r, op, u, v, status) ==
  /\ Begin(r, op, u, v, status)
  /\ op = "follow" => ~Apart(u, v) /\ status \in {"pending", "accepted"}
  /\ op \in {"admit", "refuse"} => follow[v][u] # "none"
  /\ op \in Talk => u # v

LEMMA ReadRows ==
  ASSUME Sound, NEW r \in Requests, NEW u \in Users, NEW v \in Users, ReadAndCommit(r, u, v)
  PROVE  \/ UNCHANGED request
         \/ \E op \in {"follow", "admit", "refuse", "create", "open", "close", "say"},
                status \in {"none", "pending", "accepted"} : Begun(r, op, u, v, status)
<1> USE DEF Begun, Talk
<1>1. CASE AskToFollow(r, u, v)
  BY <1>1 DEF AskToFollow
<1>2. CASE AnswerFollow(r, u, v)
  BY <1>2 DEF AnswerFollow
<1>3. CASE Start(r, u, v)
  <2>1. thread[{u, v}].status \in ThreadStatuses
    BY <1>3, PairOfTwo DEF Start, Sound, TypeOK, ThreadRows
  <2> QED
    BY <1>3, <2>1 DEF Start, ThreadStatuses
<1>4. CASE Answer(r, u, v)
  BY <1>4 DEF Answer
<1>5. CASE Send(r, u, v)
  BY <1>5 DEF Send
<1> QED
  BY <1>1, <1>2, <1>3, <1>4, <1>5 DEF ReadAndCommit

LEMMA ReadsKnown ==
  ASSUME Sound, NEW r \in Requests, NEW u \in Users, NEW v \in Users, ReadAndCommit(r, u, v)
  PROVE  /\ request' \in [Requests -> RequestRows]
         /\ \A x \in Requests : Over(x) \/ GoesOn(x) \/ KnownRow(request'[x])
<1> USE DEF Sound
<1>2. CASE UNCHANGED request
  BY <1>2 DEF TypeOK, GoesOn
<1>3. ASSUME NEW op \in {"follow", "admit", "refuse", "create", "open", "close", "say"},
             NEW status \in {"none", "pending", "accepted"}, Begun(r, op, u, v, status)
      PROVE  /\ request' \in [Requests -> RequestRows]
             /\ \A x \in Requests : Over(x) \/ GoesOn(x) \/ KnownRow(request'[x])
  <2>1. Fresh(op, u, v, status) \in RequestRows
    BY DEF Fresh, RequestRows, FollowStatuses
  <2>2. KnownRow(Fresh(op, u, v, status))
    BY <1>3 DEF Fresh, KnownRow, Begun
  <2> QED
    BY <1>3, <2>1, <2>2, BeginFacts DEF GoesOn, Begun
<1> QED
  BY <1>2, <1>3, ReadRows

\* The steps at which no request begins.
NothingBegins ==
  \/ \E u \in Users, settings \in Settings : SetProfile(u, settings)
  \/ \E u, v \in Users : Unfollow(u, v) \/ Block(u, v) \/ Unblock(u, v)
  \/ \E r \in Requests :
       InsertFollow(r) \/ SettleFollow(r) \/ Say(r) \/ Decide(r) \/ Crash(r)
  \/ UNCHANGED vars

LEMMA OthersGoOn ==
  ASSUME Sound, NothingBegins
  PROVE  /\ request' \in [Requests -> RequestRows]
         /\ \A x \in Requests : Over(x) \/ GoesOn(x)
<1> USE DEF Sound
<1>1. CASE UNCHANGED request
  BY <1>1 DEF TypeOK, GoesOn
<1>2. ASSUME NEW r \in Requests, Done(r)
      PROVE  /\ request' \in [Requests -> RequestRows]
             /\ \A x \in Requests : Over(x) \/ GoesOn(x)
  BY <1>2, DoneFacts DEF GoesOn
<1>3. ASSUME NEW rs, request' = Overtake(rs)
      PROVE  /\ request' \in [Requests -> RequestRows]
             /\ \A x \in Requests : GoesOn(x)
  <2>1. request' \in [Requests -> RequestRows]
    BY <1>3, OvertakeFacts DEF Overtake
  <2> QED
    BY <1>3, <2>1, OvertakeFacts DEF GoesOn
<1>4. ASSUME NEW r \in Requests, SettleFollow(r)
      PROVE  /\ request' \in [Requests -> RequestRows]
             /\ \A x \in Requests : Over(x) \/ GoesOn(x)
  <2>1. PICK rs : request' = [Overtake(rs) EXCEPT ![r] = Idle] \/ request' = [request EXCEPT ![r] = Idle]
    BY <1>4 DEF SettleFollow
  <2>2. CASE request' = [request EXCEPT ![r] = Idle]
    BY <1>2, <2>2 DEF Done
  <2>3. CASE request' = [Overtake(rs) EXCEPT ![r] = Idle]
    <3>1. Overtake(rs) \in [Requests -> RequestRows]
      BY OvertakeFacts DEF Overtake
    <3>2. \A x \in Requests : request'[x] = IF x = r THEN Idle ELSE Overtake(rs)[x]
      BY <2>3, <3>1
    <3> HIDE <2>3
    <3>3. request' \in [Requests -> RequestRows]
      BY <2>3, <3>1, IdleFacts
    <3> QED
      BY <3>2, <3>3, OvertakeFacts DEF GoesOn, Over
  <2> QED
    BY <2>1, <2>2, <2>3
<1> QED
  BY <1>1, <1>2, <1>3, <1>4
  DEF NothingBegins, vars, SetProfile, Unfollow, Block, Unblock, InsertFollow, Say, Decide, Crash

LEMMA MovesKnown ==
  Sound /\ [Next]_vars =>
    /\ request' \in [Requests -> RequestRows]
    /\ \A x \in Requests : Over(x) \/ GoesOn(x) \/ KnownRow(request'[x])
BY OthersGoOn, ReadsKnown DEF Next, NothingBegins

-----------------------------------------------------------------------------
(* Types of the rest. *)

\* What most steps leave alone.
LEMMA Untouched ==
  /\ \A r, u, v : ReadAndCommit(r, u, v) => UNCHANGED <<profile, follow, blocks, late>>
  /\ \A r, u, v : AskToFollow(r, u, v) \/ AnswerFollow(r, u, v) => UNCHANGED <<thread, silent>>
  /\ \A r : Say(r) \/ Decide(r) => UNCHANGED <<profile, follow, blocks, late, silent>>
  /\ \A r : Crash(r) => UNCHANGED <<profile, follow, blocks, thread, late, silent>>
  /\ \A u, w : SetProfile(u, w) => UNCHANGED <<follow, blocks, thread, late, silent, request>>
  /\ \A u, v : Unblock(u, v) => UNCHANGED <<profile, follow, thread, late, silent, request>>
  /\ \A u, v : Unfollow(u, v) => UNCHANGED <<profile, blocks, thread, late, silent>>
  /\ \A u, v : Block(u, v) => UNCHANGED <<profile, thread, late, silent>>
  /\ \A r : SettleFollow(r) => UNCHANGED <<profile, blocks, thread, late, silent>>
  /\ \A r : InsertFollow(r) => UNCHANGED <<profile, blocks, thread, silent>>
<1>1. \A r, u, v : ReadAndCommit(r, u, v) => UNCHANGED <<profile, follow, blocks, late>>
  <2>1. \A r, u, v : Start(r, u, v) => UNCHANGED <<profile, follow, blocks, late>>
    BY DEF Start
  <2>2. \A r, u, v : Send(r, u, v) => UNCHANGED <<profile, follow, blocks, late>>
    BY DEF Send
  <2>3. \A r, u, v : AskToFollow(r, u, v) \/ AnswerFollow(r, u, v) \/ Answer(r, u, v)
                      => UNCHANGED <<profile, follow, blocks, late>>
    BY DEF AskToFollow, AnswerFollow, Answer
  <2> QED
    BY <2>1, <2>2, <2>3 DEF ReadAndCommit
<1>2. /\ \A r, u, v : AskToFollow(r, u, v) \/ AnswerFollow(r, u, v) => UNCHANGED <<thread, silent>>
      /\ \A r : Say(r) \/ Decide(r) => UNCHANGED <<profile, follow, blocks, late, silent>>
  BY DEF AskToFollow, AnswerFollow, Say, Decide
<1>3. /\ \A r : Crash(r) => UNCHANGED <<profile, follow, blocks, thread, late, silent>>
      /\ \A u, w : SetProfile(u, w) => UNCHANGED <<follow, blocks, thread, late, silent, request>>
      /\ \A u, v : Unblock(u, v) => UNCHANGED <<profile, follow, thread, late, silent, request>>
      /\ \A u, v : Unfollow(u, v) => UNCHANGED <<profile, blocks, thread, late, silent>>
  BY DEF Crash, SetProfile, Unblock, Unfollow
<1>4. /\ \A u, v : Block(u, v) => UNCHANGED <<profile, thread, late, silent>>
      /\ \A r : SettleFollow(r) => UNCHANGED <<profile, blocks, thread, late, silent>>
      /\ \A r : InsertFollow(r) => UNCHANGED <<profile, blocks, thread, silent>>
  BY DEF Block, SettleFollow, InsertFollow
<1> QED
  BY <1>1, <1>2, <1>3, <1>4

LEMMA FollowTyped ==
  Sound /\ [Next]_vars => follow' \in [Users -> [Users -> FollowStatuses]]
<1> SUFFICES ASSUME Sound, [Next]_vars PROVE follow' \in [Users -> [Users -> FollowStatuses]]
  OBVIOUS
<1>1. follow \in [Users -> [Users -> FollowStatuses]]
  BY DEF Sound, TypeOK
<1>2. {"none", "accepted"} \subseteq FollowStatuses
  BY DEF FollowStatuses
<1>3. ASSUME NEW r \in Requests, InsertFollow(r) PROVE follow' \in [Users -> [Users -> FollowStatuses]]
  <2>1. request[r].me \in Users /\ request[r].other \in Users /\ request[r].status \in FollowStatuses
    BY <1>3 DEF InsertFollow, Doing, Sound, Known, KnownRow, FollowStatuses
  <2> QED
    BY <1>1, <1>3, <2>1 DEF InsertFollow
<1>4. ASSUME NEW r \in Requests, SettleFollow(r) PROVE follow' \in [Users -> [Users -> FollowStatuses]]
  <2>1. request[r].me \in Users /\ request[r].other \in Users
    BY <1>4 DEF SettleFollow, Sound, Known, KnownRow
  <2> QED
    BY <1>1, <1>2, <1>4, <2>1 DEF SettleFollow
<1>5. ASSUME NEW u \in Users, NEW v \in Users, Unfollow(u, v) \/ Block(u, v)
      PROVE  follow' \in [Users -> [Users -> FollowStatuses]]
  <2>1. follow' = [follow EXCEPT ![u][v] = "none"]
          \/ follow' = [[follow EXCEPT ![u][v] = "none"] EXCEPT ![v][u] = "none"]
    BY <1>5 DEF Unfollow, Block, Severed
  <2>2. [follow EXCEPT ![u][v] = "none"] \in [Users -> [Users -> FollowStatuses]]
    BY <1>1, <1>2
  <2> DEFINE once == [follow EXCEPT ![u][v] = "none"]
  <2> HIDE DEF once
  <2>3. [once EXCEPT ![v][u] = "none"] \in [Users -> [Users -> FollowStatuses]]
    BY <1>2, <2>2 DEF once
  <2> QED
    BY <2>1, <2>2, <2>3 DEF once
<1> QED
  BY <1>1, <1>3, <1>4, <1>5, Untouched DEF Next, vars

LEMMA ThreadOfKnown ==
  ASSUME Sound, NEW r \in Requests, request[r].op \in Talk
  PROVE  /\ request[r].me \in Users /\ request[r].other \in Users
         /\ request[r].me # request[r].other /\ ThreadOf(r) \in Pairs
BY PairOfTwo DEF Sound, Known, KnownRow, Talk, ThreadOf

LEMMA WithMessageTyped ==
  ASSUME NEW row \in ThreadRows, NEW u \in Users
  PROVE  /\ WithMessage(row, u) \in ThreadRows
         /\ WithMessage(row, u).status = row.status /\ WithMessage(row, u).agreed = row.agreed
         /\ WithMessage(row, u).slips = row.slips
         /\ WithMessage(row, u).first = IF row.first = NoUser THEN u ELSE row.first
BY DEF WithMessage, ThreadRows

\* What Started makes of the slips.
Turned(row, u) == {"reversed" : x \in {row.first} \ {u, NoUser}}

LEMMA StartedTyped ==
  ASSUME NEW row \in ThreadRows, NEW u \in Users, NEW v \in Users
  PROVE  /\ Started(row, u, v) \in ThreadRows
         /\ Started(row, u, v).status = IF Follows(v, u) THEN "open" ELSE "pending"
         /\ Started(row, u, v).agreed = IF Follows(v, u) THEN {u, v} ELSE {u}
         /\ Started(row, u, v).slips = Turned(row, u)
         /\ Started(row, u, v).first = row.first
<1> DEFINE agreed == {u} \cup {x \in {v} : Follows(v, u)}
           status == IF Follows(v, u) THEN "open" ELSE "pending"
<1>1. agreed = (IF Follows(v, u) THEN {u, v} ELSE {u}) /\ agreed \in SUBSET Users
  OBVIOUS
<1>2. status \in ThreadStatuses
  BY DEF ThreadStatuses
<1>3. Started(row, u, v) = [row EXCEPT !.status = status, !.agreed = agreed, !.slips = Turned(row, u)]
  BY DEF Started, Turned
<1>5. Turned(row, u) \in SUBSET {"forced", "reversed"}
  BY DEF Turned
<1> HIDE DEF agreed, status
<1>4. /\ Started(row, u, v) \in ThreadRows
      /\ Started(row, u, v).status = status
      /\ Started(row, u, v).agreed = agreed
      /\ Started(row, u, v).slips = Turned(row, u)
      /\ Started(row, u, v).first = row.first
  BY <1>1, <1>2, <1>3, <1>5 DEF ThreadRows
<1> QED
  BY <1>1, <1>4 DEF status

\* What a step makes of a thread: one row, and how it comes about.
Rewrites(p, row) == thread' = [thread EXCEPT ![p] = row]

StartRow(u, v) ==
  LET row == thread[{u, v}] IN
  CASE row.status \in {"pending", "open"} -> [WithMessage(row, u) EXCEPT !.agreed = @ \cup {u}]
    [] row.status = "closed" -> WithMessage(Started(row, u, v), u)
    [] row.status = "none" -> Started(row, u, v)

DecideRow(row, q) ==
  [row EXCEPT !.status = IF q.op = "open" THEN "open" ELSE "closed",
              !.agreed = IF q.op = "open" THEN @ \cup {q.me} ELSE @ \ {q.me},
              !.slips = IF q.op = "open" THEN @ ELSE @ \ {"forced"}]

LEMMA WantedByTyped ==
  ASSUME NEW row \in ThreadRows, NEW u \in Users
  PROVE  /\ WantedBy(row, u) \in ThreadRows
         /\ WantedBy(row, u).status = row.status /\ WantedBy(row, u).agreed = row.agreed \cup {u}
         /\ WantedBy(row, u).slips = row.slips /\ WantedBy(row, u).first = row.first
BY DEF WantedBy, ThreadRows

LEMMA AcceptedByTyped ==
  ASSUME NEW row \in ThreadRows, NEW u \in Users
  PROVE  /\ AcceptedBy(row, u) \in ThreadRows
         /\ AcceptedBy(row, u).status = "open" /\ AcceptedBy(row, u).agreed = row.agreed \cup {u}
         /\ AcceptedBy(row, u).first = row.first
         /\ AcceptedBy(row, u).slips = IF u = row.first THEN row.slips \cup {"forced"} ELSE row.slips
<1> DEFINE base == WantedBy(row, u)
           slips == row.slips \cup {"forced" : x \in {u} \cap {row.first}}
<1>1. slips = IF u = row.first THEN row.slips \cup {"forced"} ELSE row.slips
  OBVIOUS
<1>2. slips \in SUBSET {"forced", "reversed"}
  BY DEF ThreadRows
<1>3. base \in ThreadRows /\ base.agreed = row.agreed \cup {u} /\ base.first = row.first /\ base.slips = row.slips
  BY WantedByTyped
<1>4. AcceptedBy(row, u) = [base EXCEPT !.status = "open", !.slips = slips]
  BY <1>3 DEF AcceptedBy
<1> HIDE DEF slips, base
<1>5. /\ AcceptedBy(row, u) \in ThreadRows
      /\ AcceptedBy(row, u).status = "open" /\ AcceptedBy(row, u).agreed = base.agreed
      /\ AcceptedBy(row, u).first = base.first /\ AcceptedBy(row, u).slips = slips
  BY <1>2, <1>3, <1>4 DEF ThreadRows, ThreadStatuses
<1> QED
  BY <1>1, <1>3, <1>5

LEMMA StartRows ==
  ASSUME Sound, NEW r \in Requests, NEW u \in Users, NEW v \in Users, Start(r, u, v)
  PROVE  /\ {u, v} \in Pairs /\ thread[{u, v}] \in ThreadRows
         /\ Rewrites({u, v}, StartRow(u, v)) /\ StartRow(u, v) \in ThreadRows
<1>1. {u, v} \in Pairs /\ thread[{u, v}] \in ThreadRows
  BY PairOfTwo DEF Start, Sound, TypeOK
<1>2. thread[{u, v}].status \in ThreadStatuses
  BY <1>1 DEF ThreadRows
<1>3. Rewrites({u, v}, StartRow(u, v))
  BY <1>2 DEF Start, Rewrites, StartRow, ThreadStatuses
<1>4. [WithMessage(thread[{u, v}], u) EXCEPT !.agreed = @ \cup {u}] \in ThreadRows
  <2> DEFINE row == WithMessage(thread[{u, v}], u)
  <2>1. row \in ThreadRows
    BY <1>1, WithMessageTyped
  <2> HIDE DEF row
  <2>2. [row EXCEPT !.agreed = @ \cup {u}] \in ThreadRows
    BY <2>1 DEF ThreadRows
  <2> QED
    BY <2>2 DEF row
<1>5. StartRow(u, v) \in ThreadRows
  BY <1>1, <1>2, <1>4, WithMessageTyped, StartedTyped DEF StartRow, ThreadStatuses
<1> QED
  BY <1>1, <1>3, <1>5

LEMMA SendRows ==
  ASSUME Sound, NEW r \in Requests, NEW u \in Users, NEW v \in Users, Send(r, u, v)
  PROVE  /\ {u, v} \in Pairs /\ thread[{u, v}] \in ThreadRows
         /\ WantedBy(thread[{u, v}], u) \in ThreadRows
         /\ AcceptedBy(thread[{u, v}], u) \in ThreadRows
         /\ \/ Rewrites({u, v}, WantedBy(thread[{u, v}], u)) /\ UNCHANGED silent
               /\ ~Decides(u, thread[{u, v}])
            \/ Rewrites({u, v}, AcceptedBy(thread[{u, v}], u)) /\ Answered({u, v})
<1>1. {u, v} \in Pairs /\ thread[{u, v}] \in ThreadRows
  BY PairOfTwo DEF Send, Sound, TypeOK
<1>2. AcceptedBy(thread[{u, v}], u) \in ThreadRows /\ WantedBy(thread[{u, v}], u) \in ThreadRows
  BY <1>1, AcceptedByTyped, WantedByTyped
<1>3. \A accepts \in Accepts(u, thread[{u, v}]) : ~accepts => ~Decides(u, thread[{u, v}])
  BY DEF Accepts, Decides
<1> QED
  BY <1>1, <1>2, <1>3 DEF Rewrites, Send

LEMMA SayRows ==
  ASSUME Sound, NEW r \in Requests, Say(r)
  PROVE  /\ request[r].op \in Talk /\ thread[ThreadOf(r)] \in ThreadRows
         /\ Rewrites(ThreadOf(r), WithMessage(thread[ThreadOf(r)], request[r].me))
         /\ WithMessage(thread[ThreadOf(r)], request[r].me) \in ThreadRows
<1>1. request[r].op \in Talk
  BY DEF Say, Talk
<1>2. thread[ThreadOf(r)] \in ThreadRows
  BY <1>1, ThreadOfKnown DEF Sound, TypeOK
<1> QED
  BY <1>1, <1>2, ThreadOfKnown, WithMessageTyped DEF Say, Rewrites

LEMMA DecideRows ==
  ASSUME Sound, NEW r \in Requests, Decide(r)
  PROVE  /\ request[r].op \in Talk /\ thread[ThreadOf(r)] \in ThreadRows
         /\ Rewrites(ThreadOf(r), DecideRow(thread[ThreadOf(r)], request[r]))
         /\ DecideRow(thread[ThreadOf(r)], request[r]) \in ThreadRows
<1>1. request[r].op \in Talk
  BY DEF Decide, Talk
<1>2. thread[ThreadOf(r)] \in ThreadRows /\ request[r].me \in Users
  BY <1>1, ThreadOfKnown DEF Sound, TypeOK
<1>3. DecideRow(thread[ThreadOf(r)], request[r]) \in ThreadRows
  BY <1>2 DEF ThreadRows, ThreadStatuses, DecideRow
<1>4. Rewrites(ThreadOf(r), DecideRow(thread[ThreadOf(r)], request[r]))
  BY <1>1, ThreadOfKnown DEF Decide, Rewrites, DecideRow, Sound, TypeOK
<1> QED
  BY <1>1, <1>2, <1>3, <1>4

LEMMA ThreadTyped ==
  Sound /\ [Next]_vars => thread' \in [Pairs -> ThreadRows]
<1> SUFFICES ASSUME Sound, [Next]_vars PROVE thread' \in [Pairs -> ThreadRows]
  OBVIOUS
<1>1. thread \in [Pairs -> ThreadRows]
  BY DEF Sound, TypeOK
<1>2. UNCHANGED thread \/ \E p \in Pairs, row \in ThreadRows : Rewrites(p, row)
  BY StartRows, SendRows, SayRows, DecideRows, ThreadOfKnown, Untouched
  DEF Next, vars, ReadAndCommit, Answer
<1> QED
  BY <1>1, <1>2 DEF Rewrites

LEMMA HistoryTyped ==
  Sound /\ [Next]_vars =>
    /\ profile' \in [Users -> Settings] /\ blocks' \subseteq Users \X Users
    /\ late' \subseteq Users \X Users /\ silent' \subseteq Pairs
<1> SUFFICES ASSUME Sound, [Next]_vars
             PROVE  /\ profile' \in [Users -> Settings] /\ blocks' \subseteq Users \X Users
                    /\ late' \subseteq Users \X Users /\ silent' \subseteq Pairs
  OBVIOUS
<1>1. profile' \in [Users -> Settings] /\ blocks' \subseteq Users \X Users
  <2>1. ASSUME NEW u \in Users, NEW v \in Users, Block(u, v) \/ Unblock(u, v)
        PROVE  blocks' \subseteq Users \X Users
    BY <2>1 DEF Block, Unblock, Sound, TypeOK
  <2>2. ASSUME NEW u \in Users, NEW w \in Settings, SetProfile(u, w)
        PROVE  profile' \in [Users -> Settings]
    BY <2>2 DEF SetProfile, Sound, TypeOK
  <2>3. profile \in [Users -> Settings] /\ blocks \subseteq Users \X Users
    BY DEF Sound, TypeOK
  <2> QED
    BY <2>1, <2>2, <2>3, Untouched DEF Next, vars
<1>2. ASSUME NEW r \in Requests, InsertFollow(r) PROVE late' \subseteq Users \X Users
  <2>1. request[r].me \in Users /\ request[r].other \in Users
    BY <1>2 DEF InsertFollow, Doing, Sound, Known, KnownRow
  <2> QED
    BY <1>2, <2>1 DEF InsertFollow, Sound, TypeOK
<1>3. late' \subseteq Users \X Users
  <2>1. late \subseteq Users \X Users
    BY DEF Sound, TypeOK
  <2> QED
    BY <1>2, <2>1, Untouched DEF Next, vars
<1>4. silent' \subseteq Pairs
  <2>1. silent \subseteq Pairs
    BY DEF Sound, TypeOK
  <2>2. ASSUME NEW r \in Requests, NEW u \in Users, NEW v \in Users, ReadAndCommit(r, u, v)
        PROVE  silent' \subseteq Pairs
    <3>1. CASE Answer(r, u, v) \/ Send(r, u, v)
      BY <2>1, <3>1, PairOfTwo DEF Answer, Answered, Send
    <3>2. CASE Start(r, u, v)
      BY <2>1, <3>2 DEF Start
    <3> QED
      BY <2>1, <2>2, <3>1, <3>2, Untouched DEF ReadAndCommit
  <2> QED
    BY <2>1, <2>2, Untouched DEF Next, vars
<1> QED
  BY <1>1, <1>3, <1>4

LEMMA StepSound == Sound /\ [Next]_vars => Sound'
BY MovesKnown, KnownKept, FollowTyped, ThreadTyped, HistoryTyped DEF Sound, TypeOK

LEMMA InitSound == Init => Sound
<1> SUFFICES ASSUME Init PROVE Sound
  OBVIOUS
<1>1. NoThread \in ThreadRows
  BY DEF NoThread, ThreadRows, ThreadStatuses
<1>2. \A r \in Requests : request[r] = Idle
  BY DEF Init
<1> QED
  BY <1>1, <1>2, IdleFacts DEF Init, Sound, TypeOK, Known, KnownRow, FollowStatuses, Talk, Idle

\* Follows, blocks, threads and every request keep their types.
THEOREM Typed == Spec => []TypeOK
<1>1. Sound => TypeOK
  BY DEF Sound
<1> QED
  BY <1>1, InitSound, StepSound, PTL DEF Spec

-----------------------------------------------------------------------------
(* A block keeps two people apart. *)

\* A follow that no block has overtaken is between people of whom neither blocks the
\* other; an answer that nothing has overtaken still has the row it answers.
UnblockedFollows ==
  \A r \in Requests : request[r].op = "follow" /\ ~request[r].overtaken
                        => ~Apart(request[r].me, request[r].other)

AnswersHaveRows ==
  \A r \in Requests : request[r].op \in {"admit", "refuse"} /\ ~request[r].overtaken
                        => follow[request[r].other][request[r].me] # "none"

Severing == UnblockedFollows /\ AnswersHaveRows /\ BlockedApart

LEMMA IdleHarmless ==
  \A r \in Requests : Over(r) => request'[r].op \notin {"follow", "admit", "refuse"}
BY IdleFacts DEF Over

\* The requests that a block, an unfollow or a refusal overtakes.
LEMMA BlockOvertakes ==
  ASSUME Sound, NEW u \in Users, NEW v \in Users, Block(u, v)
  PROVE  \A r \in Requests :
           /\ GoesOn(r)
           /\ {request[r].me, request[r].other} = {u, v}
              /\ request[r].op \in {"follow", "admit", "refuse"} => request'[r].overtaken
BY OvertakeFacts DEF Block, Sound, GoesOn

LEMMA UnfollowOvertakes ==
  ASSUME Sound, NEW u \in Users, NEW v \in Users, Unfollow(u, v)
  PROVE  \A r \in Requests :
           /\ GoesOn(r)
           /\ Outdated(request[r], u, v) => request'[r].overtaken
BY OvertakeFacts DEF Unfollow, Sound, GoesOn

LEMMA RefusalOvertakes ==
  ASSUME Sound, NEW r \in Requests, SettleFollow(r), ~request[r].overtaken
  PROVE  \A x \in Requests :
           \/ Over(x)
           \/ /\ GoesOn(x)
              /\ request[r].op = "refuse" /\ Outdated(request[x], request[r].other, request[r].me)
                   => request'[x].overtaken
<1> DEFINE done == {x \in Requests : request[r].op = "refuse"
                                       /\ Outdated(request[x], request[r].other, request[r].me)}
<1>1. request' = [Overtake(done) EXCEPT ![r] = Idle]
  BY DEF SettleFollow
<1>2. \A x \in Requests : request'[x] = IF x = r THEN Idle ELSE Overtake(done)[x]
  BY <1>1 DEF Overtake
<1>3. \A x \in Requests :
        request[r].op = "refuse" /\ Outdated(request[x], request[r].other, request[r].me) => x \in done
  OBVIOUS
<1> HIDE DEF done
<1>4. SUFFICES ASSUME NEW x \in Requests, x # r
               PROVE  /\ GoesOn(x)
                      /\ request[r].op = "refuse" /\ Outdated(request[x], request[r].other, request[r].me)
                           => request'[x].overtaken
  BY <1>2 DEF Over
<1>5. request'[x] = Overtake(done)[x]
  BY <1>2, <1>4
<1>6. GoesOn(x) /\ (x \in done => request'[x].overtaken)
  BY <1>5, OvertakeFacts DEF Sound, GoesOn
<1> QED
  BY <1>3, <1>6

LEMMA StepUnblocked == Sound /\ UnblockedFollows /\ [Next]_vars => UnblockedFollows'
<1> SUFFICES ASSUME Sound, UnblockedFollows, [Next]_vars PROVE UnblockedFollows'
  OBVIOUS
<1>1. ASSUME NEW u \in Users, NEW v \in Users, Block(u, v) PROVE UnblockedFollows'
  <2>1. blocks' = blocks \cup {<<u, v>>}
    BY <1>1 DEF Block
  <2>2. SUFFICES ASSUME NEW r \in Requests, request'[r].op = "follow", ~request'[r].overtaken
                 PROVE  ~Apart(request[r].me, request[r].other)'
    BY DEF UnblockedFollows
  <2>3. ~Apart(request[r].me, request[r].other) /\ GoesOn(r) /\ {request[r].me, request[r].other} # {u, v}
    BY <1>1, <2>2, BlockOvertakes DEF UnblockedFollows, GoesOn
  <2> QED
    BY <2>1, <2>3 DEF Apart, GoesOn
<1>2. ASSUME blocks' \subseteq blocks, \A r \in Requests : Over(r) \/ GoesOn(r)
      PROVE  UnblockedFollows'
  BY <1>2, IdleHarmless DEF UnblockedFollows, GoesOn, Apart
<1>3. ASSUME NEW r \in Requests, NEW u \in Users, NEW v \in Users, ReadAndCommit(r, u, v)
      PROVE  UnblockedFollows'
  <2>1. UNCHANGED blocks
    BY <1>3, Untouched
  <2>2. CASE UNCHANGED request
    BY <2>1, <2>2 DEF UnblockedFollows, Apart
  <2>3. ASSUME NEW op, NEW status, Begun(r, op, u, v, status) PROVE UnblockedFollows'
    <3>1. \A x \in Requests : request'[x] = IF x = r THEN Fresh(op, u, v, status) ELSE request[x]
      BY <2>3, BeginFacts DEF Begun, Sound
    <3>2. op = "follow" => ~Apart(u, v)
      BY <2>3 DEF Begun
    <3> QED
      BY <2>1, <3>1, <3>2 DEF UnblockedFollows, Apart, Fresh
  <2> QED
    BY <1>3, <2>2, <2>3, ReadRows
<1>4. CASE NothingBegins
  <2>1. \/ \E u, v \in Users : Block(u, v)
        \/ blocks' \subseteq blocks
    BY <1>4, Untouched DEF NothingBegins, vars, Unblock
  <2> QED
    BY <1>1, <1>2, <1>4, <2>1, OthersGoOn
<1> QED
  BY <1>3, <1>4 DEF Next, NothingBegins

\* Where a step writes a follow.
LEMMA Severings ==
  ASSUME Sound, NEW u \in Users, NEW v \in Users, Block(u, v)
  PROVE  \A a, b \in Users :
           follow'[a][b] = IF (a = u /\ b = v) \/ (a = v /\ b = u) THEN "none" ELSE follow[a][b]
<1> DEFINE once == [follow EXCEPT ![u][v] = "none"]
<1>1. follow \in [Users -> [Users -> FollowStatuses]] /\ u # v
  BY DEF Sound, TypeOK, Block
<1>2. \A a, b \in Users : once[a][b] = IF a = u /\ b = v THEN "none" ELSE follow[a][b]
  BY <1>1
<1>3. once \in [Users -> [Users -> FollowStatuses]]
  BY <1>1 DEF FollowStatuses
<1>4. follow' = [once EXCEPT ![v][u] = "none"]
  BY DEF Block, Severed
<1> HIDE DEF once
<1>5. \A a, b \in Users : follow'[a][b] = IF a = v /\ b = u THEN "none" ELSE once[a][b]
  BY <1>3, <1>4
<1> QED
  BY <1>2, <1>5

LEMMA Unfollowing ==
  ASSUME Sound, NEW u \in Users, NEW v \in Users, Unfollow(u, v)
  PROVE  \A a, b \in Users : follow'[a][b] = IF a = u /\ b = v THEN "none" ELSE follow[a][b]
BY DEF Unfollow, Sound, TypeOK

LEMMA Inserting ==
  ASSUME Sound, NEW r \in Requests, InsertFollow(r)
  PROVE  \A a, b \in Users :
           follow'[a][b] = IF a = request[r].me /\ b = request[r].other /\ follow[a][b] = "none"
                           THEN request[r].status ELSE follow[a][b]
<1>1. follow \in [Users -> [Users -> FollowStatuses]]
      /\ request[r].me \in Users /\ request[r].other \in Users
  BY DEF InsertFollow, Doing, Sound, TypeOK, Known, KnownRow
<1> QED
  BY <1>1 DEF InsertFollow

LEMMA Settling ==
  ASSUME Sound, NEW r \in Requests, SettleFollow(r)
  PROVE  \A a, b \in Users :
           follow'[a][b] = IF ~request[r].overtaken /\ a = request[r].other /\ b = request[r].me
                           THEN (IF request[r].op = "admit" THEN "accepted" ELSE "none")
                           ELSE follow[a][b]
<1>1. follow \in [Users -> [Users -> FollowStatuses]]
      /\ request[r].me \in Users /\ request[r].other \in Users
  BY DEF SettleFollow, Sound, TypeOK, Known, KnownRow
<1> QED
  BY <1>1 DEF SettleFollow

LEMMA StepRows == Sound /\ AnswersHaveRows /\ [Next]_vars => AnswersHaveRows'
<1> SUFFICES ASSUME Sound, AnswersHaveRows, [Next]_vars PROVE AnswersHaveRows'
  OBVIOUS
<1> DEFINE Row(r) == follow[request[r].other][request[r].me]
           Answers(r) == request[r].op \in {"admit", "refuse"} /\ ~request[r].overtaken
<1>1. \A r \in Requests : Answers(r) => request[r].me \in Users /\ request[r].other \in Users /\ Row(r) # "none"
  BY DEF Sound, Known, KnownRow, AnswersHaveRows
<1>2. \A r \in Requests : GoesOn(r) /\ Answers(r)' => Answers(r) /\ request'[r].me = request[r].me
                                                      /\ request'[r].other = request[r].other
  BY DEF GoesOn
<1>3. \A r \in Requests : Over(r) => ~Answers(r)'
  BY IdleHarmless
<1>4. ASSUME UNCHANGED follow, \A r \in Requests : Over(r) \/ GoesOn(r)
      PROVE  AnswersHaveRows'
  BY <1>1, <1>2, <1>3, <1>4 DEF AnswersHaveRows
<1>5. ASSUME NEW u \in Users, NEW v \in Users, Block(u, v) PROVE AnswersHaveRows'
  <2>1. SUFFICES ASSUME NEW r \in Requests, Answers(r)' PROVE Row(r)' # "none"
    BY DEF AnswersHaveRows
  <2>2. Answers(r) /\ GoesOn(r) /\ {request[r].me, request[r].other} # {u, v}
    BY <1>2, <1>5, <2>1, BlockOvertakes
  <2>3. follow'[request[r].other][request[r].me] = Row(r)
    <3>1. /\ ~(request[r].other = u /\ request[r].me = v)
          /\ ~(request[r].other = v /\ request[r].me = u)
      BY <2>2
    <3> QED
      BY <1>1, <1>5, <2>2, <3>1, Severings
  <2> QED
    BY <1>1, <2>2, <2>3 DEF GoesOn
<1>6. ASSUME NEW u \in Users, NEW v \in Users, Unfollow(u, v) PROVE AnswersHaveRows'
  <2>1. SUFFICES ASSUME NEW r \in Requests, Answers(r)' PROVE Row(r)' # "none"
    BY DEF AnswersHaveRows
  <2>2. Answers(r) /\ GoesOn(r) /\ ~(request[r].other = u /\ request[r].me = v)
    BY <1>2, <1>6, <2>1, UnfollowOvertakes DEF Outdated
  <2> QED
    BY <1>1, <1>6, <2>2, Unfollowing DEF GoesOn
<1>7. ASSUME NEW r \in Requests, InsertFollow(r) PROVE AnswersHaveRows'
  <2>1. \A x \in Requests : Over(x) \/ GoesOn(x)
    BY <1>7, OthersGoOn DEF NothingBegins
  <2>2. SUFFICES ASSUME NEW x \in Requests, Answers(x)' PROVE Row(x)' # "none"
    BY DEF AnswersHaveRows
  <2>3. request[r].status # "none"
    BY <1>7 DEF InsertFollow, Doing, Sound, Known, KnownRow
  <2> QED
    BY <1>1, <1>2, <1>3, <1>7, <2>1, <2>2, <2>3, Inserting
<1>8. ASSUME NEW r \in Requests, SettleFollow(r) PROVE AnswersHaveRows'
  <2>1. CASE request[r].overtaken
    <3>1. UNCHANGED follow
      BY <1>8, <2>1 DEF SettleFollow
    <3> QED
      BY <1>4, <1>8, <3>1, OthersGoOn DEF NothingBegins
  <2>2. CASE ~request[r].overtaken
    <3>1. SUFFICES ASSUME NEW x \in Requests, Answers(x)' PROVE Row(x)' # "none"
      BY DEF AnswersHaveRows
    <3>2. Answers(x) /\ GoesOn(x)
          /\ ~(request[r].op = "refuse" /\ request[x].other = request[r].other
                                       /\ request[x].me = request[r].me)
      BY <1>2, <1>3, <1>8, <2>2, <3>1, RefusalOvertakes DEF Outdated
    <3>3. request[r].op \in {"admit", "refuse"}
      BY <1>8 DEF SettleFollow
    <3> QED
      BY <1>1, <1>8, <3>2, <3>3, Settling DEF GoesOn
  <2> QED
    BY <2>1, <2>2
<1>9. ASSUME NEW r \in Requests, NEW u \in Users, NEW v \in Users, ReadAndCommit(r, u, v)
      PROVE  AnswersHaveRows'
  <2>1. UNCHANGED follow
    BY <1>9, Untouched
  <2>2. CASE UNCHANGED request
    BY <2>1, <2>2 DEF AnswersHaveRows
  <2>3. ASSUME NEW op, NEW status, Begun(r, op, u, v, status) PROVE AnswersHaveRows'
    <3>1. \A x \in Requests : request'[x] = IF x = r THEN Fresh(op, u, v, status) ELSE request[x]
      BY <2>3, BeginFacts DEF Begun, Sound
    <3>2. op \in {"admit", "refuse"} => follow[v][u] # "none"
      BY <2>3 DEF Begun
    <3> QED
      BY <2>1, <3>1, <3>2 DEF AnswersHaveRows, Fresh
  <2> QED
    BY <1>9, <2>2, <2>3, ReadRows
<1>10. CASE NothingBegins
  <2>1. \/ \E u, v \in Users : Block(u, v) \/ Unfollow(u, v)
        \/ \E r \in Requests : InsertFollow(r) \/ SettleFollow(r)
        \/ UNCHANGED follow
    BY <1>10, Untouched DEF NothingBegins, vars
  <2> QED
    BY <1>4, <1>5, <1>6, <1>7, <1>8, <1>10, <2>1, OthersGoOn
<1> QED
  BY <1>9, <1>10 DEF Next, NothingBegins

LEMMA StepApart == Sound /\ Severing /\ [Next]_vars => BlockedApart'
<1> SUFFICES ASSUME Sound, Severing, [Next]_vars PROVE BlockedApart'
  OBVIOUS
<1>1. ASSUME UNCHANGED late, blocks' \subseteq blocks,
             \A a, b \in Users : follow'[a][b] # "none" => follow[a][b] # "none"
      PROVE  BlockedApart'
  BY <1>1 DEF Severing, BlockedApart, Apart
<1>2. ASSUME NEW u \in Users, NEW v \in Users, Block(u, v) PROVE BlockedApart'
  <2>1. UNCHANGED late /\ blocks' = blocks \cup {<<u, v>>} /\ u # v
    BY <1>2 DEF Block
  <2>2. SUFFICES ASSUME NEW a \in Users, NEW b \in Users, Apart(a, b)', follow'[a][b] # "none"
                 PROVE  <<a, b>> \in late
    BY <2>1 DEF BlockedApart
  <2>3. follow[a][b] # "none" /\ ~(a = u /\ b = v) /\ ~(a = v /\ b = u)
    BY <1>2, <2>2, Severings
  <2>4. Apart(a, b)
    BY <2>1, <2>2, <2>3 DEF Apart
  <2> QED
    BY <2>3, <2>4 DEF Severing, BlockedApart
<1>3. ASSUME NEW r \in Requests, InsertFollow(r) PROVE BlockedApart'
  <2> DEFINE q == request[r]
  <2>1. UNCHANGED blocks
    BY <1>3, Untouched
  <2>2. CASE follow[q.me][q.other] # "none"
    <3>1. UNCHANGED late
      BY <1>3, <2>2 DEF InsertFollow
    <3> QED
      BY <1>1, <1>3, <2>1, <2>2, <3>1, Inserting
  <2>3. CASE follow[q.me][q.other] = "none" /\ q.overtaken
    <3>1. late' = late \cup {<<q.me, q.other>>}
      BY <1>3, <2>3 DEF InsertFollow
    <3> QED
      BY <1>3, <2>1, <3>1, Inserting DEF Severing, BlockedApart, Apart
  <2>4. CASE follow[q.me][q.other] = "none" /\ ~q.overtaken
    <3>1. late' = late \ {<<q.me, q.other>>}
      BY <1>3, <2>4 DEF InsertFollow
    <3>2. ~Apart(q.me, q.other)
      BY <1>3, <2>4 DEF InsertFollow, Doing, Severing, UnblockedFollows
    <3> QED
      BY <1>3, <2>1, <3>1, <3>2, Inserting DEF Severing, BlockedApart, Apart
  <2> QED
    BY <2>2, <2>3, <2>4
<1>4. ASSUME NEW r \in Requests, SettleFollow(r) PROVE BlockedApart'
  <2>1. UNCHANGED <<blocks, late>>
    BY <1>4, Untouched
  <2>2. ~request[r].overtaken => follow[request[r].other][request[r].me] # "none"
    BY <1>4 DEF SettleFollow, Severing, AnswersHaveRows
  <2> QED
    BY <1>1, <1>4, <2>1, <2>2, Settling
<1>5. ASSUME NEW u \in Users, NEW v \in Users, Unfollow(u, v) PROVE BlockedApart'
  BY <1>1, <1>5, Untouched, Unfollowing
<1>6. ASSUME NEW u \in Users, NEW v \in Users, Unblock(u, v) PROVE BlockedApart'
  <2>1. blocks' \subseteq blocks
    BY <1>6 DEF Unblock
  <2> QED
    BY <1>1, <1>6, <2>1, Untouched
<1>7. ASSUME UNCHANGED <<follow, blocks, late>> PROVE BlockedApart'
  BY <1>1, <1>7
<1> QED
  BY <1>2, <1>3, <1>4, <1>5, <1>6, <1>7, Untouched DEF Next, vars

LEMMA InitSevering == Init => Severing
<1> SUFFICES ASSUME Init PROVE Severing
  OBVIOUS
<1>1. \A r \in Requests : request[r].op = "none"
  BY IdleFacts DEF Init
<1> QED
  BY <1>1 DEF Init, Severing, UnblockedFollows, AnswersHaveRows, BlockedApart, Apart

\* block_user deletes the follows of both directions in its own transaction, and what
\* was being asked or answered then commits afterwards: two people of whom one blocks
\* the other do not follow each other, except by a follow that had read the blocks
\* before.
THEOREM BlocksSever == Spec => []BlockedApart
<1>1. Sound /\ Severing /\ [Next]_vars => Severing'
  BY StepUnblocked, StepRows, StepApart DEF Severing
<1>2. Severing => BlockedApart
  BY DEF Severing
<1> QED
  BY <1>1, <1>2, InitSound, StepSound, InitSevering, PTL DEF Spec

-----------------------------------------------------------------------------
(* Threads are wanted by both. *)

\* Whoever a thread's first message is of agreed to it, unless the other one started
\* it again; an open one both did, but for slips; and one is not closed before it has
\* a message.
Wanted(p, row) ==
  /\ row.agreed \subseteq p /\ row.first \in p \cup {NoUser}
  /\ row.first # NoUser /\ "reversed" \notin row.slips => row.first \in row.agreed
  /\ row.status = "open" /\ row.slips = {} => row.agreed = p
  /\ row.status = "closed" => row.first # NoUser
  /\ row.status = "none" => row.first = NoUser

\* Who is about to write agreed, unless there is a first message by now; who is about
\* to decide is the other one.
TalkRow(q, row) ==
  /\ row.status # "none"
  /\ q.op \in {"create", "say"} => q.me \in row.agreed \/ row.first # NoUser
  /\ q.op \in {"open", "close"} => row.first = q.other

ThreadsWanted == \A p \in Pairs : p \notin silent => Wanted(p, thread[p])

TalkersWanted ==
  \A r \in Requests :
    request[r].op \in Talk /\ ThreadOf(r) \notin silent => TalkRow(request[r], thread[ThreadOf(r)])

Consent == ThreadsWanted /\ TalkersWanted

\* What no step undoes: that there is a thread, its first message, and, as long as
\* there is none, who agreed.
Forward(row, next) ==
  /\ next.status # "none"
  /\ row.first # NoUser => next.first = row.first
  /\ \A u \in row.agreed : u \in next.agreed \/ next.first # NoUser

LEMMA ConsentKept ==
  ASSUME Sound, Consent, silent \subseteq silent',
         \A p \in Pairs : p \notin silent' =>
            \/ thread'[p] = thread[p]
            \/ Wanted(p, thread'[p]) /\ Forward(thread[p], thread'[p]),
         \A r \in Requests :
            \/ Over(r) \/ GoesOn(r)
            \/ request'[r].op \in Talk /\ ThreadOf(r)' \notin silent'
                 => TalkRow(request'[r], thread'[ThreadOf(r)'])
  PROVE  Consent'
<1>1. ThreadsWanted'
  BY DEF Consent, ThreadsWanted
<1>2. TalkersWanted'
  <2>1. SUFFICES ASSUME NEW r \in Requests, request'[r].op \in Talk, ThreadOf(r)' \notin silent', GoesOn(r)
                 PROVE  TalkRow(request'[r], thread'[ThreadOf(r)'])
    BY IdleFacts DEF TalkersWanted, Over, Talk
  <2> DEFINE p == ThreadOf(r)
  <2>2. ThreadOf(r)' = p /\ request[r].op \in Talk
    BY <2>1 DEF GoesOn, ThreadOf
  <2>3. p \in Pairs /\ request[r].other \in Users
    BY <2>2, ThreadOfKnown
  <2>4. TalkRow(request[r], thread[p])
    BY <2>1, <2>2 DEF Consent, TalkersWanted
  <2>5. thread'[p] = thread[p] \/ Forward(thread[p], thread'[p])
    BY <2>1, <2>2, <2>3
  <2> HIDE DEF p
  <2>6. TalkRow(request[r], thread'[p])
    BY <2>3, <2>4, <2>5, UsersAssumption DEF TalkRow, Forward
  <2> QED
    BY <2>1, <2>2, <2>6 DEF TalkRow, GoesOn
<1> QED
  BY <1>1, <1>2 DEF Consent

\* A row that is rewritten.
LEMMA RewriteKept ==
  ASSUME Sound, Consent, silent \subseteq silent', NEW p \in Pairs, NEW row, Rewrites(p, row),
         p \notin silent' => Wanted(p, row) /\ Forward(thread[p], row),
         \A r \in Requests :
            \/ Over(r) \/ GoesOn(r)
            \/ request'[r].op \in Talk /\ ThreadOf(r)' \notin silent'
                 => TalkRow(request'[r], thread'[ThreadOf(r)'])
  PROVE  Consent'
<1>1. \A o \in Pairs : thread'[o] = IF o = p THEN row ELSE thread[o]
  BY DEF Rewrites, Sound, TypeOK
<1>2. \A o \in Pairs : o \notin silent' =>
        thread'[o] = thread[o] \/ (Wanted(o, thread'[o]) /\ Forward(thread[o], thread'[o]))
  <2>1. SUFFICES ASSUME NEW o \in Pairs, o \notin silent'
                 PROVE  thread'[o] = thread[o] \/ (Wanted(o, thread'[o]) /\ Forward(thread[o], thread'[o]))
    OBVIOUS
  <2>2. CASE o = p
    <3>1. thread'[o] = row /\ Wanted(p, row) /\ Forward(thread[p], row)
      BY <1>1, <2>1, <2>2
    <3> QED
      BY <2>2, <3>1
  <2>3. CASE o # p
    BY <1>1, <2>3
  <2> QED
    BY <2>2, <2>3
<1> QED
  BY <1>2, ConsentKept

LEMMA StartConsent ==
  ASSUME Sound, Consent, NEW r \in Requests, NEW u \in Users, NEW v \in Users, Start(r, u, v)
  PROVE  Consent'
<1> DEFINE p == {u, v}
           row == thread[p]
           new == StartRow(u, v)
<1>1. /\ p \in Pairs /\ row \in ThreadRows /\ Rewrites(p, new) /\ new \in ThreadRows
      /\ UNCHANGED silent /\ u # v
  BY StartRows DEF Start
<1>2. row.status \in ThreadStatuses
  BY <1>1 DEF ThreadRows
<1>4. CASE row.status \in {"pending", "open"}
  <2>1. new = [WithMessage(row, u) EXCEPT !.agreed = WithMessage(row, u).agreed \cup {u}]
    BY <1>4 DEF StartRow
  <2>2. /\ new.status = row.status /\ new.agreed = row.agreed \cup {u} /\ new.slips = row.slips
        /\ new.first = IF row.first = NoUser THEN u ELSE row.first
    <3> HIDE DEF row, new
    <3>1. /\ WithMessage(row, u) \in ThreadRows
          /\ WithMessage(row, u).status = row.status /\ WithMessage(row, u).agreed = row.agreed
          /\ WithMessage(row, u).slips = row.slips
          /\ WithMessage(row, u).first = IF row.first = NoUser THEN u ELSE row.first
      BY <1>1, WithMessageTyped
    <3> QED
      BY <2>1, <3>1 DEF ThreadRows
  <2>3. Wanted(p, row) => Wanted(p, new) /\ Forward(row, new)
    BY <1>4, <2>2, UsersAssumption DEF Wanted, Forward
  <2>4. UNCHANGED request
    BY <1>2, <1>4 DEF Start
  <2>5. \A x \in Requests : GoesOn(x)
    BY <2>4 DEF GoesOn
  <2> QED
    BY <1>1, <2>3, <2>5, RewriteKept DEF Consent, ThreadsWanted
<1>5. CASE row.status = "closed"
  <2>1. new = WithMessage(Started(row, u, v), u)
    BY <1>5 DEF StartRow
  <2>2. /\ new.status = IF Follows(v, u) THEN "open" ELSE "pending"
        /\ new.agreed = IF Follows(v, u) THEN {u, v} ELSE {u}
        /\ new.slips = Turned(row, u)
        /\ new.first = IF row.first = NoUser THEN u ELSE row.first
    <3> DEFINE s == Started(row, u, v)
    <3>1. /\ s \in ThreadRows /\ s.first = row.first /\ s.slips = Turned(row, u)
          /\ s.status = IF Follows(v, u) THEN "open" ELSE "pending"
          /\ s.agreed = IF Follows(v, u) THEN {u, v} ELSE {u}
      <4>1. row \in ThreadRows
        BY <1>1
      <4> HIDE DEF row, new
      <4> QED
        BY <4>1, StartedTyped
    <3> HIDE DEF s
    <3>2. /\ WithMessage(s, u).status = s.status /\ WithMessage(s, u).agreed = s.agreed
          /\ WithMessage(s, u).slips = s.slips
          /\ WithMessage(s, u).first = IF s.first = NoUser THEN u ELSE s.first
      BY <3>1, WithMessageTyped
    <3>3. new = WithMessage(s, u)
      BY <2>1 DEF s
    <3> QED
      BY <3>1, <3>2, <3>3
  <2>6. "reversed" \notin new.slips => row.first \in {u, NoUser}
    BY <2>2 DEF Turned
  <2> HIDE DEF new, row
  <2>3. Wanted(p, row) => Wanted(p, new) /\ Forward(row, new)
    BY <1>5, <2>2, <2>6, UsersAssumption DEF Wanted, Forward
  <2> USE DEF new, row
  <2>4. UNCHANGED request
    BY <1>2, <1>5 DEF Start
  <2>5. \A x \in Requests : GoesOn(x)
    BY <2>4 DEF GoesOn
  <2> QED
    BY <1>1, <2>3, <2>5, RewriteKept DEF Consent, ThreadsWanted
<1>6. CASE row.status = "none"
  <2>1. new = Started(row, u, v)
    BY <1>6 DEF StartRow
  <2>2. /\ new.status = IF Follows(v, u) THEN "open" ELSE "pending"
        /\ new.agreed = IF Follows(v, u) THEN {u, v} ELSE {u}
        /\ new.slips = Turned(row, u)
        /\ new.first = row.first
    <3>1. /\ Started(row, u, v).first = row.first
          /\ Started(row, u, v).status = IF Follows(v, u) THEN "open" ELSE "pending"
          /\ Started(row, u, v).agreed = IF Follows(v, u) THEN {u, v} ELSE {u}
          /\ Started(row, u, v).slips = Turned(row, u)
      <4>1. row \in ThreadRows
        BY <1>1
      <4> HIDE DEF row, new
      <4> QED
        BY <4>1, StartedTyped
    <3> HIDE DEF new
    <3> QED
      BY <2>1, <3>1
  <2>3. Begin(r, "create", u, v, "none")
    BY <1>2, <1>6 DEF Start
  <2>4. \A x \in Requests : request'[x] = IF x = r THEN Fresh("create", u, v, "none") ELSE request[x]
    BY <2>3, BeginFacts DEF Sound
  <2>5. p \notin silent => Wanted(p, row)
    BY <1>1 DEF Consent, ThreadsWanted
  <2>6. p \notin silent => \A x \in Requests : request[x].op \in Talk => ThreadOf(x) # p
    BY <1>6 DEF Consent, TalkersWanted, TalkRow
  <2>7. thread' = [thread EXCEPT ![p] = new] /\ thread \in [Pairs -> ThreadRows]
    BY <1>1 DEF Rewrites, Sound, TypeOK
  <2>8. ThreadsWanted'
    <3>1. Wanted(p, row) => Wanted(p, new)
      BY <1>6, <2>2, UsersAssumption DEF Wanted
    <3> QED
      BY <1>1, <2>5, <2>7, <3>1 DEF Consent, ThreadsWanted
  <2>9. TalkersWanted'
    <3>1. SUFFICES ASSUME NEW x \in Requests, request'[x].op \in Talk, ThreadOf(x)' \notin silent
                   PROVE  TalkRow(request'[x], thread'[ThreadOf(x)'])
      BY <1>1 DEF TalkersWanted
    <3>2. CASE x = r
      <4>1. ThreadOf(x)' = p /\ request'[x].me = u /\ request'[x].op = "create"
        BY <2>4, <3>2 DEF ThreadOf, Fresh
      <4>2. thread'[p] = new
        BY <1>1, <2>7
      <4> QED
        BY <2>2, <4>1, <4>2 DEF TalkRow
    <3>3. CASE x # r
      <4>1. request'[x] = request[x] /\ ThreadOf(x)' = ThreadOf(x)
        BY <2>4, <3>3 DEF ThreadOf
      <4>2. ThreadOf(x) \in Pairs
        BY <3>1, <4>1, ThreadOfKnown
      <4>3. ThreadOf(x) # p
        BY <2>6, <3>1, <4>1
      <4>4. thread'[ThreadOf(x)] = thread[ThreadOf(x)]
        BY <2>7, <4>2, <4>3
      <4> QED
        BY <3>1, <4>1, <4>4 DEF Consent, TalkersWanted
    <3> QED
      BY <3>2, <3>3
  <2> QED
    BY <2>8, <2>9 DEF Consent
<1> QED
  BY <1>2, <1>4, <1>5, <1>6 DEF ThreadStatuses

LEMMA SendConsent ==
  ASSUME Sound, Consent, NEW r \in Requests, NEW u \in Users, NEW v \in Users, Send(r, u, v)
  PROVE  Consent'
<1> DEFINE p == {u, v}
           row == thread[p]
<1>1. /\ p \in Pairs /\ row \in ThreadRows /\ u # v /\ row.status \in {"pending", "open"}
      /\ Begin(r, "say", u, v, "none") /\ silent \subseteq silent'
  BY SendRows DEF Send, Answered
<1>2. \A x \in Requests : request'[x] = IF x = r THEN Fresh("say", u, v, "none") ELSE request[x]
  BY <1>1, BeginFacts DEF Sound
<1>3. ThreadOf(r)' = p /\ request'[r].me = u /\ request'[r].op = "say"
      /\ \A x \in Requests : x # r => GoesOn(x)
  BY <1>2 DEF ThreadOf, Fresh, GoesOn
<1>4. p \notin silent => Wanted(p, row)
  BY <1>1 DEF Consent, ThreadsWanted
<1>5. PICK new : /\ Rewrites(p, new)
                /\ \/ new = WantedBy(row, u) /\ ~Decides(u, row)
                   \/ new = AcceptedBy(row, u) /\ Answered(p)
  BY SendRows
<1>6. thread'[p] = new
  BY <1>1, <1>5 DEF Rewrites, Sound, TypeOK
<1> HIDE DEF row
<1>7. /\ new.agreed = row.agreed \cup {u} /\ new.first = row.first
      /\ new.status \in {row.status, "open"} /\ ("reversed" \in row.slips => "reversed" \in new.slips)
  <2>1. CASE new = WantedBy(row, u)
    BY <1>1, <2>1, WantedByTyped
  <2>2. CASE new = AcceptedBy(row, u)
    <3>1. /\ new.agreed = row.agreed \cup {u} /\ new.first = row.first /\ new.status = "open"
          /\ new.slips = IF u = row.first THEN row.slips \cup {"forced"} ELSE row.slips
      BY <1>1, <2>2, AcceptedByTyped
    <3> QED
      BY <3>1
  <2> QED
    BY <1>5, <2>1, <2>2
<1>8. p \notin silent' /\ new.slips = {} /\ new.status = "open" => new.agreed = p
  <2>1. CASE new = WantedBy(row, u)
    BY <1>1, <1>4, <2>1, WantedByTyped DEF Wanted
  <2>2. CASE new = AcceptedBy(row, u) /\ Answered(p)
    <3>1. SUFFICES ASSUME p \notin silent', new.slips = {}
                   PROVE  row.agreed \cup {u} = p
      BY <1>7
    <3>2. row.slips = {} /\ u # row.first
      <4>1. new.slips = IF u = row.first THEN row.slips \cup {"forced"} ELSE row.slips
        BY <1>1, <2>2, AcceptedByTyped
      <4> QED
        BY <3>1, <4>1
    <3>3. row.first # NoUser
      BY <1>1, <2>2, <3>1 DEF Answered, row
    <3> QED
      BY <1>1, <1>4, <3>1, <3>2, <3>3 DEF Wanted
  <2> QED
    BY <1>5, <2>1, <2>2
<1>9. p \notin silent' => Wanted(p, new) /\ Forward(row, new) /\ u \in new.agreed
  BY <1>1, <1>4, <1>7, <1>8 DEF Wanted, Forward
<1>10. ThreadOf(r)' \notin silent' => TalkRow(request'[r], thread'[ThreadOf(r)'])
  BY <1>3, <1>6, <1>7, <1>9 DEF TalkRow, Forward
<1> QED
  BY <1>1, <1>3, <1>5, <1>9, <1>10, RewriteKept DEF row

LEMMA AnswerConsent ==
  ASSUME Sound, Consent, NEW r \in Requests, NEW u \in Users, NEW v \in Users, Answer(r, u, v)
  PROVE  Consent'
<1> DEFINE p == {u, v}
           row == thread[p]
<1>1. /\ p \in Pairs /\ u # v /\ Decides(u, row) /\ Answered(p) /\ UNCHANGED thread
  BY PairOfTwo DEF Answer
<1>2. PICK op \in {"open", "close"} : Begin(r, op, u, v, "none")
  BY DEF Answer
<1>3. \A x \in Requests : request'[x] = IF x = r THEN Fresh(op, u, v, "none") ELSE request[x]
  BY <1>2, BeginFacts DEF Sound
<1>4. ThreadOf(r)' = p /\ request'[r].other = v /\ request'[r].op = op
      /\ \A x \in Requests : x # r => GoesOn(x)
  BY <1>3 DEF ThreadOf, Fresh, GoesOn
<1>5. p \notin silent' => p \notin silent /\ row.first # NoUser /\ row.first # u /\ row.status = "pending"
  BY <1>1 DEF Answered, Decides
<1>6. p \notin silent' => row.first = v
  BY <1>1, <1>5 DEF Consent, ThreadsWanted, Wanted
<1>7. ThreadOf(r)' \notin silent' => TalkRow(request'[r], thread'[ThreadOf(r)'])
  BY <1>1, <1>2, <1>4, <1>5, <1>6 DEF TalkRow
<1>8. silent \subseteq silent'
  BY <1>1 DEF Answered
<1> QED
  BY <1>1, <1>4, <1>7, <1>8, ConsentKept

LEMMA SayConsent ==
  ASSUME Sound, Consent, NEW r \in Requests, Say(r)
  PROVE  Consent'
<1> DEFINE p == ThreadOf(r)
           q == request[r]
           row == thread[p]
           new == WithMessage(row, q.me)
<1>1. q.op \in {"create", "say"} /\ q.op \in Talk /\ row \in ThreadRows /\ Rewrites(p, new)
  BY SayRows DEF Say
<1>2. p \in Pairs /\ q.me \in Users /\ q.me \in p
  BY <1>1, ThreadOfKnown DEF ThreadOf
<1>3. /\ new.status = row.status /\ new.agreed = row.agreed /\ new.slips = row.slips
      /\ new.first = IF row.first = NoUser THEN q.me ELSE row.first
  BY <1>1, <1>2, WithMessageTyped
<1>4. UNCHANGED silent /\ \A x \in Requests : Over(x) \/ GoesOn(x)
  BY OthersGoOn, Untouched DEF NothingBegins
<1>5. p \notin silent => Wanted(p, row) /\ TalkRow(q, row)
  BY <1>1, <1>2 DEF Consent, ThreadsWanted, TalkersWanted
<1> HIDE DEF new, row, p, q
<1>6. p \notin silent => Wanted(p, new) /\ Forward(row, new)
  BY <1>1, <1>2, <1>3, <1>5, UsersAssumption DEF Wanted, TalkRow, Forward
<1> QED
  BY <1>1, <1>2, <1>4, <1>6, RewriteKept DEF row

LEMMA DecideConsent ==
  ASSUME Sound, Consent, NEW r \in Requests, Decide(r)
  PROVE  Consent'
<1> DEFINE p == ThreadOf(r)
           q == request[r]
           row == thread[p]
           new == DecideRow(row, q)
<1>1. q.op \in {"open", "close"} /\ q.op \in Talk /\ row \in ThreadRows /\ Rewrites(p, new)
  BY DecideRows DEF Decide
<1>2. p \in Pairs /\ p = {q.me, q.other} /\ q.me # q.other /\ q.other \in Users
  BY <1>1, ThreadOfKnown DEF ThreadOf
<1>3. /\ new.status = IF q.op = "open" THEN "open" ELSE "closed"
      /\ new.agreed = IF q.op = "open" THEN row.agreed \cup {q.me} ELSE row.agreed \ {q.me}
      /\ new.slips = IF q.op = "open" THEN row.slips ELSE row.slips \ {"forced"}
      /\ new.first = row.first
  BY <1>1 DEF DecideRow, ThreadRows
<1>4. UNCHANGED silent /\ \A x \in Requests : Over(x) \/ GoesOn(x)
  BY OthersGoOn, Untouched DEF NothingBegins
<1>5. p \notin silent => Wanted(p, row) /\ TalkRow(q, row)
  BY <1>1, <1>2 DEF Consent, ThreadsWanted, TalkersWanted
<1> HIDE DEF new, row, p, q
<1>6. p \notin silent => row.first = q.other /\ row.agreed \subseteq p
                         /\ ("reversed" \notin row.slips => q.other \in row.agreed)
  BY <1>1, <1>2, <1>5, UsersAssumption DEF Wanted, TalkRow
<1>7. p \notin silent => Wanted(p, new) /\ Forward(row, new)
  BY <1>1, <1>2, <1>3, <1>6, UsersAssumption DEF Wanted, Forward
<1> QED
  BY <1>1, <1>2, <1>4, <1>7, RewriteKept DEF row

LEMMA StepConsent ==
  Sound /\ Consent /\ [Next]_vars => Consent'
<1> SUFFICES ASSUME Sound, Consent, [Next]_vars PROVE Consent'
  OBVIOUS
<1>1. ASSUME NothingBegins, UNCHANGED <<thread, silent>> PROVE Consent'
  BY <1>1, OthersGoOn, ConsentKept
<1>2. ASSUME NEW r \in Requests, NEW u \in Users, NEW v \in Users,
             AskToFollow(r, u, v) \/ AnswerFollow(r, u, v)
      PROVE  Consent'
  <2>1. PICK op \in {"follow", "admit", "refuse"}, status \in {"none", "pending", "accepted"} : Begin(r, op, u, v, status)
    BY <1>2 DEF AskToFollow, AnswerFollow
  <2>2. \A x \in Requests : GoesOn(x) \/ request'[x].op \notin Talk
    <3>1. \A x \in Requests : request'[x] = IF x = r THEN Fresh(op, u, v, status) ELSE request[x]
      BY <2>1, BeginFacts DEF Sound
    <3>2. Fresh(op, u, v, status).op \notin Talk
      BY DEF Fresh, Talk
    <3> QED
      BY <3>1, <3>2 DEF GoesOn
  <2> QED
    BY <1>2, <2>2, Untouched, ConsentKept
<1> QED
  BY <1>1, <1>2, StartConsent, SendConsent, AnswerConsent, SayConsent, DecideConsent, Untouched
  DEF Next, NothingBegins, ReadAndCommit, vars

LEMMA InitConsent == Init => Consent
<1> SUFFICES ASSUME Init PROVE Consent
  OBVIOUS
<1>1. \A r \in Requests : request[r].op = "none"
  BY IdleFacts DEF Init
<1>2. \A p \in Pairs : Wanted(p, thread[p])
  BY DEF Init, Wanted, NoThread
<1> QED
  BY <1>1, <1>2 DEF Consent, ThreadsWanted, TalkersWanted, Talk

\* Whether messages come by send_message or over the socket, and whoever starts a
\* closed thread again: one is open only between two people who both did something to
\* want it, however their requests interleave, unless the socket opened it for a message
\* of whoever had asked, the one who had been asked started it again, or it was answered
\* before its first message was stored.
THEOREM OpenByConsent == Spec => []ConsentToOpen
<1>1. Consent => ConsentToOpen
  BY DEF Consent, ThreadsWanted, Wanted, ConsentToOpen
<1> QED
  BY <1>1, InitSound, StepSound, InitConsent, StepConsent, PTL DEF Spec

\* list_inbox and list_requests tell the two sides apart by the sender of the oldest
\* message, and rightly until the one who had been asked starts the thread again:
\* whoever has not agreed to a request finds it among their requests, the other one in
\* their inbox.
THEOREM RequestsArrive == Spec => []RequestReachesRecipient
<1>1. Consent => RequestReachesRecipient
  <2>1. SUFFICES ASSUME Consent, NEW p \in Pairs, NEW u \in p, thread[p].status = "pending",
                        thread[p].first # NoUser, thread[p].agreed # p,
                        "reversed" \notin thread[p].slips, p \notin silent
                 PROVE  IF u \in thread[p].agreed
                        THEN InInbox(u, thread[p]) /\ ~InRequests(u, thread[p])
                        ELSE InRequests(u, thread[p]) /\ ~InInbox(u, thread[p])
    BY DEF RequestReachesRecipient
  <2>2. Wanted(p, thread[p])
    BY <2>1 DEF Consent, ThreadsWanted
  <2>3. PICK a \in Users, b \in Users : a # b /\ p = {a, b}
    BY TwoOfPair
  <2>4. u \in thread[p].agreed <=> u = thread[p].first
    BY <2>1, <2>2, <2>3 DEF Wanted
  <2> QED
    BY <2>1, <2>4 DEF InInbox, InRequests
<1> QED
  BY <1>1, InitSound, StepSound, InitConsent, StepConsent, PTL DEF Spec

-----------------------------------------------------------------------------
(* Community: its requests and rows. *)

\* What a request is known to be about.
FilledRow(q) ==
  /\ q.op = "none" => q = Unasked
  /\ q.op # "none" => q.user \in Users
  /\ q.op \in {"like", "comment", "shelve"} => q.on \in Contents
  /\ q.op = "report" => q.on \in Targets
  /\ q.op = "shelve" => q.shelf \in Series
  /\ q.op = "set" => q.on \in Addresses
  /\ q.op = "tell" => q.on \in Targets \cup {NoTarget}

RowsFilled == \A r \in Requests : FilledRow(asked[r])

\* A scene that can be seen has somebody who made it.
ScenesAuthored == \A c \in Contents : Visible(c) => content[c].author \in Users

CommunitySound == CommunityTypeOK /\ RowsFilled /\ ScenesAuthored

LEMMA NobodyAsking == Unasked \in AskedRows /\ Unasked.op = "none" /\ FilledRow(Unasked)
  /\ Unasked.user = NoUser
BY DEF Unasked, AskedRows, FilledRow

LEMMA InitCommunity ==
  ASSUME CommunityInit
  PROVE  CommunitySound
<1>1. CommunityTypeOK
  BY NobodyAsking DEF CommunityInit, CommunityTypeOK, NoComment, NoReport, NoAddress,
     Statuses
<1>2. RowsFilled
  BY NobodyAsking DEF CommunityInit, RowsFilled
<1>3. ScenesAuthored
  BY DEF CommunityInit, ScenesAuthored, Visible
<1> QED
  BY <1>1, <1>2, <1>3 DEF CommunitySound

LEMMA RowReplaced ==
  ASSUME CommunitySound, NEW r \in Requests, NEW q \in AskedRows, FilledRow(q),
         asked' = [asked EXCEPT ![r] = q]
  PROVE  /\ asked' \in [Requests -> AskedRows]
         /\ asked'[r] = q
         /\ \A x \in Requests : x # r => asked'[x] = asked[x]
         /\ RowsFilled'
<1>1. /\ asked' \in [Requests -> AskedRows]
      /\ asked'[r] = q
      /\ \A x \in Requests : x # r => asked'[x] = asked[x]
  BY DEF CommunitySound, CommunityTypeOK
<1>2. \A x \in Requests : FilledRow(asked'[x])
  BY <1>1 DEF CommunitySound, RowsFilled
<1>3. RowsFilled'
  BY <1>2 DEF RowsFilled, FilledRow
<1> QED
  BY <1>1, <1>3

LEMMA RowDone ==
  ASSUME CommunitySound, NEW r \in Requests, Served(r)
  PROVE  /\ asked' \in [Requests -> AskedRows]
         /\ asked'[r] = Unasked
         /\ \A x \in Requests : x # r => asked'[x] = asked[x]
         /\ RowsFilled'
BY NobodyAsking, RowReplaced DEF Served

LEMMA RowTold ==
  ASSUME CommunitySound, NEW r \in Requests, NEW t \in Targets \cup {NoTarget},
         asked[r].op # "none", ThenTell(r, t)
  PROVE  /\ asked' \in [Requests -> AskedRows]
         /\ \/ asked'[r] = Unasked
            \/ asked'[r].op = "tell" /\ asked'[r].user = asked[r].user
         /\ \A x \in Requests : x # r => asked'[x] = asked[x]
         /\ RowsFilled'
<1> DEFINE q == [asked[r] EXCEPT !.op = "tell", !.on = t]
<1>1. CASE asked' = [asked EXCEPT ![r].op = "tell", ![r].on = t]
  <2>1. asked \in [Requests -> AskedRows] /\ FilledRow(asked[r])
    BY DEF CommunitySound, CommunityTypeOK, RowsFilled
  <2>2. q \in AskedRows /\ q.op = "tell" /\ q.user = asked[r].user /\ q.on = t
    BY <2>1 DEF AskedRows
  <2>3. FilledRow(q)
    BY <2>1, <2>2 DEF FilledRow
  <2>4. asked' = [asked EXCEPT ![r] = q]
    BY <1>1, <2>1 DEF AskedRows
  <2> HIDE DEF q
  <2> QED
    BY <2>2, <2>3, <2>4, RowReplaced
<1>2. CASE Served(r)
  BY <1>2, RowDone
<1> QED
  BY <1>1, <1>2 DEF ThenTell

LEMMA RowLooked ==
  ASSUME CommunitySound, NEW r \in Requests,
         NEW op \in {"like", "comment", "report", "address"},
         NEW u \in Users, NEW t, Look(r, op, u, t),
         \/ op = "address" /\ t = NoTarget
         \/ op = "report" /\ t \in Targets
         \/ t \in Contents
  PROVE  /\ asked' \in [Requests -> AskedRows]
         /\ asked'[r].op = op /\ asked'[r].user = u /\ asked'[r].on = t
         /\ asked[r] = Unasked /\ u \notin closed
         /\ \A x \in Requests : x # r => asked'[x] = asked[x]
         /\ RowsFilled'
         /\ UNCHANGED rows
<1> DEFINE q == [Unasked EXCEPT !.op = op, !.user = u, !.on = t]
<1>1. q \in AskedRows /\ q.op = op /\ q.user = u /\ q.on = t
  BY DEF AskedRows, Targets, Unasked
<1>2. FilledRow(q)
  BY <1>1 DEF FilledRow, Targets
<1>3. asked' = [asked EXCEPT ![r] = q] /\ asked[r] = Unasked /\ u \notin closed
  BY DEF Look, Free, SignedIn
<1>4. UNCHANGED rows
  BY DEF Look
<1> HIDE DEF q
<1>5. /\ asked' \in [Requests -> AskedRows]
      /\ asked'[r] = q
      /\ \A x \in Requests : x # r => asked'[x] = asked[x]
      /\ RowsFilled'
  BY <1>1, <1>2, <1>3, RowReplaced
<1> QED
  BY <1>1, <1>3, <1>4, <1>5

LEMMA RowChosen ==
  ASSUME CommunitySound, NEW r \in Requests, NEW u \in Users,
         NEW op \in {"home", "set"}, NEW a \in Addresses \cup {NoTarget},
         op = "set" => a \in Addresses, ChooseDefault(r, op, u, a)
  PROVE  /\ asked' \in [Requests -> AskedRows]
         /\ asked'[r].op = op /\ asked'[r].user = u /\ asked'[r].on = a
         /\ asked[r] = Unasked /\ u \notin closed
         /\ \A x \in Requests : x # r => asked'[x] = asked[x]
         /\ RowsFilled'
         /\ address' = ClearDefault(u)
<1> DEFINE q == [Unasked EXCEPT !.op = op, !.user = u, !.on = a]
<1>1. q \in AskedRows /\ q.op = op /\ q.user = u /\ q.on = a
  BY DEF AskedRows, Unasked
<1>2. FilledRow(q)
  BY <1>1 DEF FilledRow
<1>3. asked' = [asked EXCEPT ![r] = q] /\ asked[r] = Unasked /\ u \notin closed
      /\ address' = ClearDefault(u)
  BY DEF ChooseDefault, Free, SignedIn
<1> HIDE DEF q
<1>5. /\ asked' \in [Requests -> AskedRows]
      /\ asked'[r] = q
      /\ \A x \in Requests : x # r => asked'[x] = asked[x]
      /\ RowsFilled'
  BY <1>1, <1>2, <1>3, RowReplaced
<1> QED
  BY <1>1, <1>3, <1>5

LEMMA RowShelved ==
  ASSUME CommunitySound, NEW r \in Requests, NEW s \in Series, NEW c \in Contents, Shelve(r, s, c)
  PROVE  /\ asked' \in [Requests -> AskedRows]
         /\ asked'[r].op = "shelve" /\ asked'[r].user = content[c].author
         /\ asked'[r].on = c /\ asked'[r].shelf = s
         /\ asked[r] = Unasked /\ content[c].author \in Users \ closed
         /\ \A x \in Requests : x # r => asked'[x] = asked[x]
         /\ RowsFilled'
         /\ UNCHANGED rows
<1> DEFINE u == content[c].author
           q == [op |-> "shelve", user |-> u, on |-> c, shelf |-> s]
<1>1. content[c].author \in Users \cup {NoUser} /\ u \notin closed
  BY DEF CommunitySound, CommunityTypeOK, Shelve, SignedIn
<1>2. u # NoUser
  <2>1. Visible(c)
    BY DEF Shelve
  <2> QED
    BY <2>1, UsersAssumption DEF CommunitySound, ScenesAuthored
<1>3. q \in AskedRows /\ FilledRow(q)
  BY <1>1, <1>2 DEF AskedRows, FilledRow, Targets
<1>4. asked' = [asked EXCEPT ![r] = q] /\ asked[r] = Unasked /\ UNCHANGED rows
  BY DEF Shelve, Free
<1> HIDE DEF q
<1>5. /\ asked' \in [Requests -> AskedRows]
      /\ asked'[r] = q
      /\ \A x \in Requests : x # r => asked'[x] = asked[x]
      /\ RowsFilled'
  BY <1>3, <1>4, RowReplaced
<1> QED
  BY <1>1, <1>2, <1>4, <1>5 DEF q

LEMMA ChoosingSound ==
  ASSUME CommunitySound, NEW r \in Requests, NEW u \in Users,
         NEW op \in {"home", "set"}, NEW a \in Addresses \cup {NoTarget},
         op = "set" => a \in Addresses, ChooseDefault(r, op, u, a)
  PROVE  CommunitySound'
<1>1. asked' \in [Requests -> AskedRows] /\ RowsFilled' /\ address' = ClearDefault(u)
  BY RowChosen
<1>2. address' \in [Addresses -> [by : Users \cup {NoUser}, home : BOOLEAN]]
  BY <1>1 DEF ClearDefault, CommunitySound, CommunityTypeOK
<1> QED
  BY <1>1, <1>2 DEF ChooseDefault, CommunitySound, CommunityTypeOK, ScenesAuthored,
     Visible

LEMMA DecidingSound ==
  ASSUME CommunitySound, NEW p \in Reports, NEW d \in {"close", "remove"}, DecideReport(p, d)
  PROVE  CommunitySound'
<1> DEFINE t == report[p].on
<1>1. report[p].by \in Users \cup {NoUser} /\ t \in Targets \cup {NoTarget}
  BY DEF CommunitySound, CommunityTypeOK
<1>2. \/ UNCHANGED <<content, comment>>
      \/ RemoveReported(t)
  BY DEF DecideReport
<1>3. content' \in [Contents -> [author : Users \cup {NoUser}, status : Statuses]]
      /\ \A c \in Contents : \/ content'[c] = content[c]
                             \/ c = t /\ content'[c] = TakenDown(c)
  <2>1. CASE UNCHANGED content
    BY <2>1 DEF CommunitySound, CommunityTypeOK
  <2>2. CASE t \in Contents /\ content' = [content EXCEPT ![t] = TakenDown(t)]
    <3>1. TakenDown(t) \in [author : Users \cup {NoUser}, status : Statuses]
      <4>1. content[t] \in [author : Users \cup {NoUser}, status : Statuses]
        BY <2>2 DEF CommunitySound, CommunityTypeOK
      <4> QED
        BY <4>1 DEF TakenDown, Statuses
    <3> QED
      BY <2>2, <3>1 DEF CommunitySound, CommunityTypeOK
  <2> QED
    BY <1>2, <2>1, <2>2 DEF RemoveReported
<1>4. ScenesAuthored'
  <2> SUFFICES ASSUME NEW c \in Contents, Visible(c)'
               PROVE  content'[c].author \in Users
    BY DEF ScenesAuthored
  <2>1. CASE content'[c] = content[c]
    BY <2>1 DEF CommunitySound, ScenesAuthored, Visible
  <2>2. CASE c = t /\ content'[c] = TakenDown(c)
    BY <2>2, <1>3 DEF Visible, TakenDown, CommunitySound, CommunityTypeOK
  <2> QED
    BY <2>1, <2>2, <1>3
<1>5. comment' \in [Comments -> [by : Users \cup {NoUser}, on : Contents \cup {NoTarget}]]
  BY <1>2 DEF RemoveReported, CommunitySound, CommunityTypeOK, NoComment
<1>6. report' \in [Reports -> [by : Users \cup {NoUser}, on : Targets \cup {NoTarget}]]
  BY DEF DecideReport, Closed, NoReport, CommunitySound, CommunityTypeOK
<1> QED
  BY <1>3, <1>4, <1>5, <1>6 DEF DecideReport, CommunitySound, CommunityTypeOK, RowsFilled,
     FilledRow

LEMMA StepCommunity ==
  ASSUME CommunitySound, [CommunityNext]_(communityVars)
  PROVE  CommunitySound'
<1>1. ASSUME NEW r \in Requests, NEW u \in Users, NEW c \in Contents, Like(r, u, c)
      PROVE  CommunitySound'
  <2>1. Look(r, "like", u, c)
    BY <1>1 DEF Like
  <2>2. /\ asked' \in [Requests -> AskedRows] /\ RowsFilled' /\ UNCHANGED rows
    BY <2>1, RowLooked
  <2>3. UNCHANGED histories
    BY <1>1 DEF Like
  <2> QED
    BY <2>2, <2>3 DEF CommunitySound, CommunityTypeOK, ScenesAuthored, Visible,
       rows, histories
<1>2. ASSUME NEW r \in Requests, NEW u \in Users, NEW c \in Contents, Comment(r, u, c)
      PROVE  CommunitySound'
  <2>1. Look(r, "comment", u, c)
    BY <1>2 DEF Comment
  <2>2. /\ asked' \in [Requests -> AskedRows] /\ RowsFilled' /\ UNCHANGED rows
    BY <2>1, RowLooked
  <2>3. UNCHANGED histories
    BY <1>2 DEF Comment
  <2> QED
    BY <2>2, <2>3 DEF CommunitySound, CommunityTypeOK, ScenesAuthored, Visible,
       rows, histories
<1>3. ASSUME NEW r \in Requests, NEW u \in Users, NEW t \in Targets, Report(r, u, t)
      PROVE  CommunitySound'
  <2>1. Look(r, "report", u, t)
    BY <1>3 DEF Report
  <2>2. /\ asked' \in [Requests -> AskedRows] /\ RowsFilled' /\ UNCHANGED rows
    BY <2>1, RowLooked
  <2>3. doubled' \subseteq Users \X Targets /\ UNCHANGED <<overtook, split, torn>>
    BY <1>3 DEF Report, CommunitySound, CommunityTypeOK
  <2> QED
    BY <2>2, <2>3 DEF CommunitySound, CommunityTypeOK, ScenesAuthored, Visible, rows
<1>4. ASSUME NEW r \in Requests, NEW s \in Series, NEW c \in Contents, Shelve(r, s, c)
      PROVE  CommunitySound'
  <2>1. asked' \in [Requests -> AskedRows] /\ RowsFilled' /\ UNCHANGED rows
    BY <1>4, RowShelved
  <2>2. split' \subseteq Contents /\ UNCHANGED <<overtook, doubled, torn>>
    BY <1>4 DEF Shelve, CommunitySound, CommunityTypeOK
  <2> QED
    BY <2>1, <2>2 DEF CommunitySound, CommunityTypeOK, ScenesAuthored, Visible, rows
<1>5. ASSUME NEW r \in Requests, NEW u \in Users, Leave(r, u)
      PROVE  CommunitySound'
  <2> DEFINE q == [Unasked EXCEPT !.op = "leave", !.user = u]
  <2>1. q \in AskedRows /\ FilledRow(q)
    BY DEF Unasked, AskedRows, FilledRow
  <2>2. asked' = [asked EXCEPT ![r] = q]
    BY <1>5 DEF Leave
  <2> HIDE DEF q
  <2>3. asked' \in [Requests -> AskedRows] /\ RowsFilled'
    BY <2>1, <2>2, RowReplaced
  <2>4. /\ content' \in [Contents -> [author : Users \cup {NoUser}, status : Statuses]]
        /\ \A c \in Contents : content'[c].author = content[c].author
        /\ ScenesAuthored'
    BY <1>5 DEF Leave, CommunitySound, CommunityTypeOK, ScenesAuthored, Visible,
       TakenDown, Statuses, Takes
  <2> QED
    BY <1>5, <2>3, <2>4 DEF Leave, CommunitySound, CommunityTypeOK, histories
<1>6. ASSUME NEW r \in Requests, NEW u \in Users, NEW home \in BOOLEAN, NewAddress(r, u, home)
      PROVE  CommunitySound'
  <2>1. CASE Look(r, "address", u, NoTarget) /\ UNCHANGED histories
    <3>1. /\ asked' \in [Requests -> AskedRows] /\ RowsFilled' /\ UNCHANGED rows
      BY <2>1, RowLooked
    <3> QED
      BY <3>1, <2>1 DEF CommunitySound, CommunityTypeOK, ScenesAuthored, Visible,
         rows, histories
  <2>2. CASE ChooseDefault(r, "home", u, NoTarget)
    BY <2>2, ChoosingSound
  <2> QED
    BY <1>6, <2>1, <2>2 DEF NewAddress
<1>7. ASSUME NEW r \in Requests, NEW u \in Users, NEW a \in Addresses, SetDefault(r, u, a)
      PROVE  CommunitySound'
  BY <1>7, ChoosingSound DEF SetDefault
<1>8. ASSUME NEW r \in Requests, WriteAddress(r)
      PROVE  CommunitySound'
  <2>1. asked' \in [Requests -> AskedRows] /\ RowsFilled'
    BY <1>8, RowDone DEF WriteAddress
  <2>2. asked[r].user \in Users
    BY <1>8 DEF WriteAddress, Asking, CommunitySound, RowsFilled, FilledRow
  <2>3. address' \in [Addresses -> [by : Users \cup {NoUser}, home : BOOLEAN]]
    BY <1>8, <2>2 DEF WriteAddress, Asking, CommunitySound, CommunityTypeOK
  <2> QED
    BY <1>8, <2>1, <2>3 DEF WriteAddress, CommunitySound, CommunityTypeOK,
       ScenesAuthored, Visible, histories
<1>9. ASSUME NEW r \in Requests, WriteDefault(r)
      PROVE  CommunitySound'
  <2>1. asked' \in [Requests -> AskedRows] /\ RowsFilled'
    BY <1>9, RowDone DEF WriteDefault
  <2>2. address' \in [Addresses -> [by : Users \cup {NoUser}, home : BOOLEAN]]
    <3> DEFINE x == asked[r].on
               home == address[x].home \/ x \in Mine(asked[r].user)
    <3>1. address' = [address EXCEPT ![x].home = home]
      BY <1>9 DEF WriteDefault, Mine
    <3>2. home \in BOOLEAN
      OBVIOUS
    <3>3. address \in [Addresses -> [by : Users \cup {NoUser}, home : BOOLEAN]]
      BY DEF CommunitySound, CommunityTypeOK
    <3> HIDE DEF x, home
    <3> QED
      BY <3>1, <3>2, <3>3
  <2> QED
    BY <1>9, <2>1, <2>2 DEF WriteDefault, CommunitySound, CommunityTypeOK,
       ScenesAuthored, Visible, histories
<1>10. ASSUME NEW r \in Requests, WriteLike(r)
       PROVE  CommunitySound'
  <2>1. asked[r].user \in Users /\ asked[r].on \in Contents /\ asked[r].op # "none"
    BY <1>10 DEF WriteLike, Asking, CommunitySound, RowsFilled, FilledRow
  <2>2. asked' \in [Requests -> AskedRows] /\ RowsFilled'
    BY <1>10, <2>1, RowDone, RowTold DEF WriteLike, Targets
  <2>3. marks' \subseteq Kinds \X Users \X Contents
    BY <1>10, <2>1 DEF WriteLike, CommunitySound, CommunityTypeOK, Kinds
  <2> QED
    BY <1>10, <2>2, <2>3 DEF WriteLike, CommunitySound, CommunityTypeOK, ScenesAuthored,
       Visible, histories
<1>11. ASSUME NEW r \in Requests, WriteComment(r)
       PROVE  CommunitySound'
  <2>1. asked[r].user \in Users /\ asked[r].on \in Contents /\ asked[r].op # "none"
    BY <1>11 DEF WriteComment, Asking, CommunitySound, RowsFilled, FilledRow
  <2>2. asked' \in [Requests -> AskedRows] /\ RowsFilled'
    BY <1>11, <2>1, RowTold DEF WriteComment, Targets
  <2>3. comment' \in [Comments -> [by : Users \cup {NoUser}, on : Contents \cup {NoTarget}]]
    BY <1>11, <2>1 DEF WriteComment, CommunitySound, CommunityTypeOK
  <2> QED
    BY <1>11, <2>2, <2>3 DEF WriteComment, CommunitySound, CommunityTypeOK,
       ScenesAuthored, Visible, histories
<1>12. ASSUME NEW r \in Requests, WriteShelf(r)
       PROVE  CommunitySound'
  <2>1. asked[r].shelf \in Series /\ asked[r].on \in Contents
    BY <1>12 DEF WriteShelf, Asking, CommunitySound, RowsFilled, FilledRow
  <2>2. asked' \in [Requests -> AskedRows] /\ RowsFilled'
    BY <1>12, RowDone DEF WriteShelf
  <2> QED
    BY <1>12, <2>1, <2>2 DEF WriteShelf, CommunitySound, CommunityTypeOK,
       ScenesAuthored, Visible, histories
<1>13. ASSUME NEW r \in Requests, WriteReport(r)
       PROVE  CommunitySound'
  <2>1. asked[r].user \in Users /\ asked[r].on \in Targets /\ asked[r].op # "none"
    BY <1>13 DEF WriteReport, Asking, CommunitySound, RowsFilled, FilledRow
  <2>2. asked' \in [Requests -> AskedRows] /\ RowsFilled'
    BY <1>13, <2>1, RowTold DEF WriteReport
  <2>3. report' \in [Reports -> [by : Users \cup {NoUser}, on : Targets \cup {NoTarget}]]
    BY <1>13, <2>1 DEF WriteReport, CommunitySound, CommunityTypeOK
  <2> QED
    BY <1>13, <2>2, <2>3 DEF WriteReport, CommunitySound, CommunityTypeOK,
       ScenesAuthored, Visible, histories
<1>14. ASSUME NEW r \in Requests, Tell(r)
       PROVE  CommunitySound'
  <2>1. asked[r].user \in Users
    BY <1>14 DEF Tell, Asking, CommunitySound, RowsFilled, FilledRow
  <2>2. asked' \in [Requests -> AskedRows] /\ RowsFilled'
    BY <1>14, RowDone DEF Tell
  <2> QED
    BY <1>14, <2>1, <2>2 DEF Tell, CommunitySound, CommunityTypeOK, ScenesAuthored,
       Visible, histories
<1>15. ASSUME NEW r \in Requests, TellAdmins(r)
       PROVE  CommunitySound'
  <2>1. asked[r].user \in Users
    BY <1>15 DEF TellAdmins, Asking, CommunitySound, RowsFilled, FilledRow
  <2>2. asked' \in [Requests -> AskedRows] /\ RowsFilled'
    BY <1>15, RowDone DEF TellAdmins
  <2> QED
    BY <1>15, <2>1, <2>2 DEF TellAdmins, CommunitySound, CommunityTypeOK,
       ScenesAuthored, Visible, histories
<1>16. ASSUME NEW r \in Requests, Leaves(r)
       PROVE  CommunitySound'
  <2>1. asked[r].user \in Users
    BY <1>16 DEF Leaves, Asking, CommunitySound, RowsFilled, FilledRow
  <2>2. asked' \in [Requests -> AskedRows] /\ RowsFilled'
    BY <1>16, RowDone DEF Leaves
  <2>3. comment' \in [Comments -> [by : Users \cup {NoUser}, on : Contents \cup {NoTarget}]]
    BY <1>16 DEF Leaves, CommunitySound, CommunityTypeOK, NoComment
  <2> QED
    BY <1>16, <2>1, <2>2, <2>3 DEF Leaves, CommunitySound, CommunityTypeOK,
       ScenesAuthored, Visible
<1>17. ASSUME NEW r \in Requests, Dies(r)
       PROVE  CommunitySound'
  <2>1. asked' \in [Requests -> AskedRows] /\ RowsFilled'
    BY <1>17, RowDone DEF Dies
  <2> QED
    BY <1>17, <2>1 DEF Dies, CommunitySound, CommunityTypeOK, ScenesAuthored,
       Visible, rows, histories
<1>18. ASSUME NEW u \in Users, NEW c \in Contents, CreatePost(u, c)
       PROVE  CommunitySound'
  <2>1. /\ content' \in [Contents -> [author : Users \cup {NoUser}, status : Statuses]]
        /\ ScenesAuthored'
    BY <1>18 DEF CreatePost, CommunitySound, CommunityTypeOK, ScenesAuthored,
       Visible, Statuses
  <2> QED
    BY <1>18, <2>1 DEF CreatePost, CommunitySound, CommunityTypeOK, RowsFilled, FilledRow
<1>19. ASSUME NEW u \in Users, NEW c \in Contents, AddItem(u, c)
       PROVE  CommunitySound'
  BY <1>19 DEF AddItem, Filed, CommunitySound, CommunityTypeOK, ScenesAuthored,
     Visible, RowsFilled, FilledRow, Kinds, histories
<1>20. ASSUME NEW u \in Users, NEW c \in Contents, RemoveItem(u, c)
       PROVE  CommunitySound'
  BY <1>20 DEF RemoveItem, Unmarked, CommunitySound, CommunityTypeOK,
     ScenesAuthored, Visible, RowsFilled, FilledRow, histories
<1>21. ASSUME NEW u \in Users, NEW c \in Contents, Unlike(u, c)
       PROVE  CommunitySound'
  BY <1>21 DEF Unlike, Unmarked, CommunitySound, CommunityTypeOK, ScenesAuthored,
     Visible, RowsFilled, FilledRow, histories
<1>22. ASSUME NEW u \in Users, DeleteCollection(u)
       PROVE  CommunitySound'
  BY <1>22 DEF DeleteCollection, Unmarked, CommunitySound, CommunityTypeOK,
     ScenesAuthored, Visible, RowsFilled, FilledRow, histories
<1>23. ASSUME NEW c \in Contents, NEW s \in Statuses, PatchPost(c, s)
       PROVE  CommunitySound'
  <2>1. /\ content' \in [Contents -> [author : Users \cup {NoUser}, status : Statuses]]
        /\ ScenesAuthored'
    BY <1>23 DEF PatchPost, CommunitySound, CommunityTypeOK, ScenesAuthored, Visible
  <2> QED
    BY <1>23, <2>1 DEF PatchPost, CommunitySound, CommunityTypeOK, RowsFilled,
       FilledRow, histories
<1>24. ASSUME NEW c \in Contents, DeletePost(c)
       PROVE  CommunitySound'
  <2>1. /\ content' \in [Contents -> [author : Users \cup {NoUser}, status : Statuses]]
        /\ ScenesAuthored'
    BY <1>24 DEF DeletePost, CommunitySound, CommunityTypeOK, ScenesAuthored,
       Visible, TakenDown, Statuses
  <2> QED
    BY <1>24, <2>1 DEF DeletePost, CommunitySound, CommunityTypeOK, RowsFilled,
       FilledRow, histories
<1>25. ASSUME NEW u \in Users, NEW a \in Addresses, PatchAddress(u, a)
       PROVE  CommunitySound'
  BY <1>25 DEF PatchAddress, CommunitySound, CommunityTypeOK, ScenesAuthored,
     Visible, RowsFilled, FilledRow, histories
<1>26. ASSUME NEW u \in Users, NEW a \in Addresses, DeleteAddress(u, a)
       PROVE  CommunitySound'
  BY <1>26 DEF DeleteAddress, NoAddress, CommunitySound, CommunityTypeOK,
     ScenesAuthored, Visible, RowsFilled, FilledRow, histories
<1>27. ASSUME NEW p \in Reports, NEW d \in {"close", "remove"}, DecideReport(p, d)
       PROVE  CommunitySound'
  BY <1>27, DecidingSound
<1>28. ASSUME NEW s \in Series, NEW c \in Contents, Unshelve(s, c)
       PROVE  CommunitySound'
  BY <1>28 DEF Unshelve, CommunitySound, CommunityTypeOK, ScenesAuthored, Visible,
     RowsFilled, FilledRow
<1>29. CASE UNCHANGED communityVars
  BY <1>29 DEF communityVars, CommunitySound, CommunityTypeOK, ScenesAuthored, Visible,
     RowsFilled, FilledRow
<1> QED
  BY <1>1, <1>2, <1>3, <1>4, <1>5, <1>6, <1>7, <1>8, <1>9, <1>10, <1>11, <1>12, <1>13,
     <1>14, <1>15, <1>16, <1>17, <1>18, <1>19, <1>20, <1>21, <1>22, <1>23, <1>24, <1>25,
     <1>26, <1>27, <1>28, <1>29 DEF CommunityNext

-----------------------------------------------------------------------------
(* What a step of Community moves: reports, series, or addresses. *)

InFlight(r, u, t) == Asking(r, "report") /\ asked[r].user = u /\ asked[r].on = t
Shelving(r, c) == Asking(r, "shelve") /\ asked[r].on = c
Choosing(r, u) == asked[r].op \in {"home", "set"} /\ asked[r].user = u

Starts(op) == \E r \in Requests : asked'[r] # asked[r] /\ asked'[r].op = op

ReportsRest == UNCHANGED <<report, doubled>> /\ ~Starts("report")
ShelvesRest == UNCHANGED <<shelf, split>> /\ ~Starts("shelve")
HomesRest == UNCHANGED <<address, torn>> /\ ~Starts("home") /\ ~Starts("set")

Chooses(r, u) ==
  \/ ChooseDefault(r, "home", u, NoTarget)
  \/ \E a \in Addresses : ChooseDefault(r, "set", u, a)

ReportsMove ==
  \/ \E r \in Requests, u \in Users, t \in Targets : Report(r, u, t)
  \/ \E r \in Requests : WriteReport(r)
  \/ \E p \in Reports, d \in {"close", "remove"} : DecideReport(p, d)

ShelvesMove ==
  \/ \E r \in Requests, s \in Series, c \in Contents : Shelve(r, s, c)
  \/ \E r \in Requests : WriteShelf(r)
  \/ \E s \in Series, c \in Contents : Unshelve(s, c)

HomesMove ==
  \/ \E r \in Requests, u \in Users : Chooses(r, u)
  \/ \E r \in Requests : WriteAddress(r) \/ WriteDefault(r)
  \/ \E u \in Users, a \in Addresses : PatchAddress(u, a) \/ DeleteAddress(u, a)

LEMMA OtherStarts ==
  ASSUME CommunitySound, NEW r \in Requests, NEW op,
         \A x \in Requests : x # r => asked'[x] = asked[x],
         asked'[r].op # op
  PROVE  ~Starts(op)
BY DEF Starts

LEMMA NobodyStarts ==
  ASSUME UNCHANGED asked, NEW op
  PROVE  ~Starts(op)
BY DEF Starts

LEMMA WhatMoves ==
  ASSUME CommunitySound, [CommunityNext]_(communityVars)
  PROVE  (ReportsRest \/ ReportsMove) /\ (ShelvesRest \/ ShelvesMove) /\ (HomesRest \/ HomesMove)
<1>1. ASSUME NEW r \in Requests, NEW u \in Users, NEW c \in Contents, Like(r, u, c)
      PROVE  ReportsRest /\ ShelvesRest /\ HomesRest
  <2>1. Look(r, "like", u, c)
    BY <1>1 DEF Like
  <2>2. /\ asked'[r].op = "like" /\ UNCHANGED rows
        /\ \A x \in Requests : x # r => asked'[x] = asked[x]
    BY <2>1, RowLooked
  <2> QED
    BY <1>1, <2>2, OtherStarts DEF Like, rows, histories, ReportsRest,
       ShelvesRest, HomesRest
<1>2. ASSUME NEW r \in Requests, NEW u \in Users, NEW c \in Contents, Comment(r, u, c)
      PROVE  ReportsRest /\ ShelvesRest /\ HomesRest
  <2>1. Look(r, "comment", u, c)
    BY <1>2 DEF Comment
  <2>2. /\ asked'[r].op = "comment" /\ UNCHANGED rows
        /\ \A x \in Requests : x # r => asked'[x] = asked[x]
    BY <2>1, RowLooked
  <2> QED
    BY <1>2, <2>2, OtherStarts DEF Comment, rows, histories, ReportsRest,
       ShelvesRest, HomesRest
<1>3. ASSUME NEW r \in Requests, NEW u \in Users, NEW t \in Targets, Report(r, u, t)
      PROVE  ShelvesRest /\ HomesRest
  <2>1. Look(r, "report", u, t)
    BY <1>3 DEF Report
  <2>2. /\ asked'[r].op = "report" /\ UNCHANGED rows
        /\ \A x \in Requests : x # r => asked'[x] = asked[x]
    BY <2>1, RowLooked
  <2> QED
    BY <1>3, <2>2, OtherStarts DEF Report, rows, histories, ReportsRest,
       ShelvesRest, HomesRest
<1>4. ASSUME NEW r \in Requests, NEW s \in Series, NEW c \in Contents, Shelve(r, s, c)
      PROVE  ReportsRest /\ HomesRest
  <2>1. /\ asked'[r].op = "shelve" /\ UNCHANGED rows
        /\ \A x \in Requests : x # r => asked'[x] = asked[x]
    BY <1>4, RowShelved
  <2> QED
    BY <1>4, <2>1, OtherStarts DEF Shelve, rows, ReportsRest, ShelvesRest, HomesRest
<1>5. ASSUME NEW r \in Requests, NEW u \in Users, Leave(r, u)
      PROVE  ReportsRest /\ ShelvesRest /\ HomesRest
  <2>1. /\ asked'[r].op = "leave"
        /\ \A x \in Requests : x # r => asked'[x] = asked[x]
    BY <1>5 DEF Leave, Unasked, CommunitySound, CommunityTypeOK
  <2> QED
    BY <1>5, <2>1, OtherStarts DEF Leave, histories, ReportsRest, ShelvesRest,
       HomesRest
<1>6. ASSUME NEW r \in Requests, NEW u \in Users, NEW home \in BOOLEAN, NewAddress(r, u, home)
      PROVE  ReportsRest /\ ShelvesRest /\ (HomesRest \/ Chooses(r, u))
  <2>1. CASE Look(r, "address", u, NoTarget) /\ UNCHANGED histories
    <3>1. /\ asked'[r].op = "address" /\ UNCHANGED rows
          /\ \A x \in Requests : x # r => asked'[x] = asked[x]
      BY <2>1, RowLooked
    <3> QED
      BY <3>1, <2>1, OtherStarts DEF rows, histories, ReportsRest, ShelvesRest,
         HomesRest
  <2>2. CASE ChooseDefault(r, "home", u, NoTarget)
    <3>1. /\ asked'[r].op = "home"
          /\ \A x \in Requests : x # r => asked'[x] = asked[x]
      BY <2>2, RowChosen
    <3> QED
      BY <2>2, <3>1, OtherStarts DEF ChooseDefault, Chooses, ReportsRest,
         ShelvesRest, HomesRest
  <2> QED
    BY <1>6, <2>1, <2>2 DEF NewAddress
<1>7. ASSUME NEW r \in Requests, NEW u \in Users, NEW a \in Addresses, SetDefault(r, u, a)
      PROVE  ReportsRest /\ ShelvesRest /\ Chooses(r, u)
  <2>1. /\ asked'[r].op = "set" /\ ChooseDefault(r, "set", u, a)
        /\ \A x \in Requests : x # r => asked'[x] = asked[x]
    BY <1>7, RowChosen DEF SetDefault
  <2> QED
    BY <2>1, OtherStarts DEF ChooseDefault, Chooses, ReportsRest, ShelvesRest, HomesRest
<1>8. ASSUME NEW r \in Requests, WriteAddress(r)
      PROVE  ReportsRest /\ ShelvesRest
  <2>1. /\ asked'[r].op = "none"
        /\ \A x \in Requests : x # r => asked'[x] = asked[x]
    BY <1>8, RowDone, NobodyAsking DEF WriteAddress
  <2> QED
    BY <1>8, <2>1, OtherStarts DEF WriteAddress, rows, histories,
       ReportsRest, ShelvesRest, HomesRest
<1>9. ASSUME NEW r \in Requests, WriteDefault(r)
      PROVE  ReportsRest /\ ShelvesRest
  <2>1. /\ asked'[r].op = "none"
        /\ \A x \in Requests : x # r => asked'[x] = asked[x]
    BY <1>9, RowDone, NobodyAsking DEF WriteDefault
  <2> QED
    BY <1>9, <2>1, OtherStarts DEF WriteDefault, rows, histories,
       ReportsRest, ShelvesRest, HomesRest
<1>10. ASSUME NEW r \in Requests, WriteLike(r)
       PROVE  ReportsRest /\ ShelvesRest /\ HomesRest
  <2>1. asked[r].op # "none" /\ asked[r].on \in Targets
    BY <1>10 DEF WriteLike, Asking, CommunitySound, RowsFilled, FilledRow,
       Targets
  <2>2. ThenTell(r, asked[r].on) \/ Served(r)
    BY <1>10 DEF WriteLike
  <2>3. \A x \in Requests : x # r => asked'[x] = asked[x]
    BY <2>1, <2>2, RowTold, RowDone
  <2>4. asked'[r].op \in {"none", "tell"}
    BY <2>1, <2>2, RowTold, RowDone, NobodyAsking
  <2> QED
    BY <1>10, <2>3, <2>4, OtherStarts DEF WriteLike, histories, ReportsRest,
       ShelvesRest, HomesRest
<1>11. ASSUME NEW r \in Requests, WriteComment(r)
       PROVE  ReportsRest /\ ShelvesRest /\ HomesRest
  <2>1. asked[r].op # "none" /\ asked[r].on \in Targets
    BY <1>11 DEF WriteComment, Asking, CommunitySound, RowsFilled, FilledRow,
       Targets
  <2>2. ThenTell(r, asked[r].on)
    BY <1>11 DEF WriteComment
  <2>3. \A x \in Requests : x # r => asked'[x] = asked[x]
    BY <2>1, <2>2, RowTold, RowDone
  <2>4. asked'[r].op \in {"none", "tell"}
    BY <2>1, <2>2, RowTold, RowDone, NobodyAsking
  <2> QED
    BY <1>11, <2>3, <2>4, OtherStarts DEF WriteComment, histories, ReportsRest,
       ShelvesRest, HomesRest
<1>12. ASSUME NEW r \in Requests, WriteShelf(r)
       PROVE  ReportsRest /\ HomesRest
  <2>1. /\ asked'[r].op = "none"
        /\ \A x \in Requests : x # r => asked'[x] = asked[x]
    BY <1>12, RowDone, NobodyAsking DEF WriteShelf
  <2> QED
    BY <1>12, <2>1, OtherStarts DEF WriteShelf, rows, histories,
       ReportsRest, ShelvesRest, HomesRest
<1>13. ASSUME NEW r \in Requests, WriteReport(r)
       PROVE  ShelvesRest /\ HomesRest
  <2>1. asked[r].op # "none" /\ ThenTell(r, NoTarget)
    BY <1>13 DEF WriteReport, Asking
  <2>2. \A x \in Requests : x # r => asked'[x] = asked[x]
    BY <2>1, RowTold
  <2>3. asked'[r].op \in {"none", "tell"}
    BY <2>1, RowTold, NobodyAsking
  <2> QED
    BY <1>13, <2>2, <2>3, OtherStarts DEF WriteReport, histories, ReportsRest,
       ShelvesRest, HomesRest
<1>14. ASSUME NEW r \in Requests, Tell(r)
       PROVE  ReportsRest /\ ShelvesRest /\ HomesRest
  <2>1. /\ asked'[r].op = "none"
        /\ \A x \in Requests : x # r => asked'[x] = asked[x]
    BY <1>14, RowDone, NobodyAsking DEF Tell
  <2> QED
    BY <1>14, <2>1, OtherStarts DEF Tell, rows, histories, ReportsRest,
       ShelvesRest, HomesRest
<1>15. ASSUME NEW r \in Requests, TellAdmins(r)
       PROVE  ReportsRest /\ ShelvesRest /\ HomesRest
  <2>1. /\ asked'[r].op = "none"
        /\ \A x \in Requests : x # r => asked'[x] = asked[x]
    BY <1>15, RowDone, NobodyAsking DEF TellAdmins
  <2> QED
    BY <1>15, <2>1, OtherStarts DEF TellAdmins, rows, histories,
       ReportsRest, ShelvesRest, HomesRest
<1>16. ASSUME NEW r \in Requests, Leaves(r)
       PROVE  ReportsRest /\ ShelvesRest /\ HomesRest
  <2>1. /\ asked'[r].op = "none"
        /\ \A x \in Requests : x # r => asked'[x] = asked[x]
    BY <1>16, RowDone, NobodyAsking DEF Leaves
  <2> QED
    BY <1>16, <2>1, OtherStarts DEF Leaves, rows, histories, ReportsRest,
       ShelvesRest, HomesRest
<1>17. ASSUME NEW r \in Requests, Dies(r)
       PROVE  ReportsRest /\ ShelvesRest /\ HomesRest
  <2>1. /\ asked'[r].op = "none"
        /\ \A x \in Requests : x # r => asked'[x] = asked[x]
    BY <1>17, RowDone, NobodyAsking DEF Dies
  <2> QED
    BY <1>17, <2>1, OtherStarts DEF Dies, rows, histories, ReportsRest,
       ShelvesRest, HomesRest
<1>18. ASSUME NEW u \in Users, NEW c \in Contents, CreatePost(u, c)
       PROVE  ReportsRest /\ ShelvesRest /\ HomesRest
  BY <1>18, NobodyStarts DEF CreatePost, histories, ReportsRest, ShelvesRest,
     HomesRest
<1>19. ASSUME NEW u \in Users, NEW c \in Contents, AddItem(u, c)
       PROVE  ReportsRest /\ ShelvesRest /\ HomesRest
  BY <1>19, NobodyStarts DEF AddItem, Filed, histories, ReportsRest,
     ShelvesRest, HomesRest
<1>20. ASSUME NEW u \in Users, NEW c \in Contents, RemoveItem(u, c)
       PROVE  ReportsRest /\ ShelvesRest /\ HomesRest
  BY <1>20, NobodyStarts DEF RemoveItem, Unmarked, histories, ReportsRest,
     ShelvesRest, HomesRest
<1>21. ASSUME NEW u \in Users, NEW c \in Contents, Unlike(u, c)
       PROVE  ReportsRest /\ ShelvesRest /\ HomesRest
  BY <1>21, NobodyStarts DEF Unlike, Unmarked, histories, ReportsRest,
     ShelvesRest, HomesRest
<1>22. ASSUME NEW u \in Users, DeleteCollection(u)
       PROVE  ReportsRest /\ ShelvesRest /\ HomesRest
  BY <1>22, NobodyStarts DEF DeleteCollection, Unmarked, histories,
     ReportsRest, ShelvesRest, HomesRest
<1>23. ASSUME NEW c \in Contents, NEW s \in Statuses, PatchPost(c, s)
       PROVE  ReportsRest /\ ShelvesRest /\ HomesRest
  BY <1>23, NobodyStarts DEF PatchPost, histories, ReportsRest, ShelvesRest,
     HomesRest
<1>24. ASSUME NEW c \in Contents, DeletePost(c)
       PROVE  ReportsRest /\ ShelvesRest /\ HomesRest
  BY <1>24, NobodyStarts DEF DeletePost, histories, ReportsRest, ShelvesRest,
     HomesRest
<1>25. ASSUME NEW u \in Users, NEW a \in Addresses, PatchAddress(u, a)
       PROVE  ReportsRest /\ ShelvesRest
  BY <1>25, NobodyStarts DEF PatchAddress, histories, ReportsRest, ShelvesRest,
     HomesRest
<1>26. ASSUME NEW u \in Users, NEW a \in Addresses, DeleteAddress(u, a)
       PROVE  ReportsRest /\ ShelvesRest
  BY <1>26, NobodyStarts DEF DeleteAddress, histories, ReportsRest,
     ShelvesRest, HomesRest
<1>27. ASSUME NEW p \in Reports, NEW d \in {"close", "remove"}, DecideReport(p, d)
       PROVE  ShelvesRest /\ HomesRest
  BY <1>27, NobodyStarts DEF DecideReport, histories, ReportsRest, ShelvesRest, HomesRest
<1>28. ASSUME NEW s \in Series, NEW c \in Contents, Unshelve(s, c)
       PROVE  ReportsRest /\ HomesRest
  BY <1>28, NobodyStarts DEF Unshelve, histories, ReportsRest, ShelvesRest,
     HomesRest
<1>29. CASE UNCHANGED communityVars
  BY <1>29, NobodyStarts DEF communityVars, ReportsRest, ShelvesRest, HomesRest
<1>30. ReportsRest \/ ReportsMove
  BY <1>1, <1>2, <1>3, <1>4, <1>5, <1>6, <1>7, <1>8, <1>9, <1>10, <1>11, <1>12, <1>13,
     <1>14, <1>15, <1>16, <1>17, <1>18, <1>19, <1>20, <1>21, <1>22, <1>23, <1>24, <1>25,
     <1>26, <1>27, <1>28, <1>29 DEF CommunityNext, ReportsMove
<1>31. ShelvesRest \/ ShelvesMove
  BY <1>1, <1>2, <1>3, <1>4, <1>5, <1>6, <1>7, <1>8, <1>9, <1>10, <1>11, <1>12, <1>13,
     <1>14, <1>15, <1>16, <1>17, <1>18, <1>19, <1>20, <1>21, <1>22, <1>23, <1>24, <1>25,
     <1>26, <1>27, <1>28, <1>29 DEF CommunityNext, ShelvesMove
<1>32. HomesRest \/ HomesMove
  BY <1>1, <1>2, <1>3, <1>4, <1>5, <1>6, <1>7, <1>8, <1>9, <1>10, <1>11, <1>12, <1>13,
     <1>14, <1>15, <1>16, <1>17, <1>18, <1>19, <1>20, <1>21, <1>22, <1>23, <1>24, <1>25,
     <1>26, <1>27, <1>28, <1>29 DEF CommunityNext, HomesMove
<1> QED
  BY <1>30, <1>31, <1>32

-----------------------------------------------------------------------------
(* Nothing that a handler looks for is there twice, unless two requests came together. *)

\* Unless the history marks it: of two requests in flight, of one in flight and a row
\* already written, and of two rows, there is none.
ReportsMarked ==
  \A u \in Users, t \in Targets : <<u, t>> \notin doubled =>
    /\ \A r, x \in Requests : InFlight(r, u, t) /\ InFlight(x, u, t) => r = x
    /\ \A r \in Requests : InFlight(r, u, t) => OpenReports(u, t) = {}
    /\ \A p, q \in OpenReports(u, t) : p = q

ShelvesMarked ==
  \A c \in Contents : c \notin split =>
    /\ \A r, x \in Requests : Shelving(r, c) /\ Shelving(x, c) => r = x
    /\ \A r \in Requests, s \in Series : Shelving(r, c) => <<s, c>> \notin shelf
    /\ \A s, x \in Series : <<s, c>> \in shelf /\ <<x, c>> \in shelf => s = x

Homes(u) == {a \in Mine(u) : address[a].home}

DefaultsMarked ==
  \A u \in Users : u \notin torn =>
    /\ \A r, x \in Requests : Choosing(r, u) /\ Choosing(x, u) => r = x
    /\ \A r \in Requests : Choosing(r, u) => Homes(u) = {}
    /\ \A a, b \in Homes(u) : a = b

LEMMA StepReports ==
  ASSUME CommunitySound, ReportsMarked, [CommunityNext]_(communityVars)
  PROVE  ReportsMarked'
<1>1. CASE ReportsRest
  <2>1. \A r \in Requests, u \in Users, t \in Targets : InFlight(r, u, t)' => InFlight(r, u, t)
    BY <1>1 DEF ReportsRest, Starts, InFlight, Asking
  <2>2. \A u, t : OpenReports(u, t)' = OpenReports(u, t)
    BY <1>1 DEF ReportsRest, OpenReports
  <2>3. doubled' = doubled
    BY <1>1 DEF ReportsRest
  <2> QED
    BY <2>1, <2>2, <2>3 DEF ReportsMarked
<1>2. ASSUME NEW r \in Requests, NEW u \in Users, NEW t \in Targets, Report(r, u, t)
      PROVE  ReportsMarked'
  <2>1. Look(r, "report", u, t) /\ OpenReports(u, t) = {}
    BY <1>2 DEF Report, HasOpen
  <2>2. /\ asked'[r].op = "report" /\ asked'[r].user = u /\ asked'[r].on = t
        /\ asked[r] = Unasked /\ report' = report
        /\ \A x \in Requests : x # r => asked'[x] = asked[x]
    BY <2>1, RowLooked DEF rows
  <2>3. \A x \in Requests, v \in Users, w \in Targets :
          InFlight(x, v, w)' => InFlight(x, v, w) \/ (x = r /\ v = u /\ w = t)
    BY <2>2 DEF InFlight, Asking
  <2>4. doubled \subseteq doubled'
        /\ ((\E x \in Requests : InFlight(x, u, t)) => <<u, t>> \in doubled')
    BY <1>2 DEF Report, InFlight
  <2>5. \A v, w : OpenReports(v, w)' = OpenReports(v, w)
    BY <2>2 DEF OpenReports
  <2> SUFFICES ASSUME NEW v \in Users, NEW w \in Targets, <<v, w>> \notin doubled'
               PROVE  /\ \A y, x \in Requests : InFlight(y, v, w)' /\ InFlight(x, v, w)' => y = x
                      /\ \A y \in Requests : InFlight(y, v, w)' => OpenReports(v, w)' = {}
                      /\ \A p, q \in OpenReports(v, w)' : p = q
    BY DEF ReportsMarked
  <2>6. <<v, w>> \notin doubled
    BY <2>4
  <2>7. CASE v = u /\ w = t
    BY <2>1, <2>3, <2>4, <2>5, <2>7
  <2>8. CASE ~(v = u /\ w = t)
    BY <2>3, <2>5, <2>6, <2>8 DEF ReportsMarked
  <2> QED
    BY <2>7, <2>8
<1>3. ASSUME NEW r \in Requests, WriteReport(r)
      PROVE  ReportsMarked'
  <2>1. Asking(r, "report") /\ doubled' = doubled
    BY <1>3 DEF WriteReport, histories
  <2>2. PICK u \in Users, t \in Targets : InFlight(r, u, t)
    BY <2>1 DEF InFlight, Asking, CommunitySound, RowsFilled, FilledRow
  <2>3. /\ \A x \in Requests : x # r => asked'[x] = asked[x]
        /\ asked'[r].op # "report"
    BY <1>3, <2>1, RowTold, NobodyAsking DEF WriteReport, Asking
  <2>4. \A x \in Requests, v \in Users, w \in Targets :
          InFlight(x, v, w)' => InFlight(x, v, w) /\ x # r
    BY <2>3 DEF InFlight, Asking
  <2>5. PICK p \in Reports : report' = [report EXCEPT ![p] = [by |-> u, on |-> t]]
    BY <1>3, <2>2 DEF WriteReport, InFlight
  <2>6. report \in [Reports -> [by : Users \cup {NoUser}, on : Targets \cup {NoTarget}]]
    BY DEF CommunitySound, CommunityTypeOK
  <2>7. \A v, w : v # u \/ w # t => OpenReports(v, w)' \subseteq OpenReports(v, w)
    BY <2>5, <2>6 DEF OpenReports
  <2>8. OpenReports(u, t)' \subseteq OpenReports(u, t) \cup {p}
    BY <2>5, <2>6 DEF OpenReports
  <2> SUFFICES ASSUME NEW v \in Users, NEW w \in Targets, <<v, w>> \notin doubled'
               PROVE  /\ \A y, x \in Requests : InFlight(y, v, w)' /\ InFlight(x, v, w)' => y = x
                      /\ \A y \in Requests : InFlight(y, v, w)' => OpenReports(v, w)' = {}
                      /\ \A m, n \in OpenReports(v, w)' : m = n
    BY DEF ReportsMarked
  <2>9. /\ \A y, x \in Requests : InFlight(y, v, w) /\ InFlight(x, v, w) => y = x
        /\ \A y \in Requests : InFlight(y, v, w) => OpenReports(v, w) = {}
        /\ \A m, n \in OpenReports(v, w) : m = n
    BY <2>1 DEF ReportsMarked
  <2>10. CASE v = u /\ w = t
    BY <2>2, <2>4, <2>8, <2>9, <2>10
  <2>11. CASE v # u \/ w # t
    BY <2>4, <2>7, <2>9, <2>11
  <2> QED
    BY <2>10, <2>11
<1>4. ASSUME NEW p \in Reports, NEW d \in {"close", "remove"}, DecideReport(p, d)
      PROVE  ReportsMarked'
  <2> DEFINE u == report[p].by
             t == report[p].on
  <2>1. asked' = asked /\ (report' = report \/ report' = [report EXCEPT ![p] = NoReport])
    BY <1>4 DEF DecideReport, Closed
  <2>2. report \in [Reports -> [by : Users \cup {NoUser}, on : Targets \cup {NoTarget}]]
    BY DEF CommunitySound, CommunityTypeOK
  <2>3. \A v \in Users : \A w : OpenReports(v, w)' \subseteq OpenReports(v, w)
    BY <2>1, <2>2, UsersAssumption DEF OpenReports, NoReport
  <2>4. \A x, v, w : InFlight(x, v, w)' <=> InFlight(x, v, w)
    BY <2>1 DEF InFlight, Asking
  <2> SUFFICES ASSUME NEW v \in Users, NEW w \in Targets, <<v, w>> \notin doubled'
               PROVE  /\ \A y, x \in Requests : InFlight(y, v, w) /\ InFlight(x, v, w) => y = x
                      /\ \A y \in Requests : InFlight(y, v, w) => OpenReports(v, w)' = {}
                      /\ \A m, n \in OpenReports(v, w)' : m = n
    BY <2>4 DEF ReportsMarked
  <2>5. CASE <<v, w>> \notin doubled
    BY <2>3, <2>5 DEF ReportsMarked
  <2>6. CASE <<v, w>> \in doubled
    <3>1. /\ <<v, w>> = <<u, t>> /\ report' # report
          /\ \A q \in Reports \ {p} : report[q] # report[p]
          /\ \A y \in Requests : ~Asking(y, "report")
      <4>1. doubled' = {z \in doubled : \/ z # <<u, t>> \/ report' = report
                                        \/ \E q \in Reports \ {p} : report[q] = report[p]
                                        \/ \E y \in Requests : Asking(y, "report")}
        BY <1>4 DEF DecideReport
      <4> QED
        BY <4>1, <2>6
    <3>2. report' = [report EXCEPT ![p] = NoReport] /\ v = u /\ w = t
      BY <2>1, <3>1
    <3>3. report[p] = [by |-> u, on |-> t]
      BY <2>2
    <3>4. OpenReports(v, w)' = {}
      <4> SUFFICES ASSUME NEW q \in Reports, report'[q] = [by |-> u, on |-> t]
                   PROVE  FALSE
        BY <3>2 DEF OpenReports
      <4>1. CASE q = p
        <5>1. report'[q].by = NoUser
          BY <2>2, <3>2, <4>1 DEF NoReport
        <5> QED
          BY <5>1, <3>2, UsersAssumption
      <4>2. CASE q # p
        BY <2>2, <3>1, <3>2, <3>3, <4>2
      <4> QED
        BY <4>1, <4>2
    <3> QED
      BY <3>1, <3>4 DEF InFlight
  <2> QED
    BY <2>5, <2>6
<1> QED
  BY <1>1, <1>2, <1>3, <1>4, WhatMoves DEF ReportsMove

LEMMA StepShelves ==
  ASSUME CommunitySound, ShelvesMarked, [CommunityNext]_(communityVars)
  PROVE  ShelvesMarked'
<1>1. CASE ShelvesRest
  <2>1. \A r \in Requests, c \in Contents : Shelving(r, c)' => Shelving(r, c)
    BY <1>1 DEF ShelvesRest, Starts, Shelving, Asking
  <2>2. shelf' = shelf /\ split' = split
    BY <1>1 DEF ShelvesRest
  <2> QED
    BY <2>1, <2>2 DEF ShelvesMarked
<1>2. ASSUME NEW r \in Requests, NEW s \in Series, NEW c \in Contents, Shelve(r, s, c)
      PROVE  ShelvesMarked'
  <2>1. \A x \in Series : <<x, c>> \notin shelf
    BY <1>2 DEF Shelve, Shelved
  <2>2. /\ asked'[r].op = "shelve" /\ asked'[r].on = c /\ shelf' = shelf
        /\ \A x \in Requests : x # r => asked'[x] = asked[x]
    BY <1>2, RowShelved DEF rows
  <2>3. \A x \in Requests, d \in Contents :
          Shelving(x, d)' => Shelving(x, d) \/ (x = r /\ d = c)
    BY <2>2 DEF Shelving, Asking
  <2>4. split \subseteq split' /\ ((\E x \in Requests : Shelving(x, c)) => c \in split')
    BY <1>2 DEF Shelve, Shelving
  <2> QED
    BY <2>1, <2>2, <2>3, <2>4 DEF ShelvesMarked
<1>3. ASSUME NEW r \in Requests, WriteShelf(r)
      PROVE  ShelvesMarked'
  <2>1. PICK c \in Contents, s \in Series :
          Shelving(r, c) /\ shelf' = shelf \cup {<<s, c>>} /\ split' = split
    BY <1>3 DEF WriteShelf, Shelving, Asking, CommunitySound, RowsFilled,
       FilledRow, histories
  <2>2. /\ \A x \in Requests : x # r => asked'[x] = asked[x]
        /\ asked'[r].op # "shelve"
    BY <1>3, RowDone, NobodyAsking DEF WriteShelf
  <2>3. \A x \in Requests, d \in Contents : Shelving(x, d)' => Shelving(x, d) /\ x # r
    BY <2>2 DEF Shelving, Asking
  <2> QED
    BY <2>1, <2>3 DEF ShelvesMarked
<1>4. ASSUME NEW s \in Series, NEW c \in Contents, Unshelve(s, c)
      PROVE  ShelvesMarked'
  <2>1. asked' = asked /\ shelf' = shelf \ {<<s, c>>}
    BY <1>4 DEF Unshelve
  <2>2. \A x, d : Shelving(x, d)' <=> Shelving(x, d)
    BY <2>1 DEF Shelving, Asking
  <2>3. \A d \in split \ split' :
          /\ d = c /\ \A y \in Series \ {s} : <<y, c>> \notin shelf
          /\ \A r \in Requests : ~Shelving(r, c)
    <3>1. split' = {x \in split : \/ x # c \/ \E y \in Series \ {s} : <<y, c>> \in shelf
                                  \/ \E r \in Requests : Asking(r, "shelve")}
      BY <1>4 DEF Unshelve
    <3> QED
      BY <3>1 DEF Shelving
  <2> QED
    BY <2>1, <2>2, <2>3 DEF ShelvesMarked
<1> QED
  BY <1>1, <1>2, <1>3, <1>4, WhatMoves DEF ShelvesMove

LEMMA StepDefaults ==
  ASSUME CommunitySound, DefaultsMarked, [CommunityNext]_(communityVars)
  PROVE  DefaultsMarked'
<1>0. address \in [Addresses -> [by : Users \cup {NoUser}, home : BOOLEAN]]
  BY DEF CommunitySound, CommunityTypeOK
<1>1. CASE HomesRest
  <2>1. \A r \in Requests, u \in Users : Choosing(r, u)' => Choosing(r, u)
    BY <1>1 DEF HomesRest, Starts, Choosing
  <2>2. (\A u : Homes(u)' = Homes(u)) /\ torn' = torn
    BY <1>1 DEF HomesRest, Homes, Mine
  <2> QED
    BY <2>1, <2>2 DEF DefaultsMarked
<1>2. ASSUME NEW r \in Requests, NEW u \in Users, Chooses(r, u)
      PROVE  DefaultsMarked'
  <2>1. PICK op \in {"home", "set"}, a \in Addresses \cup {NoTarget} :
          ChooseDefault(r, op, u, a) /\ (op = "set" => a \in Addresses)
    BY <1>2 DEF Chooses
  <2>2. /\ asked'[r].user = u /\ asked'[r].op = op
        /\ \A x \in Requests : x # r => asked'[x] = asked[x]
        /\ address' = ClearDefault(u)
    BY <2>1, RowChosen
  <2>3. Homes(u)' = {} /\ \A v \in Users : v # u => Homes(v)' = Homes(v)
    BY <1>0, <2>2 DEF ClearDefault, Homes, Mine
  <2>4. \A x \in Requests, v \in Users : Choosing(x, v)' => Choosing(x, v) \/ (x = r /\ v = u)
    BY <2>2 DEF Choosing
  <2>5. /\ \A v \in Users : v # u => (v \in torn' <=> v \in torn)
        /\ (\E x \in Requests : Choosing(x, u)) => u \in torn'
    BY <2>1 DEF ChooseDefault, Choosing
  <2> QED
    BY <2>3, <2>4, <2>5 DEF DefaultsMarked
<1>3. ASSUME NEW r \in Requests, WriteAddress(r)
      PROVE  DefaultsMarked'
  <2>1. PICK u \in Users : asked[r].user = u
    BY <1>3 DEF WriteAddress, Asking, CommunitySound, RowsFilled, FilledRow
  <2>6. torn' = torn /\ (Asking(r, "home") => Choosing(r, u))
    BY <1>3, <2>1 DEF WriteAddress, Asking, Choosing, histories
  <2>2. \A x \in Requests, v \in Users : Choosing(x, v)' => Choosing(x, v) /\ x # r
    BY <1>3, RowDone, NobodyAsking DEF WriteAddress, Choosing
  <2>3. PICK a \in Addresses :
          /\ address[a].by = NoUser
          /\ address' = [address EXCEPT ![a] = [by |-> u, home |-> Asking(r, "home")]]
    BY <1>3, <2>1 DEF WriteAddress
  <2>4. CASE Asking(r, "home")
    <3>1. /\ Homes(u)' \subseteq Homes(u) \cup {a}
          /\ \A v \in Users : v # u => Homes(v)' \subseteq Homes(v)
      BY <1>0, <2>1, <2>3 DEF Homes, Mine
    <3> QED
      BY <2>6, <2>2, <2>4, <3>1 DEF DefaultsMarked
  <2>5. CASE ~Asking(r, "home")
    <3>1. \A v \in Users : Homes(v)' \subseteq Homes(v)
      BY <1>0, <2>1, <2>3, <2>5 DEF Homes, Mine
    <3> QED
      BY <2>6, <2>2, <3>1 DEF DefaultsMarked
  <2> QED
    BY <2>4, <2>5
<1>4. ASSUME NEW r \in Requests, WriteDefault(r)
      PROVE  DefaultsMarked'
  <2>1. PICK u \in Users, a \in Addresses : asked[r].user = u /\ asked[r].on = a
    BY <1>4 DEF WriteDefault, Asking, CommunitySound, RowsFilled, FilledRow
  <2>5. torn' = torn /\ Choosing(r, u)
    BY <1>4, <2>1 DEF WriteDefault, Asking, Choosing, histories
  <2>2. \A x \in Requests, v \in Users : Choosing(x, v)' => Choosing(x, v) /\ x # r
    BY <1>4, RowDone, NobodyAsking DEF WriteDefault, Choosing
  <2>3. address' = [address EXCEPT ![a].home = @ \/ a \in Mine(u)]
    BY <1>4, <2>1 DEF WriteDefault
  <2>4. /\ Homes(u)' \subseteq Homes(u) \cup {a}
        /\ \A v \in Users : v # u => Homes(v)' \subseteq Homes(v)
    BY <1>0, <2>1, <2>3 DEF Homes, Mine
  <2> QED
    BY <2>5, <2>2, <2>4 DEF DefaultsMarked
<1>5. ASSUME NEW u \in Users, NEW a \in Addresses,
             PatchAddress(u, a) \/ DeleteAddress(u, a)
      PROVE  DefaultsMarked'
  <2>1. asked' = asked /\ torn' = torn
    BY <1>5 DEF PatchAddress, DeleteAddress, histories
  <2>2. \A v \in Users : Homes(v)' \subseteq Homes(v)
    BY <1>0, <1>5 DEF PatchAddress, DeleteAddress, NoAddress, Homes, Mine
  <2>3. \A x, v : Choosing(x, v)' <=> Choosing(x, v)
    BY <2>1 DEF Choosing
  <2> QED
    BY <2>1, <2>2, <2>3 DEF DefaultsMarked
<1> QED
  BY <1>1, <1>2, <1>3, <1>4, <1>5, WhatMoves DEF HomesMove

-----------------------------------------------------------------------------
(* A deleted account leaves nothing behind. *)

\* A request of somebody whose account is gone overtook the going.
Overtaken == \A r \in Requests : asked[r].user \in closed => asked[r].user \in overtook

\* No scene of the user is there to be seen.
Emptied(u) == \A c \in Contents : content[c].author = u => ~Visible(c)

\* The account's scenes go first, but for what is posted meanwhile.
Emptying == \A r \in Requests :
  Asking(r, "leave") => asked[r].user \in overtook \/ Emptied(asked[r].user)

NothingOdd == \A c \in Contents : content[c].status # "other"

Forgotten(u) ==
  /\ \A k \in Comments : comment[k].by # u
  /\ \A m \in marks : m[2] # u
  /\ u \notin named

Gone ==
  /\ Overtaken /\ Emptying /\ NothingOdd
  /\ \A u \in closed \ overtook : Emptied(u) /\ Forgotten(u)

Leaving(u) == \E r \in Requests : Asking(r, "leave") /\ asked[r].user = u

\* A step by which nobody's account goes: whose request it may begin or end,
\* whose scenes it may show, on whose behalf it may write.
RowsMild == \A r \in Requests :
  \/ asked'[r] = asked[r] \/ asked'[r] = Unasked
  \/ asked'[r].user = asked[r].user /\ asked'[r].op # "leave"
  \/ \E u \in Users \ closed :
       asked'[r].user = u /\ (asked'[r].op = "leave" => Emptied(u)')

ScenesMild ==
  /\ NothingOdd'
  /\ \A u \in Users : Emptied(u) /\ (u \in closed \/ Leaving(u)) => Emptied(u)' \/ u \in overtook'

MarksMild == \A u \in closed \ overtook : Forgotten(u) => Forgotten(u)'

Mild == UNCHANGED closed /\ overtook \subseteq overtook' /\ RowsMild /\ ScenesMild /\ MarksMild

LEMMA RowsAsTheyWere ==
  ASSUME UNCHANGED asked
  PROVE  RowsMild
BY DEF RowsMild

LEMMA OneRowMild ==
  ASSUME NEW r \in Requests, \A x \in Requests : x # r => asked'[x] = asked[x],
         \/ asked'[r] = Unasked
         \/ asked'[r].user = asked[r].user /\ asked'[r].op # "leave"
         \/ \E u \in Users \ closed :
              asked'[r].user = u /\ (asked'[r].op = "leave" => Emptied(u)')
  PROVE  RowsMild
BY DEF RowsMild

LEMMA ScenesAsTheyWere ==
  ASSUME NothingOdd, UNCHANGED content
  PROVE  ScenesMild
BY DEF ScenesMild, NothingOdd, Emptied, Visible

LEMMA MarksAsTheyWere ==
  ASSUME comment' = comment, marks' \subseteq marks, named' = named
  PROVE  MarksMild
BY DEF MarksMild, Forgotten

LEMMA MildGone ==
  ASSUME CommunitySound, Gone, Mild
  PROVE  Gone'
<1>1. closed \subseteq Users /\ overtook \subseteq Users
  BY DEF CommunitySound, CommunityTypeOK
<1>2. Overtaken'
  <2> SUFFICES ASSUME NEW r \in Requests, asked'[r].user \in closed
               PROVE  asked'[r].user \in overtook'
    BY DEF Mild, Overtaken
  <2> QED
    BY <1>1, UsersAssumption, NobodyAsking DEF Mild, RowsMild, Gone, Overtaken
<1>3. Emptying'
  <2> SUFFICES ASSUME NEW r \in Requests, Asking(r, "leave")'
               PROVE  asked'[r].user \in overtook' \/ Emptied(asked[r].user)'
    BY DEF Emptying
  <2>1. asked'[r].op = "leave"
    BY DEF Asking
  <2>3. CASE asked'[r] = asked[r]
    <3>1. PICK u \in Users : asked[r].user = u
      BY <2>1, <2>3 DEF CommunitySound, RowsFilled, FilledRow
    <3>2. Leaving(u)
      BY <2>1, <2>3, <3>1 DEF Leaving, Asking
    <3>3. u \in overtook \/ Emptied(u)
      BY <2>1, <2>3, <3>1 DEF Gone, Emptying, Asking
    <3>4. u \in overtook' \/ Emptied(u)'
      BY <3>2, <3>3 DEF Mild, ScenesMild
    <3> QED
      BY <2>3, <3>1, <3>4 DEF Emptied
  <2>4. CASE \E u \in Users \ closed : asked'[r].user = u /\ Emptied(u)'
    BY <2>4 DEF Emptied
  <2> QED
    BY <2>1, <2>3, <2>4, NobodyAsking DEF Mild, RowsMild
<1>4. \A u \in closed' \ overtook' : Emptied(u)' /\ Forgotten(u)'
  BY <1>1 DEF Gone, Mild, ScenesMild, MarksMild
<1>5. NothingOdd'
  BY DEF Mild, ScenesMild
<1> QED
  BY <1>2, <1>3, <1>4, <1>5 DEF Gone

LEMMA DecidingMild ==
  ASSUME CommunitySound, Gone, NEW p \in Reports, NEW d \in {"close", "remove"}, DecideReport(p, d)
  PROVE  Mild
<1> DEFINE t == report[p].on
<1>1. \/ UNCHANGED <<content, comment>>
      \/ RemoveReported(t)
  BY DEF DecideReport
<1>2. \A c \in Contents : \/ content'[c] = content[c]
                          \/ content'[c].status = "gone" /\ content'[c].author = content[c].author
  <2>1. CASE UNCHANGED content
    BY <2>1
  <2>2. CASE t \in Contents /\ content' = [content EXCEPT ![t] = TakenDown(t)]
    <3>1. TakenDown(t).status = "gone" /\ TakenDown(t).author = content[t].author
      BY <2>2 DEF TakenDown, CommunitySound, CommunityTypeOK
    <3> QED
      BY <2>2, <3>1 DEF CommunitySound, CommunityTypeOK
  <2> QED
    BY <1>1, <2>1, <2>2 DEF RemoveReported
<1>3. \A k \in Comments : comment'[k] = comment[k] \/ comment'[k].by = NoUser
  BY <1>1 DEF RemoveReported, NoComment, CommunitySound, CommunityTypeOK
<1>4. ScenesMild
  BY <1>2 DEF ScenesMild, Gone, NothingOdd, Emptied, Visible
<1>5. MarksMild
  BY <1>3, UsersAssumption DEF MarksMild, Forgotten, DecideReport, CommunitySound, CommunityTypeOK
<1>6. RowsMild
  BY RowsAsTheyWere DEF DecideReport
<1> QED
  BY <1>4, <1>5, <1>6 DEF Mild, DecideReport

LEMMA LeavesGone ==
  ASSUME CommunitySound, Gone, NEW r \in Requests, Leaves(r)
  PROVE  Gone'
<1>1. PICK u \in Users : asked[r].user = u
  BY DEF Leaves, Asking, CommunitySound, RowsFilled, FilledRow
<1>2. /\ content' = content /\ closed' = closed \cup {u} /\ named' = named \ {u}
      /\ overtook \subseteq overtook'
      /\ (\E x \in Requests \ {r} : asked[x].user = u) => u \in overtook'
  BY <1>1 DEF Leaves
<1>3. /\ asked'[r] = Unasked
      /\ \A x \in Requests : x # r => asked'[x] = asked[x]
  BY RowDone DEF Leaves
<1>4. closed \subseteq Users /\ NoUser \notin closed'
  BY <1>2, UsersAssumption DEF CommunitySound, CommunityTypeOK
<1>5. Overtaken'
  BY <1>2, <1>3, <1>4, NobodyAsking DEF Overtaken, Gone
<1>6. \A v : Emptied(v)' <=> Emptied(v)
  BY <1>2 DEF Emptied, Visible
<1>7. Emptying'
  <2> SUFFICES ASSUME NEW x \in Requests, Asking(x, "leave")'
               PROVE  asked'[x].user \in overtook' \/ Emptied(asked[x].user)'
    BY DEF Emptying
  <2>1. asked'[x] = asked[x] /\ Asking(x, "leave")
    BY <1>3, NobodyAsking DEF Asking
  <2>2. asked[x].user \in overtook \/ Emptied(asked[x].user)
    BY <2>1 DEF Gone, Emptying
  <2> QED
    BY <1>2, <2>1, <2>2 DEF Emptied, Visible
<1>8. \A v \in Users : Forgotten(v) => Forgotten(v)'
  <2>1. /\ \A k \in Comments : comment'[k] = comment[k] \/ comment'[k].by = NoUser
        /\ marks' \subseteq marks /\ named' \subseteq named
    BY DEF Leaves, NoComment, CommunitySound, CommunityTypeOK
  <2> QED
    BY <2>1, UsersAssumption DEF Forgotten
<1>9. Forgotten(u)'
  BY <1>1, UsersAssumption DEF Leaves, Forgotten, NoComment
<1>10. u \in overtook \/ Emptied(u)
  BY <1>1 DEF Leaves, Gone, Emptying
<1>11. \A v \in closed' \ overtook' : Emptied(v)' /\ Forgotten(v)'
  BY <1>2, <1>4, <1>6, <1>8, <1>9, <1>10 DEF Gone
<1>12. NothingOdd'
  BY <1>2 DEF Gone, NothingOdd
<1> QED
  BY <1>5, <1>7, <1>11, <1>12 DEF Gone

LEMMA StepGone ==
  ASSUME CommunitySound, Gone, [CommunityNext]_(communityVars), "odd" \notin Oddities
  PROVE  Gone'
<1> SUFFICES Mild \/ \E r \in Requests : Leaves(r)
  BY MildGone, LeavesGone
<1>1. ASSUME NEW r \in Requests, NEW u \in Users, NEW c \in Contents, Like(r, u, c)
      PROVE  Mild
  <2>1. Look(r, "like", u, c)
    BY <1>1 DEF Like
  <2>2. UNCHANGED rows /\ RowsMild
    BY <2>1, RowLooked, OneRowMild
  <2> QED
    BY <1>1, <2>2, ScenesAsTheyWere, MarksAsTheyWere DEF Like, Mild, Gone,
       rows, histories
<1>2. ASSUME NEW r \in Requests, NEW u \in Users, NEW c \in Contents, Comment(r, u, c)
      PROVE  Mild
  <2>1. Look(r, "comment", u, c)
    BY <1>2 DEF Comment
  <2>2. UNCHANGED rows /\ RowsMild
    BY <2>1, RowLooked, OneRowMild
  <2> QED
    BY <1>2, <2>2, ScenesAsTheyWere, MarksAsTheyWere DEF Comment, Mild, Gone,
       rows, histories
<1>3. ASSUME NEW r \in Requests, NEW u \in Users, NEW t \in Targets, Report(r, u, t)
      PROVE  Mild
  <2>1. Look(r, "report", u, t)
    BY <1>3 DEF Report
  <2>2. UNCHANGED rows /\ RowsMild
    BY <2>1, RowLooked, OneRowMild
  <2> QED
    BY <1>3, <2>2, ScenesAsTheyWere, MarksAsTheyWere DEF Report, Mild, Gone,
       rows, histories
<1>4. ASSUME NEW r \in Requests, NEW s \in Series, NEW c \in Contents, Shelve(r, s, c)
      PROVE  Mild
  <2>1. UNCHANGED rows /\ RowsMild
    BY <1>4, RowShelved, OneRowMild
  <2> QED
    BY <1>4, <2>1, ScenesAsTheyWere, MarksAsTheyWere DEF Shelve, Mild, Gone, rows
<1>5. ASSUME NEW r \in Requests, NEW u \in Users, Leave(r, u)
      PROVE  Mild
  <2>1. \A c \in Contents :
          /\ content'[c].author = content[c].author
          /\ content'[c].status = IF Takes(c, u) THEN "gone" ELSE content[c].status
    BY <1>5 DEF Leave, TakenDown, CommunitySound, CommunityTypeOK
  <2>2. \A c \in Contents : content[c].status \in {"none", "live", "draft", "gone"}
    BY DEF Gone, NothingOdd, CommunitySound, CommunityTypeOK, Statuses
  <2>3. Emptied(u)'
    BY <2>1, <2>2 DEF Emptied, Visible, Takes
  <2>4. ScenesMild
    BY <2>1, <2>2 DEF ScenesMild, NothingOdd, Emptied, Visible
  <2>5. asked'[r].user = u /\ \A x \in Requests : x # r => asked'[x] = asked[x]
    BY <1>5 DEF Leave, Unasked, CommunitySound, CommunityTypeOK
  <2>6. RowsMild
    BY <1>5, <2>3, <2>5, OneRowMild DEF Leave, SignedIn
  <2> QED
    BY <1>5, <2>4, <2>6, MarksAsTheyWere DEF Leave, Mild, histories
<1>6. ASSUME NEW r \in Requests, NEW u \in Users, NEW home \in BOOLEAN, NewAddress(r, u, home)
      PROVE  Mild
  <2>1. CASE Look(r, "address", u, NoTarget) /\ UNCHANGED histories
    <3>1. UNCHANGED rows /\ RowsMild
      BY <2>1, RowLooked, OneRowMild
    <3> QED
      BY <2>1, <3>1, ScenesAsTheyWere, MarksAsTheyWere DEF Mild, Gone, rows,
         histories
  <2>2. CASE ChooseDefault(r, "home", u, NoTarget)
    <3>1. RowsMild
      BY <2>2, RowChosen, OneRowMild
    <3> QED
      BY <2>2, <3>1, ScenesAsTheyWere, MarksAsTheyWere DEF ChooseDefault, Mild, Gone
  <2> QED
    BY <1>6, <2>1, <2>2 DEF NewAddress
<1>7. ASSUME NEW r \in Requests, NEW u \in Users, NEW a \in Addresses, SetDefault(r, u, a)
      PROVE  Mild
  <2>1. RowsMild
    BY <1>7, RowChosen, OneRowMild DEF SetDefault
  <2> QED
    BY <1>7, <2>1, ScenesAsTheyWere, MarksAsTheyWere DEF SetDefault,
       ChooseDefault, Mild, Gone
<1>8. ASSUME NEW r \in Requests, WriteAddress(r)
      PROVE  Mild
  <2>1. RowsMild
    BY <1>8, RowDone, OneRowMild DEF WriteAddress
  <2> QED
    BY <1>8, <2>1, ScenesAsTheyWere, MarksAsTheyWere DEF WriteAddress, Mild, Gone,
       rows, histories
<1>9. ASSUME NEW r \in Requests, WriteDefault(r)
      PROVE  Mild
  <2>1. RowsMild
    BY <1>9, RowDone, OneRowMild DEF WriteDefault
  <2> QED
    BY <1>9, <2>1, ScenesAsTheyWere, MarksAsTheyWere DEF WriteDefault, Mild, Gone,
       rows, histories
<1>10. ASSUME NEW r \in Requests, WriteLike(r)
       PROVE  Mild
  <2>1. asked[r].op # "none" /\ asked[r].on \in Targets /\ asked[r].user \in Users
    BY <1>10 DEF WriteLike, Asking, CommunitySound, RowsFilled, FilledRow,
       Targets
  <2>2. ThenTell(r, asked[r].on) \/ Served(r)
    BY <1>10 DEF WriteLike
  <2>3. RowsMild
    BY <2>1, <2>2, RowTold, RowDone, OneRowMild
  <2>4. asked[r].user \notin closed \ overtook
    BY DEF Gone, Overtaken
  <2>5. MarksMild
    BY <1>10, <2>4 DEF WriteLike, MarksMild, Forgotten, CommunitySound, CommunityTypeOK
  <2> QED
    BY <1>10, <2>3, <2>5, ScenesAsTheyWere DEF WriteLike, Mild, Gone, histories
<1>11. ASSUME NEW r \in Requests, WriteComment(r)
       PROVE  Mild
  <2>1. asked[r].op # "none" /\ asked[r].on \in Targets /\ asked[r].user \in Users
    BY <1>11 DEF WriteComment, Asking, CommunitySound, RowsFilled, FilledRow,
       Targets
  <2>2. ThenTell(r, asked[r].on)
    BY <1>11 DEF WriteComment
  <2>3. RowsMild
    BY <2>1, <2>2, RowTold, RowDone, OneRowMild
  <2>4. asked[r].user \notin closed \ overtook
    BY DEF Gone, Overtaken
  <2>5. MarksMild
    BY <1>11, <2>4 DEF WriteComment, MarksMild, Forgotten, CommunitySound, CommunityTypeOK
  <2> QED
    BY <1>11, <2>3, <2>5, ScenesAsTheyWere DEF WriteComment, Mild, Gone, histories
<1>12. ASSUME NEW r \in Requests, WriteShelf(r)
       PROVE  Mild
  <2>1. RowsMild
    BY <1>12, RowDone, OneRowMild DEF WriteShelf
  <2> QED
    BY <1>12, <2>1, ScenesAsTheyWere, MarksAsTheyWere DEF WriteShelf, Mild, Gone,
       rows, histories
<1>13. ASSUME NEW r \in Requests, WriteReport(r)
       PROVE  Mild
  <2>1. asked[r].op # "none" /\ ThenTell(r, NoTarget)
    BY <1>13 DEF WriteReport, Asking
  <2>2. RowsMild
    BY <2>1, RowTold, OneRowMild
  <2> QED
    BY <1>13, <2>2, ScenesAsTheyWere, MarksAsTheyWere DEF WriteReport, Mild, Gone,
       histories
<1>14. ASSUME NEW r \in Requests, Tell(r)
       PROVE  Mild
  <2>1. RowsMild
    BY <1>14, RowDone, OneRowMild DEF Tell
  <2>2. asked[r].user \notin closed \ overtook
    BY DEF Gone, Overtaken
  <2>3. MarksMild
    BY <1>14, <2>2 DEF Tell, MarksMild, Forgotten
  <2> QED
    BY <1>14, <2>1, <2>3, ScenesAsTheyWere DEF Tell, Mild, Gone, histories
<1>15. ASSUME NEW r \in Requests, TellAdmins(r)
       PROVE  Mild
  <2>1. RowsMild
    BY <1>15, RowDone, OneRowMild DEF TellAdmins
  <2>2. asked[r].user \notin closed \ overtook
    BY DEF Gone, Overtaken
  <2>3. MarksMild
    BY <1>15, <2>2 DEF TellAdmins, MarksMild, Forgotten
  <2> QED
    BY <1>15, <2>1, <2>3, ScenesAsTheyWere DEF TellAdmins, Mild, Gone, histories
<1>16. ASSUME NEW r \in Requests, Dies(r)
       PROVE  Mild
  <2>1. RowsMild
    BY <1>16, RowDone, OneRowMild DEF Dies
  <2> QED
    BY <1>16, <2>1, ScenesAsTheyWere, MarksAsTheyWere DEF Dies, Mild, Gone,
       rows, histories
<1>17. ASSUME NEW u \in Users, NEW c \in Contents, CreatePost(u, c)
       PROVE  Mild
  <2>1. \A d \in Contents : \/ d # c /\ content'[d] = content[d]
                            \/ content'[d].author = u /\ content'[d].status # "other"
    BY <1>17 DEF CreatePost, CommunitySound, CommunityTypeOK
  <2>2. overtook \subseteq overtook' /\ u \notin closed /\ (Leaving(u) => u \in overtook')
    BY <1>17 DEF CreatePost, SignedIn, Leaving
  <2>3. ScenesMild
    BY <2>1, <2>2 DEF ScenesMild, Gone, NothingOdd, Emptied, Visible
  <2> QED
    BY <1>17, <2>2, <2>3, RowsAsTheyWere, MarksAsTheyWere DEF CreatePost, Mild
<1>18. ASSUME NEW u \in Users, NEW c \in Contents, AddItem(u, c)
       PROVE  Mild
  <2>1. MarksMild
    BY <1>18 DEF AddItem, Filed, SignedIn, MarksMild, Forgotten
  <2> QED
    BY <1>18, <2>1, RowsAsTheyWere, ScenesAsTheyWere DEF AddItem, Filed, Mild,
       Gone, histories
<1>19. ASSUME NEW u \in Users, NEW c \in Contents, RemoveItem(u, c)
       PROVE  Mild
  BY <1>19, RowsAsTheyWere, ScenesAsTheyWere, MarksAsTheyWere DEF RemoveItem,
     Unmarked, Mild, Gone, histories
<1>20. ASSUME NEW u \in Users, NEW c \in Contents, Unlike(u, c)
       PROVE  Mild
  BY <1>20, RowsAsTheyWere, ScenesAsTheyWere, MarksAsTheyWere DEF Unlike,
     Unmarked, Mild, Gone, histories
<1>21. ASSUME NEW u \in Users, DeleteCollection(u)
       PROVE  Mild
  BY <1>21, RowsAsTheyWere, ScenesAsTheyWere, MarksAsTheyWere DEF DeleteCollection,
     Unmarked, Mild, Gone, histories
<1>22. ASSUME NEW c \in Contents, NEW s \in Statuses, PatchPost(c, s)
       PROVE  Mild
  <2>1. s \in {"live", "draft"} /\ Visible(c)
    BY <1>22 DEF PatchPost
  <2>2. \A d \in Contents :
          /\ content'[d].author = content[d].author
          /\ content'[d].status = IF d = c THEN s ELSE content[d].status
    BY <1>22 DEF PatchPost, CommunitySound, CommunityTypeOK
  <2>3. ScenesMild
    BY <2>1, <2>2 DEF ScenesMild, Gone, NothingOdd, Emptied, Visible
  <2> QED
    BY <1>22, <2>3, RowsAsTheyWere, MarksAsTheyWere DEF PatchPost, Mild, histories
<1>23. ASSUME NEW c \in Contents, DeletePost(c)
       PROVE  Mild
  <2>1. \A d \in Contents :
          /\ content'[d].author = content[d].author
          /\ content'[d].status = IF d = c THEN "gone" ELSE content[d].status
    BY <1>23 DEF DeletePost, TakenDown, CommunitySound, CommunityTypeOK
  <2>2. ScenesMild
    BY <2>1 DEF ScenesMild, Gone, NothingOdd, Emptied, Visible
  <2> QED
    BY <1>23, <2>2, RowsAsTheyWere, MarksAsTheyWere DEF DeletePost, Mild, histories
<1>24. ASSUME NEW u \in Users, NEW a \in Addresses, PatchAddress(u, a)
       PROVE  Mild
  BY <1>24, RowsAsTheyWere, ScenesAsTheyWere, MarksAsTheyWere DEF PatchAddress,
     Mild, Gone, histories
<1>25. ASSUME NEW u \in Users, NEW a \in Addresses, DeleteAddress(u, a)
       PROVE  Mild
  BY <1>25, RowsAsTheyWere, ScenesAsTheyWere, MarksAsTheyWere DEF DeleteAddress,
     Mild, Gone, histories
<1>26. ASSUME NEW p \in Reports, NEW d \in {"close", "remove"}, DecideReport(p, d)
       PROVE  Mild
  BY <1>26, DecidingMild
<1>27. ASSUME NEW s \in Series, NEW c \in Contents, Unshelve(s, c)
       PROVE  Mild
  BY <1>27, RowsAsTheyWere, ScenesAsTheyWere, MarksAsTheyWere DEF Unshelve, Mild,
     Gone, histories
<1>28. CASE UNCHANGED communityVars
  BY <1>28, RowsAsTheyWere, ScenesAsTheyWere, MarksAsTheyWere DEF communityVars, Mild, Gone
<1> QED
  BY <1>1, <1>2, <1>3, <1>4, <1>5, <1>6, <1>7, <1>8, <1>9, <1>10, <1>11, <1>12, <1>13,
     <1>14, <1>15, <1>16, <1>17, <1>18, <1>19, <1>20, <1>21, <1>22, <1>23, <1>24, <1>25,
     <1>26, <1>27, <1>28 DEF CommunityNext

-----------------------------------------------------------------------------
(* The theorems. *)

\* Community has the operators of FiniteSets of its own.
LEMMA SameCardinality == \A S : Cardinality(S) = Cardinality(S)
BY DEF Cardinality, Cardinality

LEMMA AtMostOne ==
  ASSUME NEW S, \A x, y \in S : x = y
  PROVE  ~(Cardinality(S) > 1)
<1>1. CASE S = {}
  BY <1>1, FS_EmptySet, SameCardinality
<1>2. CASE S # {}
  <2>1. PICK x \in S : TRUE
    BY <1>2
  <2>2. S = {x}
    BY <2>1
  <2>3. Cardinality(S) = 1
    BY <2>2, FS_Singleton
  <2> QED
    BY <2>3, SameCardinality
<1> QED
  BY <1>1, <1>2

Marked == ReportsMarked /\ ShelvesMarked /\ DefaultsMarked

LEMMA InitMarked == CommunityInit => Marked
<1> SUFFICES ASSUME CommunityInit PROVE Marked
  OBVIOUS
<1>1. /\ \A r \in Requests : asked[r].op = "none"
      /\ \A p \in Reports : report[p].by = NoUser
      /\ \A a \in Addresses : address[a].home = FALSE
      /\ shelf = {}
  BY NobodyAsking DEF CommunityInit, NoReport, NoAddress
<1>2. /\ \A r \in Requests : \A u, t : ~InFlight(r, u, t)
      /\ \A r \in Requests : \A c : ~Shelving(r, c)
      /\ \A r \in Requests : \A u : ~Choosing(r, u)
  BY <1>1 DEF InFlight, Shelving, Choosing, Asking
<1>3. (\A u \in Users : \A t : OpenReports(u, t) = {}) /\ (\A u : Homes(u) = {})
  BY <1>1, UsersAssumption DEF OpenReports, Homes, Mine
<1> QED
  BY <1>1, <1>2, <1>3 DEF Marked, ReportsMarked, ShelvesMarked, DefaultsMarked

LEMMA StepMarked ==
  CommunitySound /\ Marked /\ [CommunityNext]_(communityVars) => Marked'
BY StepReports, StepShelves, StepDefaults DEF Marked

LEMMA MarkedOnce == Marked => NothingTwice
<1> SUFFICES ASSUME Marked PROVE NothingTwice
  OBVIOUS
<1>1. ASSUME NEW u \in Users, NEW t \in Targets, <<u, t>> \notin doubled
      PROVE  ~(Cardinality(OpenReports(u, t)) > 1)
  <2>1. \A p, q \in OpenReports(u, t) : p = q
    BY <1>1 DEF Marked, ReportsMarked
  <2> QED
    BY <2>1, AtMostOne
<1>2. ASSUME NEW c \in Contents, c \notin split
      PROVE  ~(Cardinality({s \in Series : <<s, c>> \in shelf}) > 1)
  <2>1. \A x, y \in {s \in Series : <<s, c>> \in shelf} : x = y
    BY <1>2 DEF Marked, ShelvesMarked
  <2> QED
    BY <2>1, AtMostOne
<1>3. ASSUME NEW u \in Users, u \notin torn
      PROVE  ~(Cardinality({a \in Mine(u) : address[a].home}) > 1)
  <2>1. \A x, y \in {a \in Mine(u) : address[a].home} : x = y
    BY <1>3 DEF Marked, DefaultsMarked, Homes
  <2> QED
    BY <2>1, AtMostOne
<1>4. OneOpenReport
  BY <1>1 DEF OneOpenReport
<1>5. OneSeries
  BY <1>2 DEF OneSeries
<1>6. OneDefault
  BY <1>3 DEF OneDefault
<1> QED
  BY <1>4, <1>5, <1>6 DEF NothingTwice

LEMMA InitGone == CommunityInit => Gone
<1> SUFFICES ASSUME CommunityInit PROVE Gone
  OBVIOUS
<1>1. \A r \in Requests : asked[r] = Unasked
  BY DEF CommunityInit
<1>2. Overtaken /\ Emptying
  BY <1>1, NobodyAsking DEF CommunityInit, Overtaken, Emptying, Asking
<1>3. NothingOdd
  BY DEF CommunityInit, NothingOdd
<1> QED
  BY <1>2, <1>3 DEF CommunityInit, Gone

\* Scenes, comments, marks, reports, series, addresses and the requests about them
\* keep their types.
THEOREM CommunityTyped == CommunitySpec => []CommunityTypeOK
<1>1. CommunityInit => CommunitySound
  BY InitCommunity
<1>2. CommunitySound /\ [CommunityNext]_(communityVars) => CommunitySound'
  BY StepCommunity
<1>3. CommunitySound => CommunityTypeOK
  BY DEF CommunitySound
<1> QED
  BY <1>1, <1>2, <1>3, PTL DEF CommunitySpec

\* However many requests of however many people come together: one account has two
\* open reports of one target, a work is in two series, or an account has two default
\* addresses, only where two of its requests overlapped (_create_or_reuse, add_piece,
\* clear_default; no constraint of the schema backs them).
THEOREM NothingPilesUp == CommunitySpec => []NothingTwice
<1>1. CommunityInit => CommunitySound /\ Marked
  BY InitCommunity, InitMarked
<1>2. CommunitySound /\ Marked /\ [CommunityNext]_(communityVars) => (CommunitySound /\ Marked)'
  BY StepCommunity, StepMarked
<1> QED
  BY <1>1, <1>2, MarkedOnce, PTL DEF CommunitySpec

\* If scenes are only ever live or drafts, a deleted account leaves no scene, comment,
\* like, save, folder or notification of its own but for what a request it had in
\* flight, or a scene it posted while it was going, put there (delete_account).
THEOREM AccountsGoWhole ==
  ASSUME "odd" \notin Oddities
  PROVE  CommunitySpec => []FootprintGone
<1>1. CommunityInit => CommunitySound /\ Gone
  BY InitCommunity, InitGone
<1>2. CommunitySound /\ Gone /\ [CommunityNext]_(communityVars) => (CommunitySound /\ Gone)'
  BY StepCommunity, StepGone
<1>3. Gone => FootprintGone
  BY DEF Gone, Emptied, Forgotten, FootprintGone
<1> QED
  BY <1>1, <1>2, <1>3, PTL DEF CommunitySpec
-----------------------------------------------------------------------------
(***************************************************************************)
(* Receipts.  What has been sent up to the time of a reading was on its    *)
(* page, had been shown before, or is in the history; so it is for a       *)
(* reading that has listed, one that has its time, and the one committed   *)
(* last.                                                                   *)
(***************************************************************************)

\* u sent the message created at t, or is about to.
Wrote(u, t) ==
  \/ t \in Sent /\ sender[t] = u
  \/ \E r \in Requests :
       handling[r].op = "send" /\ handling[r].who = u /\ handling[r].at = t

\* A request knows whose it is, and no time was taken later than now.
Underway(r) ==
  LET q == handling[r] IN
  /\ q.op = "none" => q = NotHandling
  /\ q.op # "none" => q.who \in Participants
  /\ q.op = "send" => q.at \in Times /\ q.at \notin Sent
  /\ q.op = "mark" => q.at \in Times
  /\ q.at <= now

TimesTaken ==
  /\ \A t \in Sent : t <= now
  /\ \A u \in Participants : readAt[u] <= now
  /\ \A r \in Requests : Underway(r)
  /\ \A r, q \in Requests :
       (handling[r].op = "send" /\ handling[q].op = "send" /\ handling[r].at = handling[q].at)
         => r = q

\* Whatever the other sent up to a time was seen, or is history.
Accounted(u, at, seen) ==
  \A t \in Times : (Wrote(Other(u), t) /\ t <= at) => t \in seen \cup crossed

ReaderAccounts(r) ==
  LET q == handling[r] IN
  /\ q.op = "read" => Accounted(q.who, MaxTime, shown[q.who] \cup q.page)
  /\ q.op = "mark" => Accounted(q.who, q.at, shown[q.who] \cup q.page)

ReadingsAccount ==
  /\ \A u \in Participants : Accounted(u, readAt[u], shown[u])
  /\ \A r \in Requests : ReaderAccounts(r)

LastIsSent ==
  /\ Sent # {} => lastAt \in Sent
  /\ \A t \in Sent : t > lastAt => t \in crossed

\* What was shown was sent before the time it was read at.
ShownWasSent ==
  /\ \A u \in Participants : \A t \in shown[u] : t \in Sent /\ t <= furthest[u]
  /\ \A r \in Requests :
       LET q == handling[r] IN
       \A t \in q.page : t \in Sent /\ (q.op = "mark" => t <= q.at)

ReceiptsInv ==
  ReceiptsTypeOK /\ TimesTaken /\ ReadingsAccount /\ LastIsSent /\ ShownWasSent

LEMMA OtherParticipant ==
  ASSUME NEW u \in Participants
  PROVE  /\ Other(u) \in Participants /\ Other(u) # u
         /\ \A v \in Participants : v # u => v = Other(u)
<1>1. PICK x \in Users, y \in Users : x # y /\ Participants = {x, y}
  BY ParticipantsAssumption
<1>2. \E v \in Participants : v # u
  BY <1>1
<1>3. Other(u) \in Participants /\ Other(u) # u
  BY <1>2 DEF Other
<1> QED
  BY <1>1, <1>3

LEMMA ParticipantsAreUsers == Participants \subseteq Users /\ NoUser \notin Participants
BY ParticipantsAssumption, UsersAssumption

\* What was accounted for stays so while nothing new is sent.
LEMMA AccountedStays ==
  ASSUME NEW v \in Participants, NEW at, NEW seen, NEW more, Accounted(v, at, seen),
         seen \subseteq more, crossed \subseteq crossed',
         \A u \in Participants, t \in Times : Wrote(u, t)' => Wrote(u, t)
  PROVE  Accounted(v, at, more)'
BY OtherParticipant DEF Accounted

LEMMA ReaderStays ==
  ASSUME NEW r \in Requests, ReaderAccounts(r), Underway(r), handling'[r] = handling[r],
         crossed \subseteq crossed',
         \A u \in Participants : shown[u] \subseteq shown'[u],
         \A u \in Participants, t \in Times : Wrote(u, t)' => Wrote(u, t)
  PROVE  ReaderAccounts(r)'
<1>1. ASSUME handling[r].op = "read"
      PROVE  Accounted(handling[r].who, MaxTime, shown[handling[r].who] \cup handling[r].page)'
  <2>1. PICK w \in Participants : w = handling[r].who
    BY <1>1 DEF Underway
  <2>2. PICK seen, more : /\ seen = shown[w] \cup handling[r].page
                          /\ more = shown'[w] \cup handling[r].page
    OBVIOUS
  <2>3. Accounted(w, MaxTime, seen)
    BY <1>1, <2>1, <2>2 DEF ReaderAccounts
  <2>4. Accounted(w, MaxTime, more)'
    BY <2>2, <2>3, AccountedStays
  <2> QED
    BY <2>1, <2>2, <2>4 DEF Accounted
<1>2. ASSUME handling[r].op = "mark"
      PROVE  Accounted(handling[r].who, handling[r].at, shown[handling[r].who] \cup handling[r].page)'
  <2>1. PICK w \in Participants : w = handling[r].who
    BY <1>2 DEF Underway
  <2>2. PICK at, seen, more : /\ at = handling[r].at
                              /\ seen = shown[w] \cup handling[r].page
                              /\ more = shown'[w] \cup handling[r].page
    OBVIOUS
  <2>3. Accounted(w, at, seen)
    BY <1>2, <2>1, <2>2 DEF ReaderAccounts
  <2>4. Accounted(w, at, more)'
    BY <2>2, <2>3, AccountedStays
  <2> QED
    BY <2>1, <2>2, <2>4 DEF Accounted
<1> QED
  BY <1>1, <1>2 DEF ReaderAccounts

LEMMA InitReceipts == ReceiptsInit => ReceiptsInv
<1> SUFFICES ASSUME ReceiptsInit PROVE ReceiptsInv
  OBVIOUS
<1> USE TimesAssumption
<1>1. ReceiptsTypeOK
  BY DEF ReceiptsInit, ReceiptsTypeOK, Handlings, NotHandling, Times, Never
<1>2. Sent = {}
  BY DEF ReceiptsInit, Sent
<1>3. \A r \in Requests : handling[r] = NotHandling
  BY DEF ReceiptsInit
<1>4. TimesTaken
  BY <1>2, <1>3 DEF ReceiptsInit, TimesTaken, Underway, NotHandling, Never
<1>5. \A u, t : ~Wrote(u, t)
  BY <1>2, <1>3 DEF Wrote, NotHandling
<1>6. ReadingsAccount
  BY <1>3, <1>5 DEF ReadingsAccount, ReaderAccounts, Accounted, NotHandling
<1>7. LastIsSent /\ ShownWasSent
  BY <1>2, <1>3 DEF LastIsSent, ShownWasSent, ReceiptsInit, NotHandling
<1> QED
  BY <1>1, <1>4, <1>6, <1>7 DEF ReceiptsInv

LEMMA FlushKeeps ==
  ASSUME ReceiptsInv, NEW r \in Requests, NEW u \in Participants, FlushMessage(r, u)
  PROVE  ReceiptsInv'
<1> DEFINE row == [NotHandling EXCEPT !.op = "send", !.who = u, !.at = now + 1]
<1> USE TimesAssumption
<1>1. ReceiptsTypeOK /\ TimesTaken /\ ReadingsAccount /\ LastIsSent /\ ShownWasSent
  BY DEF ReceiptsInv
<1>2. now + 1 \in Times /\ now \in Times /\ now' = now + 1
  BY <1>1 DEF ReceiptsTypeOK, FlushMessage, Times
<1>3. /\ row.op = "send" /\ row.who = u /\ row.at = now + 1 /\ row.page = {}
      /\ row \in Handlings
  BY <1>2 DEF NotHandling, Handlings
<1>4. \A p \in Requests : handling'[p] = IF p = r THEN row ELSE handling[p]
  BY <1>1 DEF FlushMessage, ReceiptsTypeOK
<1> HIDE DEF row
<1>5. /\ UNCHANGED <<sender, lastAt, readAt, shown, furthest, Sent>>
      /\ crossed' = crossed \cup {t \in {now + 1} : Reading(Other(u))}
  BY DEF FlushMessage, Sent
<1>6. ReceiptsTypeOK'
  <2>1. handling' \in [Requests -> Handlings]
    BY <1>1, <1>3 DEF ReceiptsTypeOK, FlushMessage, row
  <2> QED
    BY <1>1, <1>2, <1>5, <2>1 DEF ReceiptsTypeOK
<1>7. TimesTaken'
  <2>1. \A t \in Sent : t <= now
    BY <1>1 DEF TimesTaken
  <2>2. now + 1 \notin Sent /\ \A p \in Requests : handling[p].at # now + 1
    BY <1>1, <1>2, <2>1 DEF TimesTaken, Underway, Times
  <2>3. \A p \in Requests : Underway(p)'
    <3> TAKE p \in Requests
    <3>1. CASE p = r
      BY <1>2, <1>3, <1>4, <1>5, <2>2, <3>1 DEF Underway, Times
    <3>2. CASE p # r
      <4>1. Underway(p) /\ handling'[p] = handling[p] /\ handling[p] \in Handlings
        BY <1>1, <1>4, <3>2 DEF TimesTaken, ReceiptsTypeOK
      <4>2. handling[p].at \in Times \cup {Never}
        BY <4>1 DEF Handlings
      <4>3. handling[p].at <= now + 1
        BY <1>2, <4>1, <4>2 DEF Underway, Times, Never
      <4> QED
        BY <1>2, <1>5, <4>1, <4>3 DEF Underway
    <3> QED
      BY <3>1, <3>2
  <2>4. \A v \in Participants : readAt'[v] <= now'
    <3> TAKE v \in Participants
    <3>1. readAt[v] <= now /\ readAt[v] \in Times \cup {Never}
      BY <1>1 DEF TimesTaken, ReceiptsTypeOK
    <3> QED
      BY <1>2, <1>5, <3>1 DEF Times, Never
  <2>5. \A t \in Sent' : t <= now'
    BY <1>2, <1>5, <2>1 DEF Times, Sent
  <2>6. \A p, q \in Requests :
          (handling'[p].op = "send" /\ handling'[q].op = "send" /\ handling'[p].at = handling'[q].at)
            => p = q
    BY <1>1, <1>3, <1>4, <2>2 DEF TimesTaken
  <2> QED
    BY <2>3, <2>4, <2>5, <2>6 DEF TimesTaken
<1>8. \A v \in Participants, t \in Times :
        Wrote(v, t)' => Wrote(v, t) \/ (v = u /\ t = now + 1)
  BY <1>3, <1>4, <1>5 DEF Wrote
<1>9. \A seen : \A v \in Participants, at \in Times \cup {Never} :
        (Accounted(v, at, seen) /\ (at <= now \/ v # Other(u) \/ Reading(v)))
          => (\A t \in Times : (Wrote(Other(v), t)' /\ t <= at) => t \in seen \cup crossed')
  <2> SUFFICES ASSUME NEW v \in Participants, NEW at \in Times \cup {Never}, NEW seen,
                      Accounted(v, at, seen), at <= now \/ v # Other(u) \/ Reading(v),
                      NEW t \in Times, Wrote(Other(v), t)', t <= at
               PROVE  t \in seen \cup crossed'
    OBVIOUS
  <2>1. CASE Wrote(Other(v), t)
    BY <1>5, <2>1 DEF Accounted
  <2>2. CASE Other(v) = u /\ t = now + 1
    <3>1. v = Other(u)
      BY <2>2, OtherParticipant
    <3>2. ~(at <= now)
      BY <1>2, <2>2 DEF Times, Never
    <3> QED
      BY <1>5, <2>2, <3>1, <3>2
  <2> QED
    BY <1>8, <2>1, <2>2, OtherParticipant
<1>10. ReadingsAccount'
  <2>1. \A v \in Participants : Accounted(v, readAt[v], shown[v])'
    <3> TAKE v \in Participants
    <3>1. Accounted(v, readAt[v], shown[v]) /\ readAt[v] <= now /\ readAt[v] \in Times \cup {Never}
      BY <1>1 DEF ReadingsAccount, TimesTaken, ReceiptsTypeOK
    <3> QED
      BY <1>5, <1>9, <3>1 DEF Accounted
  <2>2. ASSUME NEW p \in Requests, handling'[p].op = "read"
        PROVE  Accounted(handling[p].who, MaxTime, shown[handling[p].who] \cup handling[p].page)'
    <3>1. p # r /\ handling'[p] = handling[p]
      BY <1>3, <1>4, <2>2
    <3>2. PICK w \in Participants : handling[p].op = "read" /\ w = handling[p].who
      BY <1>1, <2>2, <3>1 DEF TimesTaken, Underway
    <3>3. Accounted(w, MaxTime, shown[w] \cup handling[p].page)
      BY <1>1, <3>2 DEF ReadingsAccount, ReaderAccounts
    <3>4. Reading(w) /\ MaxTime \in Times
      BY <3>2 DEF Reading, Times
    <3>5. \A t \in Times :
            (Wrote(Other(w), t)' /\ t <= MaxTime) => t \in (shown[w] \cup handling[p].page) \cup crossed'
      BY <1>9, <3>3, <3>4
    <3> QED
      BY <1>5, <3>1, <3>2, <3>5 DEF Accounted
  <2>3. ASSUME NEW p \in Requests, handling'[p].op = "mark"
        PROVE  Accounted(handling[p].who, handling[p].at, shown[handling[p].who] \cup handling[p].page)'
    <3>1. p # r /\ handling'[p] = handling[p]
      BY <1>3, <1>4, <2>3
    <3>2. PICK w \in Participants :
            /\ handling[p].op = "mark" /\ w = handling[p].who
            /\ handling[p].at \in Times /\ handling[p].at <= now
      BY <1>1, <2>3, <3>1 DEF TimesTaken, Underway
    <3>3. Accounted(w, handling[p].at, shown[w] \cup handling[p].page)
      BY <1>1, <3>2 DEF ReadingsAccount, ReaderAccounts
    <3>4. \A t \in Times :
            (Wrote(Other(w), t)' /\ t <= handling[p].at)
              => t \in (shown[w] \cup handling[p].page) \cup crossed'
      BY <1>9, <3>2, <3>3
    <3> QED
      BY <1>5, <3>1, <3>2, <3>4 DEF Accounted
  <2> QED
    BY <2>1, <2>2, <2>3 DEF ReadingsAccount, ReaderAccounts
<1>11. LastIsSent'
  BY <1>1, <1>5 DEF LastIsSent
<1>12. ShownWasSent'
  BY <1>1, <1>3, <1>4, <1>5 DEF ShownWasSent
<1> QED
  BY <1>6, <1>7, <1>10, <1>11, <1>12 DEF ReceiptsInv

LEMMA CommitMessageKeeps ==
  ASSUME ReceiptsInv, NEW r \in Requests, CommitMessage(r)
  PROVE  ReceiptsInv'
<1>1. ReceiptsTypeOK /\ TimesTaken /\ ReadingsAccount /\ LastIsSent /\ ShownWasSent
  BY DEF ReceiptsInv
<1>2. PICK w \in Participants, at \in Times :
        /\ handling[r].op = "send" /\ handling[r].who = w /\ handling[r].at = at
        /\ at \notin Sent /\ at <= now
  BY <1>1 DEF CommitMessage, TimesTaken, Underway
<1>3. /\ UNCHANGED <<now, readAt, shown, furthest>>
      /\ sender' = [sender EXCEPT ![at] = w] /\ lastAt' = at
      /\ crossed' = crossed \cup {t \in Sent : t > at}
      /\ handling' = [handling EXCEPT ![r] = NotHandling]
  BY <1>2 DEF CommitMessage, Aligned
<1>4. \A p \in Requests : handling'[p] = IF p = r THEN NotHandling ELSE handling[p]
  BY <1>1, <1>3 DEF ReceiptsTypeOK
<1>5. \A t \in Times : sender'[t] = IF t = at THEN w ELSE sender[t]
  BY <1>1, <1>3 DEF ReceiptsTypeOK
<1>6. Sent' = Sent \cup {at}
  BY <1>2, <1>5, ParticipantsAreUsers DEF Sent
<1>7. ReceiptsTypeOK'
  <2>1. NotHandling \in Handlings
    BY DEF NotHandling, Handlings
  <2> QED
    BY <1>1, <1>2, <1>3, <2>1 DEF ReceiptsTypeOK, Sent
<1>8. TimesTaken'
  <2>1. ASSUME NEW p \in Requests PROVE Underway(p)'
    <3>1. CASE p = r
      <4>1. now \in Times
        BY <1>1 DEF ReceiptsTypeOK
      <4> QED
        BY <1>3, <1>4, <3>1, <4>1 DEF Underway, NotHandling, Never, Times
    <3>2. CASE p # r
      <4>1. Underway(p) /\ handling'[p] = handling[p]
        BY <1>1, <1>4, <3>2 DEF TimesTaken
      <4>2. handling[p].op = "send" => handling[p].at # at
        BY <1>1, <1>2, <3>2 DEF TimesTaken
      <4> QED
        BY <1>3, <1>6, <4>1, <4>2 DEF Underway
    <3> QED
      BY <3>1, <3>2
  <2>2. \A t \in Sent' : t <= now'
    BY <1>1, <1>2, <1>3, <1>6 DEF TimesTaken
  <2>3. \A u \in Participants : readAt'[u] <= now'
    BY <1>1, <1>3 DEF TimesTaken
  <2>4. \A p, q \in Requests :
          (handling'[p].op = "send" /\ handling'[q].op = "send" /\ handling'[p].at = handling'[q].at)
            => p = q
    BY <1>1, <1>4 DEF TimesTaken, NotHandling
  <2> QED
    BY <2>1, <2>2, <2>3, <2>4 DEF TimesTaken
<1>9. \A v \in Participants, t \in Times : Wrote(v, t)' => Wrote(v, t)
  <2> SUFFICES ASSUME NEW v \in Participants, NEW t \in Times, Wrote(v, t)'
               PROVE  Wrote(v, t)
    OBVIOUS
  <2>1. CASE t \in Sent' /\ sender'[t] = v
    BY <1>2, <1>5, <1>6, <2>1 DEF Wrote
  <2>2. CASE \E p \in Requests :
               handling'[p].op = "send" /\ handling'[p].who = v /\ handling'[p].at = t
    BY <1>4, <2>2 DEF Wrote, NotHandling
  <2> QED
    BY <2>1, <2>2 DEF Wrote
<1>10. ReadingsAccount'
  <2>1. \A u \in Participants : Accounted(u, readAt[u], shown[u])'
    BY <1>1, <1>3, <1>9, OtherParticipant DEF ReadingsAccount, Accounted
  <2>2. ASSUME NEW p \in Requests PROVE ReaderAccounts(p)'
    <3>1. CASE p = r
      BY <1>4, <3>1 DEF ReaderAccounts, NotHandling
    <3>2. CASE p # r
      BY <1>1, <1>3, <1>4, <1>9, <3>2, ReaderStays DEF ReadingsAccount, TimesTaken
    <3> QED
      BY <3>1, <3>2
  <2> QED
    BY <2>1, <2>2 DEF ReadingsAccount
<1>11. LastIsSent'
  <2>1. lastAt' \in Sent'
    BY <1>3, <1>6
  <2>2. \A t \in Sent' : t > lastAt' => t \in crossed'
    BY <1>2, <1>3, <1>6 DEF Times
  <2> QED
    BY <2>1, <2>2 DEF LastIsSent
<1>12. ShownWasSent'
  BY <1>1, <1>3, <1>4, <1>6 DEF ShownWasSent, NotHandling
<1> QED
  BY <1>7, <1>8, <1>10, <1>11, <1>12 DEF ReceiptsInv

LEMMA ListsKeeps ==
  ASSUME ReceiptsInv, NEW r \in Requests, NEW u \in Participants,
         NEW page \in SUBSET Sent, Lists(r, u, page)
  PROVE  ReceiptsInv'
<1> DEFINE row == [NotHandling EXCEPT !.op = "read", !.who = u, !.page = page]
<1>1. ReceiptsTypeOK /\ TimesTaken /\ ReadingsAccount /\ LastIsSent /\ ShownWasSent
  BY DEF ReceiptsInv
<1>2. row.op = "read" /\ row.who = u /\ row.at = Never /\ row.page = page
  BY DEF NotHandling
<1>3. row \in Handlings
  BY DEF NotHandling, Handlings, Sent
<1>4. \A p \in Requests : handling'[p] = IF p = r THEN row ELSE handling[p]
  BY <1>1 DEF Lists, ReceiptsTypeOK
<1>5. handling' \in [Requests -> Handlings]
  BY <1>1, <1>3 DEF ReceiptsTypeOK, Lists
<1> HIDE DEF row
<1>6. /\ UNCHANGED <<now, sender, lastAt, readAt, shown, furthest, Sent>>
      /\ crossed' = crossed \cup BeingSent(Other(u))
                    \cup {t \in Sent : sender[t] # u /\ t \notin shown[u] \cup page}
  BY DEF Lists, Sent
<1>7. crossed' \subseteq Times
  <2>1. BeingSent(Other(u)) \subseteq Times
    BY <1>1 DEF BeingSent, TimesTaken, Underway
  <2> QED
    BY <1>1, <1>6, <2>1 DEF ReceiptsTypeOK, Sent
<1>8. ReceiptsTypeOK'
  BY <1>1, <1>5, <1>6, <1>7 DEF ReceiptsTypeOK
<1>9. TimesTaken'
  <2>1. ASSUME NEW p \in Requests PROVE Underway(p)'
    <3>1. now \in Times
      BY <1>1 DEF ReceiptsTypeOK
    <3>2. CASE p = r
      BY <1>2, <1>4, <1>6, <3>1, <3>2 DEF Underway, Times, Never
    <3>3. CASE p # r
      BY <1>1, <1>4, <1>6, <3>3 DEF TimesTaken, Underway
    <3> QED
      BY <3>2, <3>3
  <2> QED
    BY <1>1, <1>2, <1>4, <1>6, <2>1 DEF TimesTaken
<1>10. \A v \in Participants, t \in Times : Wrote(v, t)' => Wrote(v, t)
  BY <1>2, <1>4, <1>6 DEF Wrote
<1>11. \A t \in Times : Wrote(Other(u), t) => t \in shown[u] \cup page \cup crossed'
  BY <1>6, OtherParticipant DEF Wrote, BeingSent
<1>12. ReadingsAccount'
  <2>1. \A v \in Participants : Accounted(v, readAt[v], shown[v])'
    BY <1>1, <1>6, <1>10, OtherParticipant DEF ReadingsAccount, Accounted
  <2>2. ASSUME NEW p \in Requests PROVE ReaderAccounts(p)'
    <3>1. CASE p = r
      <4>1. Accounted(u, MaxTime, shown[u] \cup page)'
        BY <1>6, <1>10, <1>11, OtherParticipant DEF Accounted
      <4> QED
        BY <1>2, <1>4, <3>1, <4>1 DEF ReaderAccounts, Accounted
    <3>2. CASE p # r
      <4>1. handling'[p] = handling[p] /\ crossed \subseteq crossed'
        BY <1>4, <1>6, <3>2
      <4> QED
        BY <1>1, <1>6, <1>10, <4>1, ReaderStays DEF ReadingsAccount, TimesTaken
    <3> QED
      BY <3>1, <3>2
  <2> QED
    BY <2>1, <2>2 DEF ReadingsAccount
<1>13. LastIsSent'
  BY <1>1, <1>6 DEF LastIsSent
<1>14. ShownWasSent'
  BY <1>1, <1>2, <1>4, <1>6 DEF ShownWasSent
<1> QED
  BY <1>8, <1>9, <1>12, <1>13, <1>14 DEF ReceiptsInv

LEMMA TakeReadAtKeeps ==
  ASSUME ReceiptsInv, NEW r \in Requests, TakeReadAt(r)
  PROVE  ReceiptsInv'
<1> DEFINE row == [handling[r] EXCEPT !.op = "mark", !.at = now + 1]
<1> USE TimesAssumption
<1>1. ReceiptsTypeOK /\ TimesTaken /\ ReadingsAccount /\ LastIsSent /\ ShownWasSent
  BY DEF ReceiptsInv
<1>2. now + 1 \in Times /\ now \in Times /\ now' = now + 1
  BY <1>1 DEF ReceiptsTypeOK, TakeReadAt, Times
<1>3. handling[r] \in Handlings /\ handling[r].op = "read"
  BY <1>1 DEF ReceiptsTypeOK, TakeReadAt
<1>4. PICK w \in Participants : handling[r].who = w
  BY <1>1, <1>3 DEF TimesTaken, Underway
<1>5. /\ row.op = "mark" /\ row.who = w /\ row.at = now + 1 /\ row.page = handling[r].page
      /\ row \in Handlings
  BY <1>2, <1>3, <1>4 DEF Handlings
<1>6. handling' \in [Requests -> Handlings]
  BY <1>1, <1>5 DEF ReceiptsTypeOK, TakeReadAt
<1>7. \A p \in Requests : handling'[p] = IF p = r THEN row ELSE handling[p]
  BY <1>1 DEF ReceiptsTypeOK, TakeReadAt
<1> HIDE DEF row
<1>8. UNCHANGED <<sender, lastAt, readAt, shown, furthest, crossed, Sent>>
  BY DEF TakeReadAt, Sent
<1>9. ReceiptsTypeOK'
  BY <1>1, <1>2, <1>6, <1>8 DEF ReceiptsTypeOK
<1>10. TimesTaken'
  <2>1. ASSUME NEW p \in Requests PROVE Underway(p)'
    <3>1. CASE p = r
      BY <1>2, <1>5, <1>7, <3>1 DEF Underway, Times
    <3>2. CASE p # r
      <4>1. Underway(p) /\ handling'[p] = handling[p] /\ handling[p].at \in Times \cup {Never}
        BY <1>1, <1>7, <3>2 DEF TimesTaken, ReceiptsTypeOK, Handlings
      <4>2. handling[p].at <= now + 1
        BY <1>2, <4>1 DEF Underway, Times, Never
      <4> QED
        BY <1>2, <1>8, <4>1, <4>2 DEF Underway
    <3> QED
      BY <3>1, <3>2
  <2>2. \A v \in Participants : readAt'[v] <= now'
    <3> TAKE v \in Participants
    <3>1. readAt[v] <= now /\ readAt[v] \in Times \cup {Never}
      BY <1>1 DEF TimesTaken, ReceiptsTypeOK
    <3> QED
      BY <1>2, <1>8, <3>1 DEF Times, Never
  <2>3. \A t \in Sent' : t <= now'
    <3> TAKE t \in Sent'
    <3>1. t \in Sent /\ t \in Times /\ t <= now
      BY <1>1, <1>8 DEF TimesTaken, Sent
    <3> QED
      BY <1>2, <3>1 DEF Times
  <2>4. \A p, q \in Requests :
          (handling'[p].op = "send" /\ handling'[q].op = "send" /\ handling'[p].at = handling'[q].at)
            => p = q
    BY <1>1, <1>5, <1>7 DEF TimesTaken
  <2> QED
    BY <2>1, <2>2, <2>3, <2>4 DEF TimesTaken
<1>11. \A v \in Participants, t \in Times : Wrote(v, t)' => Wrote(v, t)
  BY <1>5, <1>7, <1>8 DEF Wrote
<1>12. ReadingsAccount'
  <2>1. \A v \in Participants : Accounted(v, readAt[v], shown[v])'
    BY <1>1, <1>8, <1>11, OtherParticipant DEF ReadingsAccount, Accounted
  <2>2. ASSUME NEW p \in Requests PROVE ReaderAccounts(p)'
    <3>1. CASE p = r
      <4>1. Accounted(w, MaxTime, shown[w] \cup handling[r].page)
        BY <1>1, <1>3, <1>4 DEF ReadingsAccount, ReaderAccounts
      <4>2. \A t \in Times : Wrote(Other(w), t)' => t \in (shown[w] \cup handling[r].page) \cup crossed
        BY <1>11, <4>1, OtherParticipant DEF Accounted, Times
      <4> QED
        BY <1>5, <1>7, <1>8, <3>1, <4>2 DEF ReaderAccounts, Accounted
    <3>2. CASE p # r
      BY <1>1, <1>7, <1>8, <1>11, <3>2, ReaderStays DEF ReadingsAccount, TimesTaken
    <3> QED
      BY <3>1, <3>2
  <2> QED
    BY <2>1, <2>2 DEF ReadingsAccount
<1>13. LastIsSent'
  BY <1>1, <1>8 DEF LastIsSent
<1>14. ShownWasSent'
  <2>1. ASSUME NEW p \in Requests, NEW t \in handling'[p].page
        PROVE  t \in Sent' /\ (handling'[p].op = "mark" => t <= handling'[p].at)
    <3>1. CASE p = r
      <4>1. t \in Sent /\ t <= now /\ t \in Times
        BY <1>1, <1>5, <1>7, <2>1, <3>1 DEF ShownWasSent, TimesTaken, Sent
      <4> QED
        BY <1>2, <1>5, <1>7, <1>8, <3>1, <4>1 DEF Times
    <3>2. CASE p # r
      BY <1>1, <1>7, <1>8, <2>1, <3>2 DEF ShownWasSent
    <3> QED
      BY <3>1, <3>2
  <2> QED
    BY <1>1, <1>8, <2>1 DEF ShownWasSent
<1> QED
  BY <1>9, <1>10, <1>12, <1>13, <1>14 DEF ReceiptsInv

LEMMA CommitReadAtKeeps ==
  ASSUME ReceiptsInv, NEW r \in Requests, CommitReadAt(r)
  PROVE  ReceiptsInv'
<1>1. ReceiptsTypeOK /\ TimesTaken /\ ReadingsAccount /\ LastIsSent /\ ShownWasSent
  BY DEF ReceiptsInv
<1>2. PICK w \in Participants, at \in Times, page \in SUBSET Times :
        /\ handling[r].op = "mark" /\ handling[r].who = w
        /\ handling[r].at = at /\ handling[r].page = page /\ at <= now
  <2>1. handling[r] \in Handlings
    BY <1>1 DEF ReceiptsTypeOK
  <2> QED
    BY <1>1, <2>1 DEF CommitReadAt, TimesTaken, Underway, Handlings
<1>3. /\ UNCHANGED <<now, sender, lastAt, crossed, Sent>>
      /\ readAt' = [readAt EXCEPT ![w] = at]
      /\ shown' = [shown EXCEPT ![w] = @ \cup page]
      /\ furthest' = [furthest EXCEPT ![w] = IF at > @ THEN at ELSE @]
      /\ handling' = [handling EXCEPT ![r] = NotHandling]
  BY <1>2 DEF CommitReadAt, WithReadAt, Sent
<1>4. \A p \in Requests : handling'[p] = IF p = r THEN NotHandling ELSE handling[p]
  BY <1>1, <1>3 DEF ReceiptsTypeOK
<1>5. \A v \in Participants :
        /\ readAt'[v] = IF v = w THEN at ELSE readAt[v]
        /\ shown'[v] = IF v = w THEN shown[v] \cup page ELSE shown[v]
        /\ furthest'[v] = IF v = w /\ at > furthest[v] THEN at ELSE furthest[v]
  BY <1>1, <1>3 DEF ReceiptsTypeOK
<1>6. ReceiptsTypeOK'
  <2>1. NotHandling \in Handlings
    BY DEF NotHandling, Handlings
  <2>2. handling' \in [Requests -> Handlings] /\ readAt' \in [Participants -> Times \cup {Never}]
    BY <1>1, <1>2, <1>3, <2>1 DEF ReceiptsTypeOK
  <2>3. shown' \in [Participants -> SUBSET Times]
    BY <1>1, <1>2, <1>3 DEF ReceiptsTypeOK
  <2>4. furthest' \in [Participants -> Times \cup {Never}]
    BY <1>1, <1>2, <1>3 DEF ReceiptsTypeOK
  <2> QED
    BY <1>1, <1>3, <2>2, <2>3, <2>4 DEF ReceiptsTypeOK
<1>7. TimesTaken'
  <2>1. ASSUME NEW p \in Requests PROVE Underway(p)'
    <3>1. CASE p = r
      <4>1. now \in Times
        BY <1>1 DEF ReceiptsTypeOK
      <4> QED
        BY <1>3, <1>4, <3>1, <4>1 DEF Underway, NotHandling, Never, Times
    <3>2. CASE p # r
      BY <1>1, <1>3, <1>4, <3>2 DEF TimesTaken, Underway
    <3> QED
      BY <3>1, <3>2
  <2>2. \A v \in Participants : readAt'[v] <= now'
    BY <1>1, <1>2, <1>3, <1>5 DEF TimesTaken
  <2> QED
    BY <1>1, <1>3, <1>4, <2>1, <2>2 DEF TimesTaken, NotHandling
<1>8. \A v \in Participants, t \in Times : Wrote(v, t)' => Wrote(v, t)
  BY <1>3, <1>4 DEF Wrote, NotHandling
<1>9. \A v \in Participants : shown[v] \subseteq shown'[v]
  BY <1>5
<1>10. ReadingsAccount'
  <2>1. ASSUME NEW v \in Participants PROVE Accounted(v, readAt[v], shown[v])'
    <3>1. CASE v = w
      <4>1. Accounted(w, at, shown[w] \cup page)
        BY <1>1, <1>2 DEF ReadingsAccount, ReaderAccounts
      <4> QED
        BY <1>3, <1>5, <1>8, <3>1, <4>1, OtherParticipant DEF Accounted
    <3>2. CASE v # w
      BY <1>1, <1>3, <1>5, <1>8, <3>2, OtherParticipant DEF ReadingsAccount, Accounted
    <3> QED
      BY <3>1, <3>2
  <2>2. ASSUME NEW p \in Requests PROVE ReaderAccounts(p)'
    <3>1. CASE p = r
      BY <1>4, <3>1 DEF ReaderAccounts, NotHandling
    <3>2. CASE p # r
      <4>1. handling'[p] = handling[p] /\ crossed \subseteq crossed'
        BY <1>3, <1>4, <3>2
      <4> QED
        BY <1>1, <1>8, <1>9, <4>1, ReaderStays DEF ReadingsAccount, TimesTaken
    <3> QED
      BY <3>1, <3>2
  <2> QED
    BY <2>1, <2>2 DEF ReadingsAccount
<1>11. LastIsSent'
  BY <1>1, <1>3 DEF LastIsSent
<1>12. ShownWasSent'
  <2>1. ASSUME NEW v \in Participants, NEW t \in shown'[v]
        PROVE  t \in Sent' /\ t <= furthest'[v]
    <3>1. CASE t \in shown[v]
      <4>1. t \in Sent /\ t <= furthest[v] /\ t \in Times /\ furthest[v] \in Times \cup {Never}
        BY <1>1, <3>1 DEF ShownWasSent, ReceiptsTypeOK, Sent
      <4> QED
        BY <1>2, <1>3, <1>5, <4>1 DEF Times, Never
    <3>2. CASE v = w /\ t \in page
      <4>1. t \in Sent /\ t <= at /\ t \in Times /\ furthest[v] \in Times \cup {Never}
        BY <1>1, <1>2, <3>2 DEF ShownWasSent, ReceiptsTypeOK
      <4> QED
        BY <1>2, <1>3, <1>5, <3>2, <4>1 DEF Times, Never
    <3> QED
      BY <1>5, <2>1, <3>1, <3>2
  <2>2. \A p \in Requests : \A t \in handling'[p].page :
          t \in Sent' /\ (handling'[p].op = "mark" => t <= handling'[p].at)
    BY <1>1, <1>3, <1>4 DEF ShownWasSent, NotHandling
  <2> QED
    BY <2>1, <2>2 DEF ShownWasSent
<1> QED
  BY <1>6, <1>7, <1>10, <1>11, <1>12 DEF ReceiptsInv

LEMMA AbandonKeeps ==
  ASSUME ReceiptsInv, NEW r \in Requests, Abandon(r)
  PROVE  ReceiptsInv'
<1>1. ReceiptsTypeOK /\ TimesTaken /\ ReadingsAccount /\ LastIsSent /\ ShownWasSent
  BY DEF ReceiptsInv
<1>2. /\ UNCHANGED <<now, sender, lastAt, readAt, shown, furthest, crossed, Sent>>
      /\ handling' = [handling EXCEPT ![r] = NotHandling]
  BY DEF Abandon, Sent
<1>3. \A p \in Requests : handling'[p] = IF p = r THEN NotHandling ELSE handling[p]
  BY <1>1, <1>2 DEF ReceiptsTypeOK
<1>4. ReceiptsTypeOK'
  <2>1. NotHandling \in Handlings
    BY DEF NotHandling, Handlings
  <2> QED
    BY <1>1, <1>2, <2>1 DEF ReceiptsTypeOK
<1>5. TimesTaken'
  <2>1. ASSUME NEW p \in Requests PROVE Underway(p)'
    <3>1. CASE p = r
      <4>1. now \in Times
        BY <1>1 DEF ReceiptsTypeOK
      <4> QED
        BY <1>2, <1>3, <3>1, <4>1 DEF Underway, NotHandling, Never, Times
    <3>2. CASE p # r
      BY <1>1, <1>2, <1>3, <3>2 DEF TimesTaken, Underway
    <3> QED
      BY <3>1, <3>2
  <2> QED
    BY <1>1, <1>2, <1>3, <2>1 DEF TimesTaken, NotHandling
<1>6. \A v \in Participants, t \in Times : Wrote(v, t)' => Wrote(v, t)
  BY <1>2, <1>3 DEF Wrote, NotHandling
<1>7. ReadingsAccount'
  <2>1. \A v \in Participants : Accounted(v, readAt[v], shown[v])'
    BY <1>1, <1>2, <1>6, OtherParticipant DEF ReadingsAccount, Accounted
  <2>2. ASSUME NEW p \in Requests PROVE ReaderAccounts(p)'
    <3>1. CASE p = r
      BY <1>3, <3>1 DEF ReaderAccounts, NotHandling
    <3>2. CASE p # r
      BY <1>1, <1>2, <1>3, <1>6, <3>2, ReaderStays DEF ReadingsAccount, TimesTaken
    <3> QED
      BY <3>1, <3>2
  <2> QED
    BY <2>1, <2>2 DEF ReadingsAccount
<1>8. LastIsSent' /\ ShownWasSent'
  BY <1>1, <1>2, <1>3 DEF LastIsSent, ShownWasSent, NotHandling
<1> QED
  BY <1>4, <1>5, <1>7, <1>8 DEF ReceiptsInv

LEMMA ReceiptsStep == ReceiptsInv /\ [ReceiptsNext]_receiptsVars => ReceiptsInv'
<1> SUFFICES ASSUME ReceiptsInv, [ReceiptsNext]_receiptsVars PROVE ReceiptsInv'
  OBVIOUS
<1>1. CASE UNCHANGED receiptsVars
  BY <1>1 DEF receiptsVars, ReceiptsInv, ReceiptsTypeOK, TimesTaken, Underway, ReadingsAccount,
     ReaderAccounts, Accounted, Wrote, LastIsSent, ShownWasSent, Sent
<1>2. ASSUME NEW r \in Requests, NEW u \in Participants, FlushMessage(r, u)
      PROVE  ReceiptsInv'
  BY <1>2, FlushKeeps
<1>3. ASSUME NEW r \in Requests, NEW u \in Participants, OpenThread(r, u) \/ SayRead(r, u)
      PROVE  ReceiptsInv'
  <2>1. PICK page \in SUBSET Sent : Lists(r, u, page)
    BY <1>3 DEF OpenThread, SayRead, Page
  <2> QED
    BY <2>1, ListsKeeps
<1>4. ASSUME NEW r \in Requests, CommitMessage(r) \/ TakeReadAt(r) \/ CommitReadAt(r) \/ Abandon(r)
      PROVE  ReceiptsInv'
  BY <1>4, CommitMessageKeeps, TakeReadAtKeeps, CommitReadAtKeeps, AbandonKeeps
<1> QED
  BY <1>1, <1>2, <1>3, <1>4 DEF ReceiptsNext

LEMMA ReceiptsInvariant == ReceiptsSpec => []ReceiptsInv
<1> QED
  BY InitReceipts, ReceiptsStep, PTL DEF ReceiptsSpec

\* The type invariant of Receipts.
THEOREM ReceiptsTyped == ReceiptsSpec => []ReceiptsTypeOK
<1>1. ReceiptsInv => ReceiptsTypeOK
  BY DEF ReceiptsInv
<1> QED
  BY <1>1, ReceiptsInvariant, PTL

\* Whoever sent a message hears that it was read only after it was shown, or when it
\* crossed the reading (get_thread, mark_read).
LEMMA ToldTruly == ReceiptsInv => ReceiptsAreTrue
<1> SUFFICES ASSUME ReceiptsInv, NEW t \in Sent, t <= readAt[Other(sender[t])]
             PROVE  t \in shown[Other(sender[t])] \cup crossed
  BY DEF ReceiptsAreTrue, InboxItem
<1>1. PICK w \in Participants : w = sender[t]
  BY DEF ReceiptsInv, ReceiptsTypeOK, Sent
<1>2. Other(w) \in Participants /\ Other(Other(w)) = w
  BY OtherParticipant
<1>3. t \in Times /\ Wrote(w, t)
  BY <1>1 DEF Wrote, Sent
<1>4. Accounted(Other(w), readAt[Other(w)], shown[Other(w)])
  BY <1>2 DEF ReceiptsInv, ReadingsAccount
<1> QED
  BY <1>1, <1>2, <1>3, <1>4 DEF Accounted

\* A message that was not shown yet is not taken for read (is_unread_for), unless it
\* crossed a reading or an older message.
LEMMA StaysUnread == ReceiptsInv => NewIsUnread
<1> SUFFICES ASSUME ReceiptsInv, NEW u \in Participants, NEW t \in Sent, IsLast(t),
                    sender[t] # u, t \notin shown[u] \cup crossed
             PROVE  IsUnread(u)
  BY DEF NewIsUnread, InboxItem
<1>1. t \in Times /\ sender[t] \in Participants /\ sender[t] = Other(u)
  BY OtherParticipant DEF ReceiptsInv, ReceiptsTypeOK, Sent
<1>2. readAt[u] \in Times \cup {Never} /\ lastAt \in Times
  BY DEF ReceiptsInv, ReceiptsTypeOK
<1>3. ~(t <= readAt[u])
  BY <1>1 DEF ReceiptsInv, ReadingsAccount, Accounted, Wrote
<1>4. lastAt \in Sent /\ ~(t > lastAt)
  BY DEF ReceiptsInv, LastIsSent
<1>5. lastAt > readAt[u]
  BY <1>1, <1>2, <1>3, <1>4 DEF Times, Never
<1>6. ASSUME NEW s \in Sent, IsLast(s) PROVE s = t
  BY <1>1, <1>6 DEF IsLast, Sent, Times
<1> QED
  BY <1>5, <1>6 DEF IsUnread

\* A thread whose last message was shown is not unread (is_unread_for), unless read_at
\* went back.
LEMMA StaysRead == ReceiptsInv => ReadGoesOut
<1> SUFFICES ASSUME ReceiptsInv, NEW u \in Participants, NEW t \in Sent, IsLast(t),
                    IsUnread(u), readAt[u] = furthest[u], t \in shown[u]
             PROVE  FALSE
  BY DEF ReadGoesOut, InboxItem, IsUnread
<1>1. /\ t \in Times /\ lastAt \in Times
      /\ readAt[u] \in Times \cup {Never} /\ t <= readAt[u]
  BY DEF ReceiptsInv, ReceiptsTypeOK, ShownWasSent, Sent
<1>2. lastAt > readAt[u]
  BY <1>1 DEF IsUnread, Times, Never
<1>3. lastAt <= t
  BY DEF ReceiptsInv, LastIsSent, IsLast
<1> QED
  BY <1>1, <1>2, <1>3 DEF Times, Never

\* What list_inbox says of a conversation is so, whatever is sent and read at once:
\* what is said to be read was shown, what is new is unread, and what was shown is not,
\* but for messages that crossed a reading or an older message, and readings that
\* overlapped.
THEOREM ReadStateHolds == ReceiptsSpec => []ReadStateIsTrue
<1>1. ReceiptsInv => ReadStateIsTrue
  BY ToldTruly, StaysUnread, StaysRead DEF ReadStateIsTrue
<1> QED
  BY <1>1, ReceiptsInvariant, PTL
===============================================================================
