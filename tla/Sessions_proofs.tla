--------------------------- MODULE Sessions_proofs ----------------------------
(***************************************************************************)
(* Theorems about Sessions, for any number of users, sessions, requests    *)
(* and links, with servers that die and a Redis that cannot be reached or  *)
(* loses a key: neither theorem needs a hazard away.                       *)
(***************************************************************************)
EXTENDS Sessions, TLAPS

-----------------------------------------------------------------------------
(* What a request still has to do. *)

StepNames ==
  {"spend", "open", "issue", "drop", "revoke_all", "drop_all", "password", "burn", "anonymise"}

\* The rest of a handler's steps, at any point of it.
Ahead(op, todo) ==
  \/ op = "login" /\ todo \in {<<"open", "issue">>, <<"issue">>}
  \/ op = "refresh" /\ todo \in {<<"spend", "open", "issue">>, <<"open", "issue">>, <<"issue">>}
  \/ op = "logout" /\ todo \in {<<"spend", "drop">>, <<"drop">>}
  \/ op = "logout_all" /\ todo \in {<<"revoke_all", "drop_all">>, <<"drop_all">>}
  \/ op = "change" /\ todo \in {<<"password", "revoke_all", "drop_all", "open", "issue">>,
                                <<"revoke_all", "drop_all", "open", "issue">>,
                                <<"drop_all", "open", "issue">>, <<"open", "issue">>, <<"issue">>}
  \/ op = "reset" /\ todo \in {<<"password", "burn", "revoke_all", "drop_all">>,
                               <<"burn", "revoke_all", "drop_all">>,
                               <<"revoke_all", "drop_all">>, <<"drop_all">>}
  \/ op = "delete" /\ todo \in {<<"anonymise", "revoke_all", "drop_all">>,
                                <<"revoke_all", "drop_all">>, <<"drop_all">>}

Ops == {"login", "refresh", "logout", "logout_all", "change", "reset", "delete"}

LEMMA StepsAhead == DOMAIN Steps = Ops /\ \A op \in Ops : Ahead(op, Steps[op])
BY DEF Steps, Ahead, Ops

Issuers == {"login", "refresh", "change"}

\* The order of the steps, as a graph: what comes after each, and whose it is.
Follows(op, step, next) ==
  \/ step = "spend" /\ op = "refresh" /\ next = "open"
  \/ step = "spend" /\ op = "logout" /\ next = "drop"
  \/ step = "open" /\ op \in Issuers /\ next = "issue"
  \/ step = "password" /\ op = "change" /\ next = "revoke_all"
  \/ step = "password" /\ op = "reset" /\ next = "burn"
  \/ step = "burn" /\ op = "reset" /\ next = "revoke_all"
  \/ step = "anonymise" /\ op = "delete" /\ next = "revoke_all"
  \/ step = "revoke_all" /\ op \in Revokers /\ next = "drop_all"
  \/ step = "drop_all" /\ op = "change" /\ next = "open"

Last(op, step) ==
  \/ step = "issue" /\ op \in Issuers
  \/ step = "drop" /\ op = "logout"
  \/ step = "drop_all" /\ op \in Revokers \ {"change"}

\* The next step, and what is left after it.
LEMMA AheadFacts ==
  ASSUME NEW op, NEW todo, Ahead(op, todo)
  PROVE  /\ op \in Ops /\ todo \in Seq(StepNames)
         /\ \/ Len(todo) = 1 /\ Last(op, Head(todo))
            \/ /\ Len(todo) # 1 /\ Ahead(op, Tail(todo))
               /\ Follows(op, Head(todo), Head(Tail(todo)))
<1>1. CASE op = "login"
  <2>1. CASE todo = <<"open", "issue">>
    <3>1. /\ todo \in Seq(StepNames) /\ Len(todo) = 2 /\ Tail(todo) = <<"issue">>
          /\ Head(todo) = "open" /\ Head(Tail(todo)) = "issue"
      BY <2>1 DEF StepNames
    <3> QED
      BY <1>1, <3>1 DEF Ahead, Follows, Issuers, Revokers, Ops
  <2>2. CASE todo = <<"issue">>
    <3>1. todo \in Seq(StepNames) /\ Len(todo) = 1 /\ Head(todo) = "issue"
      BY <2>2 DEF StepNames
    <3> QED
      BY <1>1, <3>1 DEF Last, Issuers, Revokers, Ops
  <2> QED
    BY <1>1, <2>1, <2>2 DEF Ahead
<1>2. CASE op = "refresh"
  <2>1. CASE todo = <<"spend", "open", "issue">>
    <3>1. /\ todo \in Seq(StepNames) /\ Len(todo) = 3 /\ Tail(todo) = <<"open", "issue">>
          /\ Head(todo) = "spend" /\ Head(Tail(todo)) = "open"
      BY <2>1 DEF StepNames
    <3> QED
      BY <1>2, <3>1 DEF Ahead, Follows, Issuers, Revokers, Ops
  <2>2. CASE todo = <<"open", "issue">>
    <3>1. /\ todo \in Seq(StepNames) /\ Len(todo) = 2 /\ Tail(todo) = <<"issue">>
          /\ Head(todo) = "open" /\ Head(Tail(todo)) = "issue"
      BY <2>2 DEF StepNames
    <3> QED
      BY <1>2, <3>1 DEF Ahead, Follows, Issuers, Revokers, Ops
  <2>3. CASE todo = <<"issue">>
    <3>1. todo \in Seq(StepNames) /\ Len(todo) = 1 /\ Head(todo) = "issue"
      BY <2>3 DEF StepNames
    <3> QED
      BY <1>2, <3>1 DEF Last, Issuers, Revokers, Ops
  <2> QED
    BY <1>2, <2>1, <2>2, <2>3 DEF Ahead
<1>3. CASE op = "logout"
  <2>1. CASE todo = <<"spend", "drop">>
    <3>1. /\ todo \in Seq(StepNames) /\ Len(todo) = 2 /\ Tail(todo) = <<"drop">>
          /\ Head(todo) = "spend" /\ Head(Tail(todo)) = "drop"
      BY <2>1 DEF StepNames
    <3> QED
      BY <1>3, <3>1 DEF Ahead, Follows, Issuers, Revokers, Ops
  <2>2. CASE todo = <<"drop">>
    <3>1. todo \in Seq(StepNames) /\ Len(todo) = 1 /\ Head(todo) = "drop"
      BY <2>2 DEF StepNames
    <3> QED
      BY <1>3, <3>1 DEF Last, Issuers, Revokers, Ops
  <2> QED
    BY <1>3, <2>1, <2>2 DEF Ahead
<1>4. CASE op = "logout_all"
  <2>1. CASE todo = <<"revoke_all", "drop_all">>
    <3>1. /\ todo \in Seq(StepNames) /\ Len(todo) = 2 /\ Tail(todo) = <<"drop_all">>
          /\ Head(todo) = "revoke_all" /\ Head(Tail(todo)) = "drop_all"
      BY <2>1 DEF StepNames
    <3> QED
      BY <1>4, <3>1 DEF Ahead, Follows, Issuers, Revokers, Ops
  <2>2. CASE todo = <<"drop_all">>
    <3>1. todo \in Seq(StepNames) /\ Len(todo) = 1 /\ Head(todo) = "drop_all"
      BY <2>2 DEF StepNames
    <3> QED
      BY <1>4, <3>1 DEF Last, Issuers, Revokers, Ops
  <2> QED
    BY <1>4, <2>1, <2>2 DEF Ahead
<1>5. CASE op = "change"
  <2>1. CASE todo = <<"password", "revoke_all", "drop_all", "open", "issue">>
    <3>1. /\ todo \in Seq(StepNames) /\ Len(todo) = 5 /\ Tail(todo) = <<"revoke_all", "drop_all", "open", "issue">>
          /\ Head(todo) = "password" /\ Head(Tail(todo)) = "revoke_all"
      BY <2>1 DEF StepNames
    <3> QED
      BY <1>5, <3>1 DEF Ahead, Follows, Issuers, Revokers, Ops
  <2>2. CASE todo = <<"revoke_all", "drop_all", "open", "issue">>
    <3>1. /\ todo \in Seq(StepNames) /\ Len(todo) = 4 /\ Tail(todo) = <<"drop_all", "open", "issue">>
          /\ Head(todo) = "revoke_all" /\ Head(Tail(todo)) = "drop_all"
      BY <2>2 DEF StepNames
    <3> QED
      BY <1>5, <3>1 DEF Ahead, Follows, Issuers, Revokers, Ops
  <2>3. CASE todo = <<"drop_all", "open", "issue">>
    <3>1. /\ todo \in Seq(StepNames) /\ Len(todo) = 3 /\ Tail(todo) = <<"open", "issue">>
          /\ Head(todo) = "drop_all" /\ Head(Tail(todo)) = "open"
      BY <2>3 DEF StepNames
    <3> QED
      BY <1>5, <3>1 DEF Ahead, Follows, Issuers, Revokers, Ops
  <2>4. CASE todo = <<"open", "issue">>
    <3>1. /\ todo \in Seq(StepNames) /\ Len(todo) = 2 /\ Tail(todo) = <<"issue">>
          /\ Head(todo) = "open" /\ Head(Tail(todo)) = "issue"
      BY <2>4 DEF StepNames
    <3> QED
      BY <1>5, <3>1 DEF Ahead, Follows, Issuers, Revokers, Ops
  <2>5. CASE todo = <<"issue">>
    <3>1. todo \in Seq(StepNames) /\ Len(todo) = 1 /\ Head(todo) = "issue"
      BY <2>5 DEF StepNames
    <3> QED
      BY <1>5, <3>1 DEF Last, Issuers, Revokers, Ops
  <2> QED
    BY <1>5, <2>1, <2>2, <2>3, <2>4, <2>5 DEF Ahead
<1>6. CASE op = "reset"
  <2>1. CASE todo = <<"password", "burn", "revoke_all", "drop_all">>
    <3>1. /\ todo \in Seq(StepNames) /\ Len(todo) = 4 /\ Tail(todo) = <<"burn", "revoke_all", "drop_all">>
          /\ Head(todo) = "password" /\ Head(Tail(todo)) = "burn"
      BY <2>1 DEF StepNames
    <3> QED
      BY <1>6, <3>1 DEF Ahead, Follows, Issuers, Revokers, Ops
  <2>2. CASE todo = <<"burn", "revoke_all", "drop_all">>
    <3>1. /\ todo \in Seq(StepNames) /\ Len(todo) = 3 /\ Tail(todo) = <<"revoke_all", "drop_all">>
          /\ Head(todo) = "burn" /\ Head(Tail(todo)) = "revoke_all"
      BY <2>2 DEF StepNames
    <3> QED
      BY <1>6, <3>1 DEF Ahead, Follows, Issuers, Revokers, Ops
  <2>3. CASE todo = <<"revoke_all", "drop_all">>
    <3>1. /\ todo \in Seq(StepNames) /\ Len(todo) = 2 /\ Tail(todo) = <<"drop_all">>
          /\ Head(todo) = "revoke_all" /\ Head(Tail(todo)) = "drop_all"
      BY <2>3 DEF StepNames
    <3> QED
      BY <1>6, <3>1 DEF Ahead, Follows, Issuers, Revokers, Ops
  <2>4. CASE todo = <<"drop_all">>
    <3>1. todo \in Seq(StepNames) /\ Len(todo) = 1 /\ Head(todo) = "drop_all"
      BY <2>4 DEF StepNames
    <3> QED
      BY <1>6, <3>1 DEF Last, Issuers, Revokers, Ops
  <2> QED
    BY <1>6, <2>1, <2>2, <2>3, <2>4 DEF Ahead
<1>7. CASE op = "delete"
  <2>1. CASE todo = <<"anonymise", "revoke_all", "drop_all">>
    <3>1. /\ todo \in Seq(StepNames) /\ Len(todo) = 3 /\ Tail(todo) = <<"revoke_all", "drop_all">>
          /\ Head(todo) = "anonymise" /\ Head(Tail(todo)) = "revoke_all"
      BY <2>1 DEF StepNames
    <3> QED
      BY <1>7, <3>1 DEF Ahead, Follows, Issuers, Revokers, Ops
  <2>2. CASE todo = <<"revoke_all", "drop_all">>
    <3>1. /\ todo \in Seq(StepNames) /\ Len(todo) = 2 /\ Tail(todo) = <<"drop_all">>
          /\ Head(todo) = "revoke_all" /\ Head(Tail(todo)) = "drop_all"
      BY <2>2 DEF StepNames
    <3> QED
      BY <1>7, <3>1 DEF Ahead, Follows, Issuers, Revokers, Ops
  <2>3. CASE todo = <<"drop_all">>
    <3>1. todo \in Seq(StepNames) /\ Len(todo) = 1 /\ Head(todo) = "drop_all"
      BY <2>3 DEF StepNames
    <3> QED
      BY <1>7, <3>1 DEF Last, Issuers, Revokers, Ops
  <2> QED
    BY <1>7, <2>1, <2>2, <2>3 DEF Ahead
<1> QED
  BY <1>1, <1>2, <1>3, <1>4, <1>5, <1>6, <1>7 DEF Ahead, Ops

-----------------------------------------------------------------------------
(* Types, and what requests and sessions know of each other. *)

\* A request has somebody's, and what it was sent with; the session it opened is
\* its own, of its chain and its era.
KnownRow(row) ==
  /\ Ahead(row.op, row.todo) /\ row.user \in Users /\ row.era <= account[row.user].era
  /\ row.op \in {"refresh", "logout"} => row.from \in Sessions /\ session[row.from].token # "none"
  /\ Head(row.todo) = "issue" =>
       /\ row.new \in Sessions
       /\ session[row.new].user = row.user /\ session[row.new].era = row.era
       /\ session[row.new].chain =
            IF row.op = "refresh" THEN session[row.from].chain ELSE row.new

RequestsKnown == \A r \in Requests : request[r] = Idle \/ KnownRow(request[r])

SessionsKnown ==
  \A s \in Sessions :
    \/ session[s] = NoRow
    \/ /\ session[s].user \in Users /\ session[s].era <= account[session[s].user].era
       /\ session[s].chain \in Sessions

Sound == TypeOK /\ RequestsKnown /\ SessionsKnown

LEMMA RowTypes ==
  /\ Idle \in RequestRows /\ Idle.op = "none" /\ Idle.user = NoUser
  /\ NoRow \in SessionRows /\ NoRow.token = "none" /\ NoRow.user = NoUser /\ ~NoRow.redis
  /\ NoRow.chain = NoSession
<1>1. <<>> \in Seq(StepNames)
  OBVIOUS
<1> QED
  BY <1>1, SessionsAssumption DEF Idle, RequestRows, NoRow, SessionRows, Eras, StepNames

LEMMA Typing ==
  ASSUME TypeOK
  PROVE  /\ \A r \in Requests : request[r] \in RequestRows
         /\ \A s \in Sessions : session[s] \in SessionRows
         /\ \A u \in Users : account[u] \in [password : BOOLEAN, deleted : BOOLEAN, era : Eras]
BY DEF TypeOK

\* One step on.
LEMMA AdvancedRow ==
  ASSUME NEW row \in RequestRows, Ahead(row.op, row.todo)
  PROVE  \/ Advanced(row) = Idle /\ Last(row.op, Head(row.todo))
         \/ /\ Advanced(row) \in RequestRows
            /\ Advanced(row).op = row.op /\ Advanced(row).user = row.user
            /\ Advanced(row).from = row.from /\ Advanced(row).new = row.new
            /\ Advanced(row).era = row.era /\ Advanced(row).raced = row.raced
            /\ Ahead(row.op, Advanced(row).todo)
            /\ Follows(row.op, Head(row.todo), Head(Advanced(row).todo))
<1>1. row.todo \in Seq(StepNames)
  BY AheadFacts
<1>2. CASE Len(row.todo) = 1
  BY <1>2, AheadFacts DEF Advanced
<1>3. CASE Len(row.todo) # 1
  <2>1. Advanced(row) = [row EXCEPT !.todo = Tail(row.todo)]
    BY <1>3 DEF Advanced
  <2>2. /\ Ahead(row.op, Tail(row.todo)) /\ Tail(row.todo) \in Seq(StepNames)
        /\ Follows(row.op, Head(row.todo), Head(Tail(row.todo)))
    BY <1>3, AheadFacts
  <2> DEFINE rest == Tail(row.todo)
  <2> HIDE DEF rest
  <2>3. Advanced(row) = [row EXCEPT !.todo = rest]
    BY <2>1 DEF rest
  <2>4. rest \in Seq(StepNames)
    BY <2>2 DEF rest
  <2>5. /\ Advanced(row) \in RequestRows /\ Advanced(row).todo = rest
        /\ Advanced(row).op = row.op /\ Advanced(row).user = row.user
        /\ Advanced(row).from = row.from /\ Advanced(row).new = row.new
        /\ Advanced(row).era = row.era /\ Advanced(row).raced = row.raced
    BY <2>3, <2>4 DEF RequestRows, StepNames
  <2> QED
    BY <2>2, <2>5 DEF rest
<1> QED
  BY <1>2, <1>3

\* The step at which a user's era begins.
Starts(r) ==
  \/ Head(request[r].todo) \in {"password", "anonymise"}
  \/ Head(request[r].todo) = "revoke_all" /\ request[r].op = "logout_all"

\* What a step makes of its request: "row" with that step done.
Moves(r, row) ==
  /\ row \in RequestRows
  /\ row.op = request[r].op /\ row.todo = request[r].todo /\ row.user = request[r].user
  /\ row.from = request[r].from /\ row.raced = request[r].raced
  /\ Head(request[r].todo) # "open" => row.new = request[r].new
  /\ IF Starts(r) THEN row.era = NextEra(row.user) /\ account'[row.user].era = row.era
     ELSE row.era = request[r].era
  /\ request'[r] = Advanced(row)

\* ... and of the others.
Stays(q) ==
  /\ request[q] = Idle => request'[q] = Idle
  /\ request'[q].op = request[q].op /\ request'[q].todo = request[q].todo
  /\ request'[q].user = request[q].user /\ request'[q].from = request[q].from
  /\ request'[q].new = request[q].new /\ request'[q].era = request[q].era
  /\ request[q].raced => request'[q].raced

LEMMA DoingKnown ==
  ASSUME Sound, NEW r \in Requests, request[r] # Idle
  PROVE  /\ KnownRow(request[r]) /\ request[r] \in RequestRows /\ request[r].op \in Ops
         /\ request[r].user \in Users
         /\ Last(request[r].op, Head(request[r].todo))
            \/ \E next : Follows(request[r].op, Head(request[r].todo), next)
BY AheadFacts DEF Sound, RequestsKnown, TypeOK, KnownRow

\* Steps that only move their own request on.
LEMMA PlainMoves ==
  ASSUME Sound, NEW r \in Requests, request[r] # Idle, ~Starts(r), Head(request[r].todo) # "open",
         request' = [request EXCEPT ![r] = Advanced(request[r])]
  PROVE  /\ Moves(r, request[r]) /\ \A q \in Requests : q # r => Stays(q)
         /\ request' \in [Requests -> RequestRows]
<1>1. request[r] \in RequestRows /\ Ahead(request[r].op, request[r].todo)
  BY DoingKnown DEF KnownRow
<1>2. Advanced(request[r]) \in RequestRows
  BY <1>1, AdvancedRow, RowTypes
<1> QED
  BY <1>1, <1>2 DEF Moves, Stays, Sound, TypeOK

LEMMA EraNext ==
  ASSUME Sound, NEW u \in Users, account[u].era < MaxEra
  PROVE  NextEra(u) \in Eras /\ account[u].era \in Nat /\ NextEra(u) = account[u].era + 1
BY SessionsAssumption DEF Sound, TypeOK, Eras, NextEra

LEMMA StartingMoves ==
  ASSUME Sound, NEW r \in Requests, SetPassword(r) \/ Anonymise(r)
  PROVE  /\ \E row : Moves(r, row)
         /\ \A q \in Requests : q # r => Stays(q)
         /\ request' \in [Requests -> RequestRows]
         /\ account' \in [Users -> [password : BOOLEAN, deleted : BOOLEAN, era : Eras]]
         /\ \A u \in Users : account[u].era <= account'[u].era
<1> DEFINE u == request[r].user
           row == [request[r] EXCEPT !.era = NextEra(u)]
<1>1. /\ request[r] \in RequestRows /\ Ahead(request[r].op, request[r].todo) /\ u \in Users
      /\ Starts(r) /\ Head(request[r].todo) # "open"
  BY DoingKnown DEF SetPassword, Anonymise, Doing, KnownRow, Starts
<1>2. NextEra(u) \in Eras /\ account[u].era \in Nat /\ NextEra(u) = account[u].era + 1
  BY <1>1, EraNext DEF SetPassword, Anonymise
<1>3. request' = [request EXCEPT ![r] = Advanced(row)]
  BY DEF SetPassword, Anonymise
<1>4. \E new \in [password : BOOLEAN, deleted : BOOLEAN, era : Eras] :
        new.era = NextEra(u) /\ account' = [account EXCEPT ![u] = new]
  <2>1. CASE SetPassword(r)
    <3> DEFINE new == [account[u] EXCEPT !.password = TRUE, !.era = NextEra(u)]
    <3>1. account[u] \in [password : BOOLEAN, deleted : BOOLEAN, era : Eras]
      BY <1>1, Typing DEF Sound
    <3>2. new \in [password : BOOLEAN, deleted : BOOLEAN, era : Eras] /\ new.era = NextEra(u)
      BY <1>2, <3>1
    <3>3. [account EXCEPT ![u].password = TRUE, ![u].era = NextEra(u)] = [account EXCEPT ![u] = new]
      BY <1>1 DEF Sound, TypeOK
    <3>4. account' = [account EXCEPT ![u] = new]
      BY <2>1, <3>3 DEF SetPassword
    <3> HIDE DEF new
    <3> QED
      BY <3>2, <3>4
  <2>2. CASE Anonymise(r)
    <3>1. [password |-> FALSE, deleted |-> TRUE, era |-> NextEra(u)]
            \in [password : BOOLEAN, deleted : BOOLEAN, era : Eras]
      BY <1>2
    <3> QED
      BY <2>2, <3>1 DEF Anonymise
  <2> QED
    BY <2>1, <2>2
<1>5. /\ account' \in [Users -> [password : BOOLEAN, deleted : BOOLEAN, era : Eras]]
      /\ account'[u].era = NextEra(u)
      /\ \A x \in Users : x # u => account'[x] = account[x]
  BY <1>1, <1>2, <1>4 DEF Sound, TypeOK
<1>6. /\ row \in RequestRows
      /\ row.op = request[r].op /\ row.todo = request[r].todo /\ row.user = u
      /\ row.from = request[r].from /\ row.raced = request[r].raced
      /\ row.new = request[r].new /\ row.era = NextEra(u)
  BY <1>1, <1>2 DEF RequestRows
<1> HIDE DEF row
<1>7. Advanced(row) \in RequestRows
  BY <1>1, <1>6, AdvancedRow, RowTypes
<1>8. Moves(r, row)
  BY <1>1, <1>3, <1>5, <1>6 DEF Moves, Sound, TypeOK
<1>9. /\ \A q \in Requests : q # r => Stays(q)
      /\ request' \in [Requests -> RequestRows]
  BY <1>3, <1>7 DEF Stays, Sound, TypeOK
<1>10. \A x \in Users : account[x].era \in Nat
  BY SessionsAssumption DEF Sound, TypeOK, Eras
<1>11. \A x \in Users : account[x].era <= account'[x].era
  BY <1>2, <1>5, <1>10
<1> QED
  BY <1>5, <1>8, <1>9, <1>11

LEMMA RevokingMoves ==
  ASSUME Sound, NEW r \in Requests, RevokeAll(r)
  PROVE  /\ \E row : Moves(r, row)
         /\ \A q \in Requests : q # r => Stays(q) /\ (Overlap(q, r, request[r].user) => request'[q].raced)
         /\ request' \in [Requests -> RequestRows]
         /\ account' \in [Users -> [password : BOOLEAN, deleted : BOOLEAN, era : Eras]]
         /\ \A u \in Users : account[u].era <= account'[u].era
<1> DEFINE u == request[r].user
           first == request[r].op = "logout_all"
           era == IF first THEN NextEra(u) ELSE request[r].era
           row == [request[r] EXCEPT !.era = era]
           b(q) == request[q].raced \/ Overlap(q, r, u)
<1>1. /\ request[r] \in RequestRows /\ Ahead(request[r].op, request[r].todo) /\ u \in Users
      /\ Head(request[r].todo) = "revoke_all" /\ (Starts(r) <=> first)
  BY DoingKnown DEF RevokeAll, Doing, KnownRow, Starts
<1>2. first => NextEra(u) \in Eras /\ account[u].era \in Nat /\ NextEra(u) = account[u].era + 1
  BY <1>1, EraNext DEF RevokeAll
<1>3. /\ account' = IF first THEN [account EXCEPT ![u].era = NextEra(u)] ELSE account
      /\ request' = [q \in Requests |-> IF q = r THEN Advanced(row) ELSE [request[q] EXCEPT !.raced = b(q)]]
  BY DEF RevokeAll
<1>4. /\ account' \in [Users -> [password : BOOLEAN, deleted : BOOLEAN, era : Eras]]
      /\ first => account'[u].era = NextEra(u)
      /\ \A x \in Users : x # u \/ ~first => account'[x] = account[x]
  BY <1>1, <1>2, <1>3 DEF Sound, TypeOK
<1>5. era \in Eras
  BY <1>1, <1>2 DEF RequestRows
<1> HIDE DEF era
<1>6. /\ row \in RequestRows
      /\ row.op = request[r].op /\ row.todo = request[r].todo /\ row.user = u
      /\ row.from = request[r].from /\ row.raced = request[r].raced
      /\ row.new = request[r].new /\ row.era = era
  BY <1>1, <1>5 DEF RequestRows
<1> HIDE DEF row
<1>7. Advanced(row) \in RequestRows
  BY <1>1, <1>6, AdvancedRow, RowTypes
<1>8. request'[r] = Advanced(row)
  BY <1>3
<1>9. Moves(r, row)
  BY <1>1, <1>4, <1>6, <1>8 DEF Moves, era
<1>10. ASSUME NEW q \in Requests, q # r
       PROVE  Stays(q) /\ (b(q) => request'[q].raced) /\ request'[q] \in RequestRows
  <2>1. request[q] \in RequestRows /\ b(q) \in BOOLEAN
    BY Typing DEF Sound, RequestRows
  <2>2. request'[q] = [request[q] EXCEPT !.raced = b(q)]
    BY <1>3, <1>10
  <2>3. request[q] = Idle => b(q) = FALSE
    BY <1>1, RowTypes, SessionsAssumption DEF Overlap, Idle
  <2> HIDE DEF b
  <2>4. request[q] = Idle => request'[q] = Idle
    <3>1. [request[q] EXCEPT !.raced = request[q].raced] = request[q]
      BY <2>1 DEF RequestRows
    <3>2. Idle.raced = FALSE
      BY DEF Idle
    <3> QED
      BY <2>2, <2>3, <3>1, <3>2
  <2>5. /\ request'[q] \in RequestRows
        /\ request'[q].op = request[q].op /\ request'[q].todo = request[q].todo
        /\ request'[q].user = request[q].user /\ request'[q].from = request[q].from
        /\ request'[q].new = request[q].new /\ request'[q].era = request[q].era
        /\ request'[q].raced = b(q)
    BY <2>1, <2>2 DEF RequestRows
  <2>6. request[q].raced => b(q)
    BY DEF b
  <2> QED
    BY <2>4, <2>5, <2>6 DEF Stays
<1>11. \A x \in Users : account[x].era \in Nat
  BY SessionsAssumption DEF Sound, TypeOK, Eras
<1>12. \A x \in Users : account[x].era <= account'[x].era
  BY <1>2, <1>4, <1>11
<1>13. request' \in [Requests -> RequestRows]
  <2>1. \A q \in Requests : request'[q] \in RequestRows
    BY <1>7, <1>8, <1>10
  <2>2. request' = [q \in Requests |-> request'[q]]
    BY <1>3
  <2> QED
    BY <2>1, <2>2
<1> QED
  BY <1>4, <1>9, <1>10, <1>12, <1>13

LEMMA OpeningMoves ==
  ASSUME Sound, NEW r \in Requests, NEW s \in Sessions, OpenSession(r, s)
  PROVE  /\ \E row : Moves(r, row) /\ row.new = s
         /\ \A q \in Requests : q # r => Stays(q)
         /\ request' \in [Requests -> RequestRows]
<1> DEFINE row == [request[r] EXCEPT !.new = s]
<1>1. /\ request[r] \in RequestRows /\ Ahead(request[r].op, request[r].todo)
      /\ Head(request[r].todo) = "open" /\ ~Starts(r)
  BY DoingKnown DEF OpenSession, Doing, KnownRow, Starts
<1>2. request' = [request EXCEPT ![r] = Advanced(row)]
  BY DEF OpenSession
<1>3. /\ row \in RequestRows
      /\ row.op = request[r].op /\ row.todo = request[r].todo /\ row.user = request[r].user
      /\ row.from = request[r].from /\ row.raced = request[r].raced
      /\ row.new = s /\ row.era = request[r].era
  BY <1>1 DEF RequestRows
<1> HIDE DEF row
<1>4. Advanced(row) \in RequestRows
  BY <1>1, <1>3, AdvancedRow, RowTypes
<1>5. Moves(r, row)
  BY <1>1, <1>2, <1>3 DEF Moves, Sound, TypeOK
<1>6. /\ \A q \in Requests : q # r => Stays(q)
      /\ request' \in [Requests -> RequestRows]
  BY <1>2, <1>4 DEF Stays, Sound, TypeOK
<1> QED
  BY <1>3, <1>5, <1>6

LEMMA StepMoves ==
  ASSUME Sound, NEW r \in Requests, Step(r)
  PROVE  /\ request[r] # Idle
         /\ \E row : Moves(r, row)
         /\ \A q \in Requests : q # r => Stays(q)
         /\ request' \in [Requests -> RequestRows]
         /\ account' \in [Users -> [password : BOOLEAN, deleted : BOOLEAN, era : Eras]]
         /\ \A u \in Users : account[u].era <= account'[u].era
<1>1. /\ account \in [Users -> [password : BOOLEAN, deleted : BOOLEAN, era : Eras]]
      /\ \A u \in Users : account[u].era <= account[u].era
  BY SessionsAssumption DEF Sound, TypeOK, Eras
<1>2. CASE SetPassword(r) \/ Anonymise(r)
  BY <1>2, StartingMoves DEF SetPassword, Anonymise, Doing
<1>3. CASE RevokeAll(r)
  BY <1>3, RevokingMoves DEF RevokeAll, Doing
<1>4. CASE \E s \in Sessions : OpenSession(r, s)
  BY <1>1, <1>4, OpeningMoves DEF OpenSession, Doing
<1>5. CASE BurnTickets(r) \/ DropAll(r) \/ Spend(r) \/ Drop(r) \/ IssueToken(r)
  <2>1. /\ request[r] # Idle /\ UNCHANGED account
        /\ Head(request[r].todo) \in {"burn", "drop_all", "spend", "drop", "issue"}
        /\ request' = [request EXCEPT ![r] = Advanced(request[r])]
    BY <1>5 DEF BurnTickets, DropAll, Spend, Drop, IssueToken, Doing
  <2> QED
    BY <1>1, <2>1, PlainMoves DEF Starts
<1> QED
  BY <1>2, <1>3, <1>4, <1>5 DEF Step

-----------------------------------------------------------------------------
(* What a step does to the sessions. *)

\* Whose a session is, where it comes from and when is said once.
Keeps(s) ==
  session[s] # NoRow =>
    /\ session'[s] # NoRow
    /\ session'[s].user = session[s].user /\ session'[s].chain = session[s].chain
    /\ session'[s].era = session[s].era
    /\ session[s].token # "none" => session'[s].token # "none"

LEMMA RevokedRow ==
  ASSUME NEW row \in SessionRows
  PROVE  /\ Revoked(row) \in SessionRows /\ Revoked(row).token = (IF row.token = "none" THEN "none" ELSE "revoked")
         /\ Revoked(row).user = row.user /\ Revoked(row).chain = row.chain /\ Revoked(row).era = row.era
         /\ Revoked(row).redis = row.redis /\ Revoked(row).raced = row.raced
<1>1. CASE row.token = "none"
  BY <1>1 DEF Revoked
<1>2. CASE row.token # "none"
  <2>1. Revoked(row) = [row EXCEPT !.token = "revoked"]
    BY <1>2 DEF Revoked
  <2> QED
    BY <1>2, <2>1 DEF SessionRows
<1> QED
  BY <1>1, <1>2

LEMMA NotNoRow ==
  ASSUME Sound, NEW s \in Sessions
  PROVE  session[s] # NoRow <=> session[s].user \in Users
BY RowTypes, SessionsAssumption DEF Sound, SessionsKnown

\* The sessions a step touches, and what it makes of them.
LEMMA DropAllSessions ==
  ASSUME Sound, NEW r \in Requests, DropAll(r)
  PROVE  /\ session' \in [Sessions -> SessionRows] /\ \A s \in Sessions : Keeps(s)
         /\ \A s \in Sessions : session[s] = NoRow => session'[s] = NoRow
         /\ \A s \in Sessions : /\ session'[s].token = session[s].token
                                /\ session'[s].raced = session[s].raced
                                /\ session[s].user # request[r].user => session'[s] = session[s]
<1> DEFINE u == request[r].user
<1>1. u \in Users
  BY DoingKnown DEF DropAll, Doing
<1>2. PICK missed : session' = [s \in Sessions |->
                      IF session[s].user = u /\ s \notin missed
                      THEN [session[s] EXCEPT !.redis = FALSE] ELSE session[s]]
  BY DEF DropAll
<1>3. ASSUME NEW s \in Sessions
      PROVE  /\ session'[s] \in SessionRows /\ Keeps(s)
             /\ session[s] = NoRow => session'[s] = NoRow
             /\ session'[s].token = session[s].token /\ session'[s].raced = session[s].raced
             /\ session[s].user # u => session'[s] = session[s]
  <2>1. session[s] \in SessionRows
    BY Typing DEF Sound
  <2>2. CASE session'[s] = session[s] /\ ~(session[s].user = u /\ s \notin missed)
    BY <2>1, <2>2 DEF Keeps
  <2>3. CASE session'[s] = [session[s] EXCEPT !.redis = FALSE] /\ session[s].user = u
    <3>1. /\ session'[s] \in SessionRows /\ session'[s].user = u
          /\ session'[s].chain = session[s].chain /\ session'[s].era = session[s].era
          /\ session'[s].token = session[s].token /\ session'[s].raced = session[s].raced
      BY <2>1, <2>3 DEF SessionRows
    <3>2. session[s] # NoRow /\ session'[s] # NoRow
      <4> HIDE DEF u
      <4> QED
        BY <1>1, <2>3, <3>1, RowTypes, SessionsAssumption
    <3> QED
      BY <2>3, <3>1, <3>2 DEF Keeps
  <2> QED
    BY <1>2, <2>2, <2>3
<1>4. session' \in [Sessions -> SessionRows]
  BY <1>2, <1>3
<1> QED
  BY <1>3, <1>4

LEMMA RevokeAllSessions ==
  ASSUME Sound, NEW r \in Requests, RevokeAll(r)
  PROVE  /\ session' \in [Sessions -> SessionRows] /\ \A s \in Sessions : Keeps(s)
         /\ \A s \in Sessions : session[s] = NoRow => session'[s] = NoRow
         /\ \A s \in Sessions : IF session[s].user = request[r].user
                                 THEN session'[s].token # "valid" ELSE session'[s] = session[s]
         /\ \A s \in Sessions : session'[s].redis = session[s].redis
<1> DEFINE u == request[r].user
<1>1. u \in Users
  BY DoingKnown DEF RevokeAll, Doing
<1>2. session' = [s \in Sessions |-> IF session[s].user = u THEN Revoked(session[s]) ELSE session[s]]
  BY DEF RevokeAll
<1>3. ASSUME NEW s \in Sessions
      PROVE  /\ session'[s] \in SessionRows /\ Keeps(s) /\ session'[s].redis = session[s].redis
             /\ session[s] = NoRow => session'[s] = NoRow
             /\ IF session[s].user = u THEN session'[s].token # "valid" ELSE session'[s] = session[s]
  <2>1. session[s] \in SessionRows /\ session'[s] = IF session[s].user = u THEN Revoked(session[s]) ELSE session[s]
    BY <1>2, Typing DEF Sound
  <2>2. CASE session[s].user # u
    BY <2>1, <2>2 DEF Keeps
  <2>3. CASE session[s].user = u
    <3>1. session'[s] # NoRow /\ session[s] # NoRow
      BY <1>1, <2>1, <2>3, RevokedRow, RowTypes, SessionsAssumption
    <3> QED
      BY <2>1, <2>3, <3>1, RevokedRow DEF Keeps
  <2> QED
    BY <2>2, <2>3
<1>4. session' \in [Sessions -> SessionRows]
  BY <1>2, <1>3
<1> QED
  BY <1>3, <1>4

LEMMA SpendSessions ==
  ASSUME Sound, NEW r \in Requests, Spend(r) \/ Drop(r)
  PROVE  /\ session' \in [Sessions -> SessionRows] /\ \A s \in Sessions : Keeps(s)
         /\ \A s \in Sessions : session[s] = NoRow => session'[s] = NoRow
         /\ request[r].from \in Sessions
         /\ \A s \in Sessions : s # request[r].from => session'[s] = session[s]
         /\ \A s \in Sessions : session'[s].token = "valid" => session[s].token = "valid"
         /\ \A s \in Sessions : session'[s].raced = session[s].raced
         /\ Spend(r) => session'[request[r].from].token = "revoked"
<1> DEFINE from == request[r].from
<1>1. from \in Sessions /\ session[from].token # "none" /\ session[from] \in SessionRows
  <2>1. KnownRow(request[r]) /\ Head(request[r].todo) \in {"spend", "drop"}
    BY DoingKnown DEF Spend, Drop, Doing
  <2>2. request[r].op \in {"refresh", "logout"}
    BY <2>1, DoingKnown DEF Spend, Drop, Doing, Last, Follows
  <2> QED
    BY <2>1, <2>2, Typing DEF KnownRow, Sound
<1>2. session[from] # NoRow
  BY <1>1, RowTypes
<1>3. PICK row \in SessionRows :
        /\ session' = [session EXCEPT ![from] = row]
        /\ row.user = session[from].user /\ row.chain = session[from].chain /\ row.era = session[from].era
        /\ row.raced = session[from].raced /\ row.token # "none"
        /\ row.token = "valid" => session[from].token = "valid"
        /\ Spend(r) => row.token = "revoked"
  <2>1. CASE Spend(r)
    BY <1>1, <2>1, RevokedRow DEF Spend
  <2>2. CASE Drop(r) /\ ~Spend(r)
    <3> DEFINE row == [session[from] EXCEPT !.redis = FALSE]
    <3>1. [session EXCEPT ![from].redis = FALSE] = [session EXCEPT ![from] = row]
      BY <1>1 DEF Sound, TypeOK
    <3>2. session' = [session EXCEPT ![from] = row]
      BY <2>2, <3>1 DEF Drop
    <3>3. /\ row \in SessionRows
          /\ row.user = session[from].user /\ row.chain = session[from].chain
          /\ row.era = session[from].era /\ row.raced = session[from].raced
          /\ row.token = session[from].token
      BY <1>1 DEF SessionRows
    <3> HIDE DEF row
    <3> QED
      BY <1>1, <2>2, <3>2, <3>3
  <2> QED
    BY <2>1, <2>2
<1>4. session'[from] = row /\ \A s \in Sessions : s # from => session'[s] = session[s]
  BY <1>1, <1>3 DEF Sound, TypeOK
<1>5. session' \in [Sessions -> SessionRows]
  BY <1>3 DEF Sound, TypeOK
<1>6. row # NoRow
  BY <1>3, RowTypes
<1>7. \A s \in Sessions : Keeps(s)
  BY <1>3, <1>4, <1>6 DEF Keeps
<1> QED
  BY <1>1, <1>2, <1>3, <1>4, <1>5, <1>7

LEMMA OpenSessions ==
  ASSUME Sound, NEW r \in Requests, NEW s \in Sessions, OpenSession(r, s)
  PROVE  /\ session' \in [Sessions -> SessionRows] /\ \A x \in Sessions : Keeps(x)
         /\ session[s] = NoRow
         /\ \A x \in Sessions : x # s => session'[x] = session[x]
         /\ session'[s].user = request[r].user /\ session'[s].era = request[r].era
         /\ session'[s].redis /\ session'[s].token = "none"
         /\ session'[s].chain = IF request[r].op = "refresh" THEN session[request[r].from].chain ELSE s
<1> DEFINE q == request[r]
           chain == IF q.op = "refresh" THEN session[q.from].chain ELSE s
           row == [NoRow EXCEPT !.user = q.user, !.redis = TRUE, !.chain = chain, !.era = q.era]
<1>1. q \in RequestRows /\ q.user \in Users /\ (q.op = "refresh" => q.from \in Sessions)
  BY DoingKnown DEF OpenSession, Doing, KnownRow
<1>2. q.era \in Eras /\ chain \in Sessions \cup {NoSession}
  BY <1>1, Typing DEF RequestRows, SessionRows, Sound
<1>3. session' = [session EXCEPT ![s] = row] /\ session[s] = NoRow
  BY DEF OpenSession
<1> HIDE DEF chain
<1>4. /\ row \in SessionRows /\ row.user = q.user /\ row.redis /\ row.chain = chain /\ row.era = q.era
      /\ row.token = "none"
  <2> HIDE DEF row
  <2>1. row = [NoRow EXCEPT !.user = q.user, !.redis = TRUE, !.chain = chain, !.era = q.era]
    BY DEF row
  <2> HIDE DEF q
  <2> QED
    BY <1>1, <1>2, <2>1, RowTypes DEF SessionRows
<1> HIDE DEF row
<1>5. /\ session'[s] = row /\ \A x \in Sessions : x # s => session'[x] = session[x]
      /\ session' \in [Sessions -> SessionRows]
  BY <1>3, <1>4 DEF Sound, TypeOK
<1>6. \A x \in Sessions : Keeps(x)
  BY <1>3, <1>5 DEF Keeps
<1> QED
  BY <1>3, <1>4, <1>5, <1>6 DEF chain

LEMMA IssueSessions ==
  ASSUME Sound, NEW r \in Requests, IssueToken(r)
  PROVE  /\ session' \in [Sessions -> SessionRows] /\ \A s \in Sessions : Keeps(s)
         /\ \A s \in Sessions : session[s] = NoRow => session'[s] = NoRow
         /\ request[r].new \in Sessions
         /\ \A s \in Sessions : s # request[r].new => session'[s] = session[s]
         /\ session'[request[r].new].token = "valid"
         /\ session'[request[r].new].redis = session[request[r].new].redis
         /\ session'[request[r].new].raced = request[r].raced
<1> DEFINE new == request[r].new
           row == [session[new] EXCEPT !.token = "valid", !.raced = request[r].raced]
<1>1. /\ request[r] \in RequestRows /\ new \in Sessions /\ session[new] \in SessionRows
      /\ session[new].user \in Users
  BY DoingKnown, Typing DEF IssueToken, Doing, KnownRow, Sound
<1>2. session[new] # NoRow
  BY <1>1, NotNoRow
<1>3. [session EXCEPT ![new].token = "valid", ![new].raced = request[r].raced] = [session EXCEPT ![new] = row]
  BY <1>1 DEF Sound, TypeOK
<1>4. session' = [session EXCEPT ![new] = row]
  BY <1>3 DEF IssueToken
<1>5. request[r].raced \in BOOLEAN
  BY <1>1 DEF RequestRows
<1>6. /\ row \in SessionRows /\ row.user = session[new].user /\ row.chain = session[new].chain
      /\ row.era = session[new].era /\ row.redis = session[new].redis /\ row.token = "valid"
      /\ row.raced = request[r].raced
  BY <1>1, <1>5 DEF SessionRows
<1> HIDE DEF row
<1>7. session'[new] = row /\ \A s \in Sessions : s # new => session'[s] = session[s]
  BY <1>1, <1>4 DEF Sound, TypeOK
<1>8. session' \in [Sessions -> SessionRows]
  BY <1>4, <1>6 DEF Sound, TypeOK
<1>9. row # NoRow
  BY <1>6, RowTypes
<1>10. \A s \in Sessions : Keeps(s)
  BY <1>6, <1>7, <1>9 DEF Keeps
<1> QED
  BY <1>1, <1>2, <1>6, <1>7, <1>8, <1>10

\* Where a refresh or a sign-out belongs.
LEMMA ChainKnown ==
  ASSUME Sound, NEW r \in Requests, request[r] # Idle, request[r].op \in {"refresh", "logout"}
  PROVE  /\ request[r].from \in Sessions /\ session[request[r].from] # NoRow
         /\ ChainOf(r) \in Sessions /\ session[request[r].from].chain \in Sessions
BY DoingKnown, RowTypes DEF KnownRow, Sound, SessionsKnown, ChainOf

LEMMA SessionMoves ==
  ASSUME Sound, NEW r \in Requests, Step(r)
  PROVE  /\ session' \in [Sessions -> SessionRows] /\ \A s \in Sessions : Keeps(s)
         /\ \A s \in Sessions :
              \/ session[s] = NoRow => session'[s] = NoRow
              \/ /\ session'[s].user = request[r].user /\ session'[s].era = request[r].era
                 /\ session'[s].chain \in Sessions
<1>1. CASE SetPassword(r) \/ BurnTickets(r) \/ Anonymise(r)
  BY <1>1 DEF SetPassword, BurnTickets, Anonymise, Keeps, Sound, TypeOK
<1>2. CASE \E s \in Sessions : OpenSession(r, s)
  <2>1. request[r].op = "refresh" => session[request[r].from].chain \in Sessions
    BY <1>2, ChainKnown DEF OpenSession, Doing
  <2> QED
    BY <1>2, <2>1, OpenSessions
<1> QED
  BY <1>1, <1>2, DropAllSessions, RevokeAllSessions, SpendSessions, IssueSessions DEF Step

-----------------------------------------------------------------------------
(* Arrivals. *)

\* What a request is when it comes in.
Arrived(r, op, u, s) ==
  /\ request[r] = Idle
  /\ request'[r] \in RequestRows
  /\ request'[r].op = op /\ request'[r].todo = Steps[op]
  /\ request'[r].user = u /\ request'[r].from = s
  /\ request'[r].era = IF op = "refresh" THEN session[s].era ELSE account[u].era
  /\ request'[r].raced <=> op = "refresh" /\ session[s].raced
  /\ op \in {"refresh", "logout"} =>
       s \in Sessions /\ session[s].token # "none" /\ session[s].user = u
  /\ op = "refresh" => session[s].token = "valid"
  /\ \A q \in Requests : q # r => request'[q] = request[q]
  /\ request' \in [Requests -> RequestRows]
  /\ UNCHANGED <<account, session, cleared, left, ticket>>

LEMMA AcceptRow ==
  ASSUME Sound, NEW r \in Requests, NEW op \in Ops, NEW u \in Users, NEW s \in Sessions \cup {NoSession},
         Accept(r, op, u, s), UNCHANGED ticket,
         op \in {"refresh", "logout"} =>
           s \in Sessions /\ session[s].token # "none" /\ session[s].user = u,
         op = "refresh" => session[s].token = "valid"
  PROVE  Arrived(r, op, u, s)
<1> DEFINE era == IF op = "refresh" THEN session[s].era ELSE account[u].era
           raced == op = "refresh" /\ session[s].raced
           todo == Steps[op]
           row == [Idle EXCEPT !.op = op, !.todo = todo, !.user = u, !.from = s, !.era = era, !.raced = raced]
<1>1. era \in Eras /\ raced \in BOOLEAN /\ todo \in Seq(StepNames) /\ op \in DOMAIN Steps
  BY StepsAhead, AheadFacts, Typing DEF Sound, SessionRows
<1>2. request[r] = Idle /\ request' = [request EXCEPT ![r] = row] /\ UNCHANGED <<account, session, cleared, left>>
  BY DEF Accept
<1>3. raced <=> op = "refresh" /\ session[s].raced
  OBVIOUS
<1>4. era = (IF op = "refresh" THEN session[s].era ELSE account[u].era) /\ todo = Steps[op]
  OBVIOUS
<1> HIDE DEF era, raced, todo
<1>5. /\ row \in RequestRows /\ row.op = op /\ row.todo = todo /\ row.user = u /\ row.from = s
      /\ row.era = era /\ row.raced = raced
  BY <1>1, RowTypes DEF RequestRows, StepNames
<1> HIDE DEF row
<1>6. request'[r] = row /\ (\A q \in Requests : q # r => request'[q] = request[q])
      /\ request' \in [Requests -> RequestRows]
  BY <1>2, <1>5 DEF Sound, TypeOK
<1> QED
  BY <1>2, <1>3, <1>4, <1>5, <1>6 DEF Arrived

LEMMA Arrivals ==
  ASSUME Sound, NEW r \in Requests, Arrive(r)
  PROVE  \E op \in Ops, u \in Users, s \in Sessions \cup {NoSession} : Arrived(r, op, u, s)
<1>1. \A s \in Sessions : Authenticated(s) \/ session[s].token # "none" => session[s].user \in Users
  BY RowTypes DEF Sound, SessionsKnown, Authenticated
<1>2. ASSUME NEW u \in Users, Login(r, u)
      PROVE  Arrived(r, "login", u, NoSession)
  BY <1>2, AcceptRow DEF Login, Ops
<1>3. ASSUME NEW s \in Sessions, Refresh(r, s)
      PROVE  Arrived(r, "refresh", session[s].user, s)
  BY <1>1, <1>3, AcceptRow DEF Refresh, CanRefresh, Ops
<1>4. ASSUME NEW s \in Sessions, Logout(r, s)
      PROVE  Arrived(r, "logout", session[s].user, s)
  BY <1>1, <1>4, AcceptRow DEF Logout, Ops
<1>5. ASSUME NEW s \in Sessions, LogoutAll(r, s)
      PROVE  Arrived(r, "logout_all", session[s].user, s)
  BY <1>1, <1>5, AcceptRow DEF LogoutAll, Ops
<1>6. ASSUME NEW s \in Sessions, ChangePassword(r, s)
      PROVE  Arrived(r, "change", session[s].user, s)
  BY <1>1, <1>6, AcceptRow DEF ChangePassword, Ops
<1>7. ASSUME NEW s \in Sessions, DeleteAccount(r, s)
      PROVE  Arrived(r, "delete", session[s].user, s)
  BY <1>1, <1>7, AcceptRow DEF DeleteAccount, Ops
<1>8. ASSUME NEW t \in Tickets, ResetPassword(r, t)
      PROVE  Arrived(r, "reset", ticket[t], NoSession) /\ ticket[t] \in Users
  BY <1>8, AcceptRow DEF ResetPassword, Ops, Sound, TypeOK
<1>9. {"login", "refresh", "logout", "logout_all", "change", "reset", "delete"} = Ops
  BY DEF Ops
<1>10. ASSUME NEW s \in Sessions, Refresh(r, s) \/ Logout(r, s) \/ LogoutAll(r, s)
                                   \/ ChangePassword(r, s) \/ DeleteAccount(r, s)
       PROVE  session[s].user \in Users
  BY <1>1, <1>10 DEF Refresh, CanRefresh, Logout, LogoutAll, ChangePassword, DeleteAccount
<1> QED
  BY <1>2, <1>3, <1>4, <1>5, <1>6, <1>7, <1>8, <1>9, <1>10 DEF Arrive

-----------------------------------------------------------------------------
(* What requests know stays so. *)

\* A row that goes on from another one.
LEMMA RowKept ==
  ASSUME Sound, \A s \in Sessions : Keeps(s), \A u \in Users : account[u].era <= account'[u].era,
         account' \in [Users -> [password : BOOLEAN, deleted : BOOLEAN, era : Eras]],
         NEW row \in RequestRows, KnownRow(row), NEW next \in RequestRows,
         next.op = row.op, next.user = row.user, next.from = row.from, Ahead(next.op, next.todo),
         next.era = row.era \/ next.era = account'[next.user].era,
         Head(next.todo) = "issue" =>
           \/ Head(row.todo) = "issue" /\ next.new = row.new /\ next.era = row.era
           \/ /\ next.new \in Sessions
              /\ session'[next.new].user = next.user /\ session'[next.new].era = next.era
              /\ session'[next.new].chain =
                   IF next.op = "refresh" THEN session[next.from].chain ELSE next.new
  PROVE  KnownRow(next)'
<1>1. next.era <= account'[next.user].era
  <2>1. /\ row.era \in Nat /\ account[row.user].era \in Nat /\ account'[row.user].era \in Nat
        /\ row.era <= account[row.user].era /\ row.user \in Users
    BY SessionsAssumption DEF KnownRow, RequestRows, Eras, Sound, TypeOK
  <2> QED
    BY <2>1
<1>2. next.op \in {"refresh", "logout"} =>
        /\ next.from \in Sessions /\ session'[next.from].token # "none"
        /\ session'[next.from].chain = session[next.from].chain
  BY RowTypes DEF KnownRow, Keeps
<1>3. Head(row.todo) = "issue" /\ next.new = row.new /\ next.era = row.era =>
        /\ next.new \in Sessions
        /\ session'[next.new].user = next.user /\ session'[next.new].era = next.era
        /\ session'[next.new].chain =
             IF next.op = "refresh" THEN session[next.from].chain ELSE next.new
  BY NotNoRow DEF KnownRow, Keeps
<1>4. Ahead(next.op, next.todo) /\ next.user \in Users
  BY DEF KnownRow
<1> QED
  BY <1>1, <1>2, <1>3, <1>4 DEF KnownRow

LEMMA StepKnown ==
  ASSUME Sound, NEW r \in Requests, Step(r)
  PROVE  RequestsKnown' /\ SessionsKnown'
<1>1. /\ request[r] # Idle /\ request' \in [Requests -> RequestRows]
      /\ \A q \in Requests : q # r => Stays(q)
      /\ account' \in [Users -> [password : BOOLEAN, deleted : BOOLEAN, era : Eras]]
      /\ \A u \in Users : account[u].era <= account'[u].era
  BY StepMoves
<1>2. /\ \A s \in Sessions : Keeps(s)
      /\ \A s \in Sessions :
           \/ session[s] = NoRow => session'[s] = NoRow
           \/ /\ session'[s].user = request[r].user /\ session'[s].era = request[r].era
              /\ session'[s].chain \in Sessions
  BY SessionMoves
<1>3. /\ KnownRow(request[r]) /\ request[r] \in RequestRows /\ request[r].user \in Users
      /\ request[r].era <= account[request[r].user].era
  BY <1>1, DoingKnown DEF KnownRow
<1>4. \A u \in Users : account[u].era \in Nat /\ account'[u].era \in Nat
  BY <1>1, SessionsAssumption DEF Sound, TypeOK, Eras
<1>5. request[r].era \in Nat /\ \A s \in Sessions : session[s].era \in Nat
  BY <1>3, Typing, SessionsAssumption DEF Sound, RequestRows, SessionRows, Eras
<1>6. SessionsKnown'
  <2>1. SUFFICES ASSUME NEW s \in Sessions, session'[s] # NoRow
                 PROVE  /\ session'[s].user \in Users /\ session'[s].era <= account'[session'[s].user].era
                        /\ session'[s].chain \in Sessions
    BY DEF SessionsKnown
  <2>2. CASE session[s] = NoRow
    BY <1>1, <1>2, <1>3, <1>4, <1>5, <2>1, <2>2
  <2>3. CASE session[s] # NoRow
    BY <1>1, <1>2, <1>4, <1>5, <2>1, <2>3 DEF Sound, SessionsKnown, Keeps
  <2> QED
    BY <2>2, <2>3
<1>7. ASSUME NEW q \in Requests, q # r PROVE request'[q] = Idle \/ KnownRow(request[q])'
  <2>1. CASE request[q] = Idle
    BY <1>1, <1>7, <2>1 DEF Stays
  <2>2. CASE request[q] # Idle
    <3>1. KnownRow(request[q]) /\ request[q] \in RequestRows
      BY <2>2, DoingKnown
    <3>2. PICK row : row = request'[q]
      OBVIOUS
    <3>3. row \in RequestRows
      BY <1>1, <3>2
    <3>4. KnownRow(row)'
      BY <1>1, <1>2, <1>7, <3>1, <3>2, <3>3, RowKept DEF Stays, KnownRow
    <3> QED
      BY <3>2, <3>4 DEF KnownRow
  <2> QED
    BY <2>1, <2>2
<1>8. request'[r] = Idle \/ KnownRow(request[r])'
  <2>1. PICK base : Moves(r, base) /\ ((\E s \in Sessions : OpenSession(r, s)) => OpenSession(r, base.new) /\ base.new \in Sessions)
    <3>1. CASE \E s \in Sessions : OpenSession(r, s)
      BY <3>1, OpeningMoves
    <3> QED
      BY <3>1, StepMoves
  <2>2. Advanced(base) = Idle \/
         /\ Advanced(base) \in RequestRows
         /\ Advanced(base).op = base.op /\ Advanced(base).user = base.user
         /\ Advanced(base).from = base.from /\ Advanced(base).new = base.new
         /\ Advanced(base).era = base.era
         /\ Ahead(base.op, Advanced(base).todo)
         /\ Follows(base.op, Head(base.todo), Head(Advanced(base).todo))
    BY <1>3, <2>1, AdvancedRow DEF Moves, KnownRow
  <2>3. SUFFICES ASSUME Advanced(base) # Idle PROVE KnownRow(request[r])'
    BY <2>1 DEF Moves
  <2>4. PICK row : row = Advanced(base)
    OBVIOUS
  <2>5. Head(row.todo) = "issue" =>
          /\ row.new \in Sessions
          /\ session'[row.new].user = row.user /\ session'[row.new].era = row.era
          /\ session'[row.new].chain = IF row.op = "refresh" THEN session[row.from].chain ELSE row.new
    <3>1. SUFFICES ASSUME Head(row.todo) = "issue"
                   PROVE  /\ row.new \in Sessions
                          /\ session'[row.new].user = row.user /\ session'[row.new].era = row.era
                          /\ session'[row.new].chain = IF row.op = "refresh" THEN session[row.from].chain ELSE row.new
      OBVIOUS
    <3>2. Head(request[r].todo) = "open" /\ ~Starts(r)
      BY <2>1, <2>2, <2>3, <2>4, <3>1 DEF Follows, Moves, Starts
    <3>3. \E s \in Sessions : OpenSession(r, s)
      BY <3>2 DEF Step, SetPassword, BurnTickets, Anonymise, RevokeAll, DropAll, Spend, Drop, IssueToken, Doing
    <3> QED
      BY <2>1, <2>2, <2>3, <2>4, <3>2, <3>3, OpenSessions DEF Moves
  <2>6. row.era = request[r].era \/ row.era = account'[row.user].era
    BY <2>1, <2>2, <2>3, <2>4 DEF Moves
  <2>7. /\ row \in RequestRows /\ row.op = request[r].op /\ row.user = request[r].user
        /\ row.from = request[r].from /\ Ahead(row.op, row.todo)
    BY <2>1, <2>2, <2>3, <2>4 DEF Moves
  <2>8. KnownRow(row)'
    BY <1>1, <1>2, <1>3, <2>5, <2>6, <2>7, RowKept
  <2>9. row = request'[r]
    BY <2>1, <2>4 DEF Moves
  <2> QED
    BY <2>8, <2>9 DEF KnownRow
<1> QED
  BY <1>6, <1>7, <1>8 DEF RequestsKnown

\* Steps of nobody's handler: what arrives, dies, or expires.
LEMMA OthersKnown ==
  ASSUME Sound,
         \/ \E r \in Requests : Arrive(r) \/ Dies(r)
         \/ \E t \in Tickets : LinkExpires(t) \/ \E u \in Users : ForgetPassword(u, t)
         \/ UNCHANGED vars
  PROVE  RequestsKnown' /\ SessionsKnown' /\ UNCHANGED <<account, session>>
<1>1. ASSUME UNCHANGED <<account, session, request>> PROVE RequestsKnown' /\ SessionsKnown'
  BY <1>1 DEF Sound, RequestsKnown, KnownRow, SessionsKnown
<1>2. ASSUME NEW r \in Requests, Dies(r)
      PROVE  RequestsKnown' /\ SessionsKnown' /\ UNCHANGED <<account, session>>
  <2>1. /\ UNCHANGED <<account, session>> /\ request'[r] = Idle
        /\ \A q \in Requests : q # r => request'[q] = request[q]
    BY <1>2 DEF Dies, Sound, TypeOK
  <2> QED
    BY <2>1 DEF Sound, RequestsKnown, KnownRow, SessionsKnown
<1>3. ASSUME NEW r \in Requests, Arrive(r)
      PROVE  RequestsKnown' /\ SessionsKnown' /\ UNCHANGED <<account, session>>
  <2>1. PICK op \in Ops, u \in Users, s \in Sessions \cup {NoSession} : Arrived(r, op, u, s)
    BY <1>3, Arrivals
  <2>2. UNCHANGED <<account, session>> /\ \A q \in Requests : q # r => request'[q] = request[q]
    BY <2>1 DEF Arrived
  <2>3. Ahead(op, Steps[op]) /\ Head(Steps[op]) # "issue"
    BY StepsAhead DEF Ops, Steps
  <2>4. request'[r].era <= account[u].era
    <3>1. account[u].era \in Nat
      BY SessionsAssumption DEF Sound, TypeOK, Eras
    <3>2. op = "refresh" => session[s].era <= account[u].era
      BY <2>1, RowTypes DEF Arrived, Sound, SessionsKnown
    <3> QED
      BY <2>1, <3>1, <3>2 DEF Arrived
  <2>5. KnownRow(request[r])'
    BY <2>1, <2>2, <2>3, <2>4 DEF Arrived, KnownRow
  <2> QED
    BY <2>2, <2>5 DEF Sound, RequestsKnown, KnownRow, SessionsKnown
<1> QED
  BY <1>1, <1>2, <1>3 DEF LinkExpires, ForgetPassword, vars

LEMMA HistoryTyped ==
  ASSUME Sound, [Next]_vars
  PROVE  /\ ticket' \in [Tickets -> Users \cup {NoUser}]
         /\ cleared' \in [Users -> Eras] /\ left' \subseteq Sessions
<1>1. /\ ticket \in [Tickets -> Users \cup {NoUser}] /\ cleared \in [Users -> Eras] /\ left \subseteq Sessions
  BY DEF Sound, TypeOK
<1>2. \A u \in Users : ChainsOf(u) \subseteq Sessions
  BY NotNoRow DEF ChainsOf, Sound, SessionsKnown
<1>3. ASSUME NEW r \in Requests, Step(r)
      PROVE  /\ ticket' \in [Tickets -> Users \cup {NoUser}]
             /\ cleared' \in [Users -> Eras] /\ left' \subseteq Sessions
  <2>1. request[r] # Idle /\ request[r].user \in Users /\ request[r].era \in Eras
    BY <1>3, StepMoves, DoingKnown DEF RequestRows
  <2>2. CASE BurnTickets(r)
    BY <1>1, <2>2 DEF BurnTickets
  <2>3. CASE SetPassword(r) \/ Anonymise(r) \/ Drop(r) \/ \E s \in Sessions : OpenSession(r, s)
    BY <1>1, <2>3 DEF SetPassword, Anonymise, Drop, OpenSession
  <2>4. CASE RevokeAll(r)
    BY <1>1, <1>2, <2>1, <2>4 DEF RevokeAll
  <2>5. CASE DropAll(r)
    BY <1>1, <1>2, <2>1, <2>5 DEF DropAll
  <2>6. CASE Spend(r)
    <3>1. request[r].op = "logout" => ChainOf(r) \in Sessions
      BY <2>1, ChainKnown
    <3> QED
      BY <1>1, <2>6, <3>1 DEF Spend
  <2>7. CASE IssueToken(r)
    BY <1>1, <2>1, <2>7 DEF IssueToken
  <2> QED
    BY <1>3, <2>2, <2>3, <2>4, <2>5, <2>6, <2>7 DEF Step
<1>4. ASSUME NEW r \in Requests, Arrive(r)
      PROVE  UNCHANGED <<ticket, cleared, left>>
  BY <1>4, Arrivals DEF Arrived
<1>5. ASSUME NEW r \in Requests, Dies(r)
      PROVE  UNCHANGED <<ticket, cleared>> /\ left' \subseteq Sessions
  BY <1>1, <1>5, ChainKnown DEF Dies
<1>6. ASSUME NEW t \in Tickets, LinkExpires(t) \/ \E u \in Users : ForgetPassword(u, t)
      PROVE  ticket' \in [Tickets -> Users \cup {NoUser}] /\ UNCHANGED <<cleared, left>>
  BY <1>1, <1>6 DEF LinkExpires, ForgetPassword, LinkSent
<1> QED
  BY <1>1, <1>3, <1>4, <1>5, <1>6 DEF Next, vars

LEMMA RequestsTyped ==
  ASSUME Sound, [Next]_vars
  PROVE  /\ request' \in [Requests -> RequestRows] /\ session' \in [Sessions -> SessionRows]
         /\ account' \in [Users -> [password : BOOLEAN, deleted : BOOLEAN, era : Eras]]
<1>1. /\ request \in [Requests -> RequestRows] /\ session \in [Sessions -> SessionRows]
      /\ account \in [Users -> [password : BOOLEAN, deleted : BOOLEAN, era : Eras]]
  BY DEF Sound, TypeOK
<1>2. ASSUME NEW r \in Requests, Dies(r) PROVE request' \in [Requests -> RequestRows]
  BY <1>1, <1>2, RowTypes DEF Dies
<1>3. ASSUME NEW r \in Requests, Arrive(r) PROVE request' \in [Requests -> RequestRows]
  BY <1>3, Arrivals DEF Arrived
<1>4. CASE \E r \in Requests : Step(r)
  BY <1>4, StepMoves, SessionMoves
<1>5. CASE \/ \E r \in Requests : Arrive(r) \/ Dies(r)
           \/ \E t \in Tickets : LinkExpires(t) \/ \E u \in Users : ForgetPassword(u, t)
           \/ UNCHANGED vars
  <2>1. UNCHANGED <<account, session>>
    BY <1>5, OthersKnown
  <2> QED
    BY <1>1, <1>2, <1>3, <1>5, <2>1 DEF LinkExpires, ForgetPassword, vars
<1> QED
  BY <1>4, <1>5 DEF Next

LEMMA StepSound == Sound /\ [Next]_vars => Sound'
<1> SUFFICES ASSUME Sound, [Next]_vars PROVE Sound'
  OBVIOUS
<1>1. TypeOK'
  BY RequestsTyped, HistoryTyped DEF TypeOK
<1>2. RequestsKnown' /\ SessionsKnown'
  BY StepKnown, OthersKnown DEF Next
<1> QED
  BY <1>1, <1>2 DEF Sound

LEMMA InitSound == Init => Sound
<1> SUFFICES ASSUME Init PROVE Sound
  OBVIOUS
<1>1. 0 \in Eras
  BY SessionsAssumption DEF Eras
<1> QED
  BY <1>1, RowTypes DEF Init, Sound, TypeOK, RequestsKnown, SessionsKnown

\* Accounts, sessions, links and every request keep their types.
THEOREM Typed == Spec => []TypeOK
<1>1. Sound => TypeOK
  BY DEF Sound
<1> QED
  BY <1>1, InitSound, StepSound, PTL DEF Spec

-----------------------------------------------------------------------------
(* A revocation reaches what was signed in before it. *)

\* What is left of the user's sessions from before the era can be exchanged only if it
\* is raced, and so can what their requests from before it are about to issue.
Swept(u, e) ==
  /\ \A s \in Sessions :
       session[s].user = u /\ session[s].token = "valid" /\ session[s].era < e => session[s].raced
  /\ \A q \in Requests :
       request[q].user = u /\ request[q].op \in Issuers /\ request[q].era < e => request[q].raced

\* Tokens have been revoked: what follows is Redis, and a new session for a changed
\* password.
Swiped(r) == request[r].op \in Revokers /\ Head(request[r].todo) \in {"drop_all", "open", "issue"}

Revoking ==
  /\ \A u \in Users : Swept(u, cleared[u]) /\ cleared[u] <= account[u].era
  /\ \A r \in Requests : Swiped(r) => Swept(request[r].user, request[r].era)

\* Which sessions can be exchanged after a step.
LEMMA ValidAfter ==
  ASSUME Sound, NEW r \in Requests, Step(r), NEW s \in Sessions, session'[s].token = "valid"
  PROVE  \/ session[s].token = "valid" /\ session'[s].raced = session[s].raced
         \/ /\ request[r].op \in Issuers
            /\ session'[s].raced = request[r].raced
            /\ session'[s].user = request[r].user /\ session'[s].era = request[r].era
<1>1. CASE SetPassword(r) \/ BurnTickets(r) \/ Anonymise(r)
  BY <1>1 DEF SetPassword, BurnTickets, Anonymise
<1>2. CASE DropAll(r)
  BY <1>2, DropAllSessions
<1>3. CASE RevokeAll(r)
  BY <1>3, RevokeAllSessions
<1>4. CASE Spend(r) \/ Drop(r)
  BY <1>4, SpendSessions
<1>5. CASE \E x \in Sessions : OpenSession(r, x)
  BY <1>5, OpenSessions
<1>6. CASE IssueToken(r)
  <2>1. /\ KnownRow(request[r]) /\ Head(request[r].todo) = "issue" /\ request[r].op \in Issuers
    BY <1>6, DoingKnown DEF IssueToken, Doing, Last, Follows
  <2>2. CASE s # request[r].new
    BY <1>6, <2>2, IssueSessions
  <2>3. CASE s = request[r].new
    <3>1. session[s] # NoRow /\ session[s].user = request[r].user /\ session[s].era = request[r].era
      BY <1>6, <2>1, <2>3, DoingKnown, NotNoRow DEF KnownRow, IssueToken, Doing
    <3> QED
      BY <1>6, <2>1, <2>3, <3>1, IssueSessions DEF Keeps
  <2> QED
    BY <2>2, <2>3
<1> QED
  BY <1>1, <1>2, <1>3, <1>4, <1>5, <1>6 DEF Step

LEMMA SweptKept ==
  ASSUME Sound, Sound', [Next]_vars, NEW u \in Users, NEW e \in Nat, e <= account[u].era, Swept(u, e)
  PROVE  Swept(u, e)'
<1>1. /\ account[u].era \in Nat /\ \A s \in Sessions : session[s].era \in Nat /\ session'[s].era \in Nat
      /\ \A q \in Requests : request[q].era \in Nat /\ request'[q].era \in Nat
  BY SessionsAssumption DEF Sound, TypeOK, Eras, SessionRows, RequestRows
<1>2. ASSUME NEW r \in Requests, Step(r) PROVE Swept(u, e)'
  <2>1. request[r] # Idle /\ \A q \in Requests : q # r => Stays(q)
    BY <1>2, StepMoves
  <2>2. ASSUME NEW s \in Sessions, session'[s].user = u, session'[s].token = "valid", session'[s].era < e
        PROVE  session'[s].raced
    <3>1. CASE session[s].token = "valid" /\ session'[s].raced = session[s].raced
      <4>1. session'[s].user = session[s].user /\ session'[s].era = session[s].era
        BY <1>2, <3>1, SessionMoves, RowTypes DEF Keeps
      <4> QED
        BY <2>2, <3>1, <4>1 DEF Swept
    <3>2. CASE /\ request[r].op \in Issuers
               /\ session'[s].raced = request[r].raced
               /\ session'[s].user = request[r].user /\ session'[s].era = request[r].era
      BY <2>2, <3>2 DEF Swept
    <3> QED
      BY <1>2, <2>2, <3>1, <3>2, ValidAfter
  <2>3. ASSUME NEW q \in Requests, q # r, request'[q].user = u, request'[q].op \in Issuers, request'[q].era < e
        PROVE  request'[q].raced
    BY <2>1, <2>3 DEF Stays, Swept
  <2>4. ASSUME request'[r].user = u, request'[r].op \in Issuers, request'[r].era < e
        PROVE  request'[r].raced
    <3>1. PICK row : Moves(r, row)
      BY <1>2, StepMoves
    <3>2. Ahead(row.op, row.todo) /\ row \in RequestRows
      BY <2>1, <3>1, DoingKnown DEF Moves, KnownRow
    <3>3. request'[r] # Idle
      BY <2>4, RowTypes DEF Issuers
    <3>4. /\ request'[r].op = request[r].op /\ request'[r].user = request[r].user
          /\ request'[r].era = row.era /\ request'[r].raced = request[r].raced
      BY <3>1, <3>2, <3>3, AdvancedRow DEF Moves
    <3>5. row.user = request[r].user /\ (row.era = NextEra(row.user) \/ row.era = request[r].era)
      BY <3>1 DEF Moves
    <3>6. CASE row.era = request[r].era
      BY <2>4, <3>4, <3>6 DEF Swept
    <3>7. CASE row.era = NextEra(u)
      <4>1. account[u].era \in Nat /\ NextEra(u) = account[u].era + 1
        BY <1>1 DEF NextEra
      <4>2. ~(NextEra(u) < e)
        BY <4>1
      <4> QED
        BY <2>4, <3>4, <3>7, <4>2
    <3> QED
      BY <2>4, <3>4, <3>5, <3>6, <3>7
  <2> QED
    BY <2>2, <2>3, <2>4 DEF Swept
<1>3. ASSUME NEW r \in Requests, Dies(r) PROVE Swept(u, e)'
  <2>1. /\ UNCHANGED session /\ request'[r] = Idle
        /\ \A q \in Requests : q # r => request'[q] = request[q]
    BY <1>3 DEF Dies, Sound, TypeOK
  <2>2. Idle.op \notin Issuers
    BY RowTypes DEF Issuers
  <2> QED
    BY <2>1, <2>2 DEF Swept
<1>4. ASSUME NEW r \in Requests, Arrive(r) PROVE Swept(u, e)'
  <2>1. PICK op \in Ops, x \in Users, s \in Sessions \cup {NoSession} : Arrived(r, op, x, s)
    BY <1>4, Arrivals
  <2>2. UNCHANGED session /\ \A q \in Requests : q # r => request'[q] = request[q]
    BY <2>1 DEF Arrived
  <2>3. ASSUME request'[r].user = u, request'[r].era < e PROVE request'[r].raced
    BY <1>1, <2>1, <2>3 DEF Arrived, Swept
  <2> QED
    BY <2>2, <2>3 DEF Swept
<1>5. CASE UNCHANGED <<session, request>>
  BY <1>5 DEF Swept
<1> QED
  BY <1>2, <1>3, <1>4, <1>5 DEF Next, vars, LinkExpires, ForgetPassword

\* The commit that revokes the tokens sweeps.
LEMMA RevokingSweeps ==
  ASSUME Sound, Sound', NEW r \in Requests, RevokeAll(r),
         NEW u, u = request[r].user, NEW e, request'[r].user = u => request'[r].era = e, e \in Nat
  PROVE  Swept(u, e)'
<1>1. u \in Users /\ request[r] # Idle
  BY DoingKnown DEF RevokeAll, Doing
<1>2. \A s \in Sessions : session'[s].user = u => session'[s].token # "valid"
  BY <1>1, RevokeAllSessions, RowTypes, SessionsAssumption DEF Keeps
<1>3. \A q \in Requests : q # r => Stays(q) /\ (Overlap(q, r, u) => request'[q].raced)
  BY RevokingMoves
<1>4. ASSUME NEW q \in Requests, q # r, request'[q].user = u, request'[q].op \in Issuers
      PROVE  request'[q].raced
  <2>1. request[q].user = u /\ request[q].op \in Issuers
    BY <1>3, <1>4 DEF Stays
  <2> QED
    BY <1>3, <1>4, <2>1 DEF Overlap, Issuers
<1>5. request'[r].user = u => ~(request'[r].era < e)
  BY SMT
<1> QED
  BY <1>2, <1>4, <1>5 DEF Swept

\* Where a step leaves a request that had its tokens revoked.
LEMMA SwipedAfter ==
  ASSUME Sound, NEW r \in Requests, Step(r), Swiped(r)'
  PROVE  /\ request'[r].user = request[r].user
         /\ RevokeAll(r) \/ (Swiped(r) /\ request'[r].era = request[r].era)
<1>1. PICK row : Moves(r, row)
  BY StepMoves
<1>2. Ahead(row.op, row.todo) /\ row \in RequestRows /\ request[r] # Idle
  BY <1>1, StepMoves, DoingKnown DEF Moves, KnownRow
<1>3. request'[r] # Idle
  BY RowTypes DEF Swiped, Revokers
<1>4. /\ request'[r].op = request[r].op /\ request'[r].user = request[r].user /\ request'[r].era = row.era
      /\ Follows(request[r].op, Head(request[r].todo), Head(request'[r].todo))
  BY <1>1, <1>2, <1>3, AdvancedRow DEF Moves
<1>5. CASE Head(request[r].todo) = "revoke_all"
  BY <1>4, <1>5 DEF Step, SetPassword, BurnTickets, Anonymise, DropAll, Spend, Drop, IssueToken, OpenSession, Doing
<1>6. CASE Head(request[r].todo) # "revoke_all"
  <2>1. Swiped(r) /\ ~Starts(r)
    BY <1>4, <1>6 DEF Swiped, Follows, Starts, Revokers
  <2> QED
    BY <1>1, <1>4, <2>1 DEF Moves
<1> QED
  BY <1>5, <1>6

LEMMA ErasGrow ==
  ASSUME Sound, [Next]_vars, NEW u \in Users
  PROVE  /\ account[u].era <= account'[u].era
         /\ account[u].era \in Nat /\ account'[u].era \in Nat /\ cleared[u] \in Nat
<1>1. account[u].era \in Nat /\ cleared[u] \in Nat
  BY SessionsAssumption DEF Sound, TypeOK, Eras
<1>2. account'[u].era \in Nat
  BY StepSound, SessionsAssumption DEF Sound, TypeOK, Eras
<1>3. account[u].era <= account'[u].era
  BY <1>1, StepMoves, OthersKnown DEF Next
<1> QED
  BY <1>1, <1>2, <1>3

\* A revocation is answered, or reopens for its user, with the era it began.
LEMMA Clearings ==
  ASSUME Sound, [Next]_vars, NEW u \in Users
  PROVE  \/ cleared'[u] = cleared[u]
         \/ \E r \in Requests : /\ request[r] # Idle /\ Swiped(r) /\ request[r].user = u
                               /\ cleared'[u] = request[r].era
<1>1. cleared \in [Users -> Eras]
  BY DEF Sound, TypeOK
<1>2. ASSUME NEW r \in Requests, DropAll(r), cleared'[u] # cleared[u]
      PROVE  request[r] # Idle /\ Swiped(r) /\ request[r].user = u /\ cleared'[u] = request[r].era
  <2>1. request[r] # Idle /\ Head(request[r].todo) = "drop_all"
    BY <1>2 DEF DropAll, Doing
  <2>2. Swiped(r)
    BY <2>1, DoingKnown DEF Last, Follows, Swiped, Revokers
  <2> QED
    BY <1>1, <1>2, <2>1, <2>2 DEF DropAll
<1>3. ASSUME NEW r \in Requests, IssueToken(r), cleared'[u] # cleared[u]
      PROVE  request[r] # Idle /\ Swiped(r) /\ request[r].user = u /\ cleared'[u] = request[r].era
  BY <1>1, <1>3 DEF IssueToken, Doing, Swiped
<1>4. ASSUME NEW r \in Requests, Arrive(r) PROVE UNCHANGED cleared
  BY <1>4, Arrivals DEF Arrived
<1> QED
  BY <1>2, <1>3, <1>4 DEF Next, vars, Step, SetPassword, BurnTickets, Anonymise, RevokeAll, Spend, Drop,
     OpenSession, Dies, LinkExpires, ForgetPassword

LEMMA RevokingKept == Sound /\ Revoking /\ [Next]_vars => Revoking'
<1> SUFFICES ASSUME Sound, Revoking, [Next]_vars PROVE Revoking'
  OBVIOUS
<1>1. Sound'
  BY StepSound
<1>2. ASSUME NEW r \in Requests, Swiped(r)
      PROVE  /\ request[r].user \in Users /\ request[r].era \in Nat
             /\ request[r].era <= account[request[r].user].era
             /\ Swept(request[r].user, request[r].era)
  <2>1. request[r] # Idle
    BY <1>2, RowTypes DEF Swiped, Revokers
  <2> QED
    BY <1>2, <2>1, DoingKnown, SessionsAssumption DEF KnownRow, RequestRows, Eras, Revoking
<1>3. ASSUME NEW u \in Users, NEW e, e = cleared'[u]
      PROVE  Swept(u, e)' /\ e <= account'[u].era
  <2>1. e \in Nat /\ e <= account[u].era /\ Swept(u, e)
    BY <1>2, <1>3, Clearings, ErasGrow DEF Revoking
  <2>2. Swept(u, e)'
    BY <1>1, <2>1, SweptKept
  <2>3. e <= account'[u].era
    <3>1. account[u].era <= account'[u].era /\ account[u].era \in Nat /\ account'[u].era \in Nat
      BY ErasGrow
    <3> QED
      BY <2>1, <3>1
  <2> QED
    BY <2>2, <2>3
<1>4. ASSUME NEW r \in Requests, Swiped(r)', NEW u, u = request'[r].user, NEW e, e = request'[r].era
      PROVE  Swept(u, e)'
  <2>1. CASE Swiped(r) /\ u = request[r].user /\ e = request[r].era
    BY <1>1, <1>2, <2>1, SweptKept
  <2>2. ASSUME NEW q \in Requests, Step(q), q # r PROVE Swept(u, e)'
    <3>1. Stays(r)
      BY <2>2, StepMoves
    <3> QED
      BY <1>4, <2>1, <3>1 DEF Stays, Swiped
  <2>3. CASE Step(r)
    <3>1. CASE RevokeAll(r)
      <4>1. e \in Nat
        BY <1>1, <1>4, SessionsAssumption DEF Sound, TypeOK, RequestRows, Eras
      <4> QED
        BY <1>1, <1>4, <2>3, <3>1, <4>1, SwipedAfter, RevokingSweeps
    <3> QED
      BY <1>4, <2>1, <2>3, <3>1, SwipedAfter
  <2>4. ASSUME NEW q \in Requests, Dies(q) PROVE Swept(u, e)'
    <3>1. q # r
      BY <1>4, <2>4, RowTypes DEF Dies, Sound, TypeOK, Swiped, Revokers
    <3>2. request'[r] = request[r]
      BY <2>4, <3>1 DEF Dies, Sound, TypeOK
    <3> QED
      BY <1>4, <2>1, <3>2 DEF Swiped
  <2>5. ASSUME NEW q \in Requests, Arrive(q) PROVE Swept(u, e)'
    <3>1. PICK op \in Ops, x \in Users, s \in Sessions \cup {NoSession} : Arrived(q, op, x, s)
      BY <2>5, Arrivals
    <3>2. op \in Revokers => Head(Steps[op]) \in {"revoke_all", "password", "anonymise"}
      BY DEF Revokers, Steps
    <3>3. q # r
      BY <1>4, <3>1, <3>2 DEF Arrived, Swiped
    <3>4. request'[r] = request[r]
      BY <3>1, <3>3 DEF Arrived
    <3> QED
      BY <1>4, <2>1, <3>4 DEF Swiped
  <2>6. CASE UNCHANGED request
    BY <1>4, <2>1, <2>6 DEF Swiped
  <2> QED
    BY <2>2, <2>3, <2>4, <2>5, <2>6 DEF Next, vars, LinkExpires, ForgetPassword
<1>5. \A r \in Requests : Swiped(r)' => Swept(request[r].user, request[r].era)'
  <2>1. SUFFICES ASSUME NEW r \in Requests, Swiped(r)' PROVE Swept(request[r].user, request[r].era)'
    OBVIOUS
  <2>2. PICK u, e : u = request'[r].user /\ e = request'[r].era
    OBVIOUS
  <2>3. Swept(u, e)'
    BY <1>4, <2>1, <2>2
  <2> QED
    BY <2>2, <2>3 DEF Swept
<1>6. \A u \in Users : (Swept(u, cleared[u]) /\ cleared[u] <= account[u].era)'
  <2>1. SUFFICES ASSUME NEW u \in Users PROVE Swept(u, cleared[u])' /\ cleared'[u] <= account'[u].era
    OBVIOUS
  <2>2. PICK e : e = cleared'[u]
    OBVIOUS
  <2>3. Swept(u, e)' /\ e <= account'[u].era
    BY <1>3, <2>2
  <2> QED
    BY <2>2, <2>3 DEF Swept
<1> QED
  BY <1>5, <1>6 DEF Revoking

LEMMA InitRevoking == Init => Revoking
<1> SUFFICES ASSUME Init PROVE Revoking
  OBVIOUS
<1>1. Sound
  BY InitSound
<1>2. \A r \in Requests : request[r].op = "none"
  BY RowTypes DEF Init
<1>3. \A s \in Sessions : session[s].token = "none"
  BY RowTypes DEF Init
<1>4. \A u \in Users : cleared[u] = 0 /\ account[u].era = 0
  BY DEF Init
<1> QED
  BY <1>2, <1>3, <1>4 DEF Revoking, Swept, Swiped, Issuers, Revokers

\* Once a revocation has been answered, no session from before it can be exchanged,
\* but what a request that overlapped it issued: whatever crashes, and whatever
\* Redis loses.
THEOREM RevocationsHold == Spec => []RevocationHolds
<1>1. Sound /\ Revoking => RevocationHolds
  <2> SUFFICES ASSUME Sound, Revoking, NEW s \in Sessions, session[s].token = "valid",
                      session[s].era < cleared[session[s].user]
               PROVE  session[s].raced
    BY DEF RevocationHolds
  <2>1. session[s].user \in Users
    BY RowTypes, NotNoRow
  <2> QED
    BY <2>1 DEF Revoking, Swept
<1>2. Init => Sound /\ Revoking
  BY InitSound, InitRevoking
<1>3. (Sound /\ Revoking) /\ [Next]_vars => (Sound /\ Revoking)'
  BY StepSound, RevokingKept
<1> QED
  BY <1>1, <1>2, <1>3, PTL DEF Spec

-----------------------------------------------------------------------------
(* Somebody signed in stays so. *)

\* A refresh that has spent its old token and has yet to hand out the new one.
Past(r) == request[r].op = "refresh" /\ Head(request[r].todo) \in {"open", "issue"}

Lives(s) == session[s].token = "valid" /\ session[s].redis

\* A refresh that has not come as far does not count: its token may be spent by
\* another one first.
Alive(c) ==
  \/ \E s \in Sessions : session[s].chain = c /\ Lives(s)
  \/ \E r \in Requests : Past(r) /\ ChainOf(r) = c

SignedIn ==
  /\ \A c \in Sessions :
       session[c].chain = c /\ session[c].token # "none" /\ c \notin left => Alive(c)
  /\ \A r \in Requests :
       /\ request[r].op = "logout" /\ Head(request[r].todo) = "drop" => ChainOf(r) \in left
       /\ request[r] # Idle /\ Head(request[r].todo) = "issue" =>
            session[request[r].new].redis \/ session[request[r].new].chain \in left

LEMMA LeftGrows ==
  ASSUME Sound, [Next]_vars
  PROVE  left \subseteq left'
<1>1. ASSUME NEW r \in Requests, Arrive(r) PROVE UNCHANGED left
  BY <1>1, Arrivals DEF Arrived
<1> QED
  BY <1>1 DEF Next, vars, Step, SetPassword, BurnTickets, Anonymise, RevokeAll, DropAll, Spend, Drop,
     IssueToken, OpenSession, Dies, LinkExpires, ForgetPassword

\* A step leaves every session its token, whatever becomes of it, and issues one at most.
LEMMA TokensAfter ==
  ASSUME Sound, NEW r \in Requests, Step(r), NEW s \in Sessions, session'[s].token # "none"
  PROVE  session[s].token # "none" \/ (IssueToken(r) /\ s = request[r].new)
<1>0. session[s] \in SessionRows
  BY Typing DEF Sound
<1>1. CASE SetPassword(r) \/ BurnTickets(r) \/ Anonymise(r)
  BY <1>1 DEF SetPassword, BurnTickets, Anonymise
<1>2. CASE DropAll(r)
  BY <1>2, DropAllSessions
<1>3. CASE RevokeAll(r)
  BY <1>0, <1>3, RevokedRow DEF RevokeAll
<1>4. CASE Spend(r)
  BY <1>0, <1>4, RevokedRow DEF Spend, Sound, TypeOK
<1>5. CASE Drop(r)
  <2>1. \A x \in Sessions : session'[x].token = session[x].token
    BY <1>5 DEF Drop, Sound, TypeOK, SessionRows
  <2> QED
    BY <2>1
<1>6. CASE \E x \in Sessions : OpenSession(r, x)
  BY <1>6, OpenSessions
<1>7. CASE IssueToken(r)
  BY <1>7, IssueSessions
<1> QED
  BY <1>1, <1>2, <1>3, <1>4, <1>5, <1>6, <1>7 DEF Step

\* What takes a session out of Redis is what its chain is counted out by.
LEMMA RedisKept ==
  ASSUME Sound, SignedIn, NEW r \in Requests, Step(r), NEW s \in Sessions, session[s] # NoRow, session[s].redis
  PROVE  session'[s].redis \/ session[s].chain \in left'
<1>1. CASE SetPassword(r) \/ BurnTickets(r) \/ Anonymise(r)
  BY <1>1 DEF SetPassword, BurnTickets, Anonymise
<1>2. CASE DropAll(r)
  <2>1. session[s].user = request[r].user => session[s].chain \in left'
    BY <1>2 DEF DropAll, ChainsOf
  <2> QED
    BY <1>2, <2>1, DropAllSessions
<1>3. CASE RevokeAll(r)
  BY <1>3, RevokeAllSessions
<1>4. CASE Spend(r)
  <2>1. session[s] \in SessionRows
    BY Typing DEF Sound
  <2> QED
    BY <1>4, <2>1, RevokedRow DEF Spend, Sound, TypeOK
<1>5. CASE Drop(r)
  <2>1. request[r] # Idle /\ Head(request[r].todo) = "drop"
    BY <1>5 DEF Drop, Doing
  <2>2. request[r].op = "logout"
    BY <2>1, DoingKnown DEF Last, Follows
  <2>3. ChainOf(r) \in left'
    BY <1>5, <2>1, <2>2 DEF Drop, SignedIn
  <2> QED
    BY <1>5, <2>3, SpendSessions DEF ChainOf
<1>6. CASE \E x \in Sessions : OpenSession(r, x)
  BY <1>6, OpenSessions
<1>7. CASE IssueToken(r)
  BY <1>7, IssueSessions
<1> QED
  BY <1>1, <1>2, <1>3, <1>4, <1>5, <1>6, <1>7 DEF Step

\* ... and what revokes a token counts its chain out, but a refresh that goes on.
LEMMA ValidKept ==
  ASSUME Sound, NEW r \in Requests, Step(r), NEW s \in Sessions, session[s].token = "valid"
  PROVE  \/ session'[s].token = "valid" \/ session[s].chain \in left'
         \/ Spend(r) /\ request[r].op = "refresh" /\ s = request[r].from
<1>1. CASE SetPassword(r) \/ BurnTickets(r) \/ Anonymise(r)
  BY <1>1 DEF SetPassword, BurnTickets, Anonymise
<1>2. CASE DropAll(r)
  BY <1>2, DropAllSessions
<1>3. CASE RevokeAll(r)
  <2>1. session[s].user = request[r].user => session[s].chain \in left'
    BY <1>3 DEF RevokeAll, ChainsOf
  <2> QED
    BY <1>3, <2>1, RevokeAllSessions
<1>4. CASE Spend(r)
  <2>1. request[r] # Idle /\ Head(request[r].todo) = "spend"
    BY <1>4 DEF Spend, Doing
  <2>2. request[r].op \in {"refresh", "logout"}
    BY <2>1, DoingKnown DEF Last, Follows
  <2>3. request[r].op = "logout" => ChainOf(r) \in left'
    BY <1>4 DEF Spend
  <2> QED
    BY <1>4, <2>2, <2>3, SpendSessions DEF ChainOf
<1>5. CASE Drop(r)
  <2>1. \A x \in Sessions : session'[x].token = session[x].token
    BY <1>5 DEF Drop, Sound, TypeOK, SessionRows
  <2> QED
    BY <2>1
<1>6. CASE \E x \in Sessions : OpenSession(r, x)
  BY <1>6, OpenSessions, RowTypes
<1>7. CASE IssueToken(r)
  BY <1>7, IssueSessions
<1> QED
  BY <1>1, <1>2, <1>3, <1>4, <1>5, <1>6, <1>7 DEF Step

\* A step keeps every chain alive, or counts it out.
LEMMA StepAlive ==
  ASSUME Sound, Sound', SignedIn, NEW r \in Requests, Step(r), NEW c \in Sessions, Alive(c), c \notin left'
  PROVE  Alive(c)'
<1>1. \A q \in Requests : q # r => Stays(q)
  BY StepMoves
<1>2. request[r] # Idle /\ request[r] \in RequestRows /\ Ahead(request[r].op, request[r].todo)
  BY StepMoves, DoingKnown DEF KnownRow
<1>3. PICK row : Moves(r, row)
  BY StepMoves
<1>4. \A q \in Requests : request[q].op = "refresh" =>
        session[request[q].from] # NoRow /\ session'[request[q].from].chain = ChainOf(q)
  <2>1. SUFFICES ASSUME NEW q \in Requests, request[q].op = "refresh"
                 PROVE  session[request[q].from] # NoRow /\ session'[request[q].from].chain = ChainOf(q)
    OBVIOUS
  <2>2. request[q] # Idle
    BY <2>1, RowTypes
  <2>3. request[q].from \in Sessions /\ session[request[q].from] # NoRow
    BY <2>1, <2>2, ChainKnown
  <2> QED
    BY <2>3, SessionMoves DEF Keeps, ChainOf
<1>5. ASSUME request[r].op = "refresh", Head(request[r].todo) \in {"spend", "open"}
      PROVE  Past(r)' /\ (ChainOf(r))' = ChainOf(r)
  <2>1. ~Last(row.op, Head(row.todo))
    BY <1>3, <1>5 DEF Last, Moves
  <2>2. /\ request'[r].op = request[r].op /\ request'[r].from = request[r].from
        /\ Follows(request[r].op, Head(request[r].todo), Head(request'[r].todo))
    BY <1>2, <1>3, <2>1, AdvancedRow DEF Moves
  <2>3. Head(request'[r].todo) \in {"open", "issue"}
    BY <1>5, <2>2 DEF Follows
  <2> QED
    BY <1>4, <1>5, <2>2, <2>3 DEF Past, ChainOf
<1>6. ASSUME NEW q \in Requests, Past(q), ChainOf(q) = c PROVE Alive(c)'
  <2>1. CASE q # r
    <3>1. Past(q)' /\ (ChainOf(q))' = c
      BY <1>1, <1>4, <1>6, <2>1 DEF Stays, Past, ChainOf
    <3> QED
      BY <3>1 DEF Alive
  <2>2. CASE q = r /\ Head(request[r].todo) = "open"
    <3>1. Past(r)' /\ (ChainOf(r))' = c
      BY <1>5, <1>6, <2>2 DEF Past
    <3> QED
      BY <3>1 DEF Alive
  <2>3. CASE q = r /\ Head(request[r].todo) = "issue"
    <3>1. IssueToken(r)
      BY <2>3 DEF Step, SetPassword, BurnTickets, Anonymise, RevokeAll, DropAll, Spend, Drop, OpenSession, Doing
    <3> DEFINE new == request[r].new
    <3>2. new \in Sessions /\ session[new].chain = c /\ session[new] # NoRow
      BY <1>2, <1>6, <2>3, DoingKnown, NotNoRow DEF KnownRow, Past, ChainOf
    <3>3. session[new].redis \/ c \in left
      BY <1>2, <2>3, <3>2 DEF SignedIn
    <3>4. left' = left
      BY <3>1 DEF IssueToken
    <3>5. session'[new].token = "valid" /\ session'[new].redis /\ session'[new].chain = c
      BY <3>1, <3>2, <3>3, <3>4, IssueSessions DEF Keeps
    <3> QED
      BY <3>2, <3>5 DEF Alive, Lives
  <2> QED
    BY <1>6, <2>1, <2>2, <2>3 DEF Past
<1>7. ASSUME NEW s \in Sessions, session[s].chain = c, Lives(s) PROVE Alive(c)'
  <2>1. session[s] # NoRow
    BY <1>7, RowTypes DEF Lives
  <2>2. session'[s].chain = c /\ session'[s].redis
    BY <1>7, <2>1, SessionMoves, RedisKept DEF Keeps, Lives
  <2>3. CASE session'[s].token = "valid"
    BY <2>2, <2>3 DEF Alive, Lives
  <2>4. CASE Spend(r) /\ request[r].op = "refresh" /\ s = request[r].from
    <3>1. Past(r)' /\ (ChainOf(r))' = ChainOf(r)
      BY <1>5, <2>4 DEF Spend, Doing
    <3>2. (ChainOf(r))' = c
      BY <1>7, <2>4, <3>1 DEF ChainOf
    <3> QED
      BY <3>1, <3>2 DEF Alive
  <2> QED
    BY <1>7, <2>3, <2>4, ValidKept DEF Lives
<1> QED
  BY <1>6, <1>7 DEF Alive

LEMMA OthersAlive ==
  ASSUME Sound, NEW c \in Sessions, Alive(c), c \notin left',
         \/ \E r \in Requests : Arrive(r) \/ Dies(r)
         \/ \E t \in Tickets : LinkExpires(t) \/ \E u \in Users : ForgetPassword(u, t)
         \/ UNCHANGED vars
  PROVE  Alive(c)'
<1>1. UNCHANGED session
  BY OthersKnown
<1>2. ASSUME NEW s \in Sessions, session[s].chain = c, Lives(s) PROVE Alive(c)'
  BY <1>1, <1>2 DEF Alive, Lives
<1>3. ASSUME NEW q \in Requests, Past(q), ChainOf(q) = c PROVE Alive(c)'
  <2>1. SUFFICES request'[q] = request[q]
    BY <1>1, <1>3 DEF Alive, Past, ChainOf
  <2>2. ASSUME NEW r \in Requests, Arrive(r) PROVE request'[q] = request[q]
    <3>1. PICK op \in Ops, x \in Users, s \in Sessions \cup {NoSession} : Arrived(r, op, x, s)
      BY <2>2, Arrivals
    <3>2. q # r
      BY <1>3, <3>1, RowTypes DEF Arrived, Past
    <3> QED
      BY <3>1, <3>2 DEF Arrived
  <2>3. ASSUME NEW r \in Requests, Dies(r) PROVE request'[q] = request[q]
    <3>1. q # r
      BY <1>3, <2>3 DEF Dies, Past
    <3> QED
      BY <2>3, <3>1 DEF Dies, Sound, TypeOK
  <2> QED
    BY <2>2, <2>3 DEF LinkExpires, ForgetPassword, vars
<1> QED
  BY <1>2, <1>3 DEF Alive

\* What a request has to count on, after a step.
LEMMA StepCounts ==
  ASSUME Sound, Sound', SignedIn, [Next]_vars, NEW r \in Requests, Step(r), NEW q \in Requests
  PROVE  /\ request'[q].op = "logout" /\ Head(request'[q].todo) = "drop" => (ChainOf(q))' \in left'
         /\ request'[q] # Idle /\ Head(request'[q].todo) = "issue" =>
              session'[request'[q].new].redis \/ session'[request'[q].new].chain \in left'
<1>1. CASE q # r
  <2>1. Stays(q) /\ left \subseteq left'
    BY <1>1, StepMoves, LeftGrows
  <2>2. ASSUME request[q].op = "logout" PROVE (ChainOf(q))' = ChainOf(q)
    <3>1. request[q].from \in Sessions /\ session[request[q].from] # NoRow
      BY <2>2, RowTypes, ChainKnown
    <3> QED
      BY <2>1, <3>1, SessionMoves DEF Keeps, ChainOf, Stays
  <2>3. ASSUME request[q] # Idle, Head(request[q].todo) = "issue"
        PROVE  session'[request[q].new].redis \/ session'[request[q].new].chain \in left'
    <3>1. request[q].new \in Sessions /\ session[request[q].new] # NoRow
      BY <2>3, DoingKnown, NotNoRow DEF KnownRow
    <3>2. session[request[q].new].redis \/ session[request[q].new].chain \in left
      BY <2>3 DEF SignedIn
    <3> QED
      BY <2>1, <3>1, <3>2, SessionMoves, RedisKept DEF Keeps
  <2> QED
    BY <2>1, <2>2, <2>3 DEF Stays, SignedIn
<1>2. CASE q = r /\ request'[r] # Idle
  <2>1. PICK row : Moves(r, row) /\ ((\E s \in Sessions : OpenSession(r, s)) => OpenSession(r, row.new) /\ row.new \in Sessions)
    <3>1. CASE \E s \in Sessions : OpenSession(r, s)
      BY <3>1, OpeningMoves
    <3> QED
      BY <3>1, StepMoves
  <2>2. request[r] # Idle /\ row \in RequestRows /\ Ahead(row.op, row.todo)
    BY <2>1, StepMoves, DoingKnown DEF KnownRow, Moves
  <2>3. /\ request'[r].op = request[r].op /\ request'[r].from = request[r].from
        /\ request'[r].new = row.new
        /\ Follows(request[r].op, Head(request[r].todo), Head(request'[r].todo))
    BY <1>2, <2>1, <2>2, AdvancedRow DEF Moves
  <2>4. ASSUME request[r].op = "logout", Head(request'[r].todo) = "drop"
        PROVE  (ChainOf(r))' \in left'
    <3>1. Spend(r)
      BY <2>3, <2>4 DEF Follows, Step, SetPassword, BurnTickets, Anonymise, RevokeAll, DropAll, Drop, OpenSession, IssueToken, Doing
    <3>2. request[r].from \in Sessions /\ session[request[r].from] # NoRow
      BY <2>2, <2>4, ChainKnown
    <3>3. (ChainOf(r))' = ChainOf(r)
      BY <2>3, <3>2, SessionMoves DEF Keeps, ChainOf
    <3> QED
      BY <2>4, <3>1, <3>3 DEF Spend
  <2>5. ASSUME Head(request'[r].todo) = "issue"
        PROVE  session'[request'[r].new].redis
    <3>1. \E s \in Sessions : OpenSession(r, s)
      BY <2>3, <2>5 DEF Follows, Step, SetPassword, BurnTickets, Anonymise, RevokeAll, DropAll, Spend, Drop, IssueToken, Doing
    <3> QED
      BY <2>1, <2>3, <3>1, OpenSessions
  <2> QED
    BY <1>2, <2>3, <2>4, <2>5
<1> QED
  BY <1>1, <1>2, RowTypes

LEMMA OthersCount ==
  ASSUME Sound, SignedIn, [Next]_vars, NEW q \in Requests,
         \/ \E r \in Requests : Arrive(r) \/ Dies(r)
         \/ \E t \in Tickets : LinkExpires(t) \/ \E u \in Users : ForgetPassword(u, t)
         \/ UNCHANGED vars
  PROVE  /\ request'[q].op = "logout" /\ Head(request'[q].todo) = "drop" => (ChainOf(q))' \in left'
         /\ request'[q] # Idle /\ Head(request'[q].todo) = "issue" =>
              session'[request'[q].new].redis \/ session'[request'[q].new].chain \in left'
<1>1. UNCHANGED session /\ left \subseteq left'
  BY OthersKnown, LeftGrows
<1>2. CASE request'[q] = request[q]
  BY <1>1, <1>2 DEF SignedIn, ChainOf
<1>3. ASSUME NEW r \in Requests, Arrive(r), request'[q] # request[q]
      PROVE  Head(request'[q].todo) \notin {"drop", "issue"}
  <2>1. PICK op \in Ops, x \in Users, s \in Sessions \cup {NoSession} : Arrived(r, op, x, s)
    BY <1>3, Arrivals
  <2>2. Head(Steps[op]) \notin {"drop", "issue"}
    BY DEF Steps, Ops
  <2> QED
    BY <1>3, <2>1, <2>2 DEF Arrived
<1>4. ASSUME NEW r \in Requests, Dies(r), request'[q] # request[q]
      PROVE  request'[q] = Idle
  BY <1>4 DEF Dies, Sound, TypeOK
<1> QED
  BY <1>2, <1>3, <1>4, RowTypes DEF LinkExpires, ForgetPassword, vars

LEMMA SignedInKept == Sound /\ SignedIn /\ [Next]_vars => SignedIn'
<1> SUFFICES ASSUME Sound, SignedIn, [Next]_vars PROVE SignedIn'
  OBVIOUS
<1>1. Sound' /\ left \subseteq left'
  BY StepSound, LeftGrows
<1> DEFINE Quiet == \/ \E r \in Requests : Arrive(r) \/ Dies(r)
                    \/ \E t \in Tickets : LinkExpires(t) \/ \E u \in Users : ForgetPassword(u, t)
                    \/ UNCHANGED vars
<1>2. Quiet \/ \E r \in Requests : Step(r)
  BY DEF Next
<1>3. ASSUME NEW c \in Sessions, session'[c].chain = c, session'[c].token # "none", c \notin left'
      PROVE  Alive(c)'
  <2>1. CASE session[c].token # "none"
    <3>1. session[c] # NoRow
      BY <2>1, RowTypes
    <3>2. session'[c].chain = session[c].chain
      BY <1>2, <3>1, SessionMoves, OthersKnown DEF Keeps
    <3>3. Alive(c)
      BY <1>1, <1>3, <2>1, <3>2 DEF SignedIn
    <3> QED
      BY <1>1, <1>2, <1>3, <3>3, StepAlive, OthersAlive
  <2>2. CASE session[c].token = "none"
    <3>1. PICK r \in Requests : Step(r) /\ IssueToken(r) /\ c = request[r].new
      BY <1>2, <1>3, <2>2, TokensAfter, OthersKnown
    <3>2. request[r] # Idle /\ Head(request[r].todo) = "issue"
      BY <3>1 DEF IssueToken, Doing
    <3>3. session[c] # NoRow
      BY <3>1, <3>2, DoingKnown, NotNoRow DEF KnownRow
    <3>4. session[c].chain = c /\ session'[c].token = "valid" /\ session'[c].redis = session[c].redis
      BY <1>3, <3>1, <3>3, IssueSessions DEF Keeps
    <3>5. session[c].redis
      BY <1>1, <1>3, <3>1, <3>2, <3>4 DEF SignedIn
    <3> QED
      BY <1>3, <3>4, <3>5 DEF Alive, Lives
  <2> QED
    BY <2>1, <2>2
<1>4. ASSUME NEW q \in Requests
      PROVE  /\ request'[q].op = "logout" /\ Head(request'[q].todo) = "drop" => (ChainOf(q))' \in left'
             /\ request'[q] # Idle /\ Head(request'[q].todo) = "issue" =>
                  session'[request'[q].new].redis \/ session'[request'[q].new].chain \in left'
  BY <1>1, <1>2, StepCounts, OthersCount
<1> QED
  BY <1>3, <1>4 DEF SignedIn

\* Whoever signed in has a session to go on with, or a refresh that brings one, until they
\* sign out, a revocation of their own reaches them, or a refresh of theirs dies after it
\* spent the old token.
THEOREM StaySignedIn == Spec => []KeepsSignedIn
<1>1. Sound /\ SignedIn => KeepsSignedIn
  BY DEF KeepsSignedIn, SignedIn, Alive, Continues, Past, Lives
<1>2. Init => SignedIn
  BY RowTypes DEF Init, SignedIn
<1>3. Init => Sound /\ SignedIn
  BY <1>2, InitSound
<1>4. (Sound /\ SignedIn) /\ [Next]_vars => (Sound /\ SignedIn)'
  BY StepSound, SignedInKept
<1> QED
  BY <1>1, <1>3, <1>4, PTL DEF Spec

=============================================================================
