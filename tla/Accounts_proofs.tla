---------------------------- MODULE Accounts_proofs ----------------------------
(***************************************************************************)
(* Theorems about Accounts, for any number of users, names, addresses,     *)
(* codes and requests.  Codes and limits hold whatever dies and whoever    *)
(* leaves; a reserved name needs accounts not to be deleted in the middle  *)
(* of a change of their name.                                              *)
(***************************************************************************)
EXTENDS Accounts, TLAPS

-----------------------------------------------------------------------------
(* Types, and what each kind of request carries from stage to stage. *)

Known(q) ==
  \/ q = Idle
  \/ q.op = "check" /\ q.stage \in {"look", "remember"} /\ q.name \in Names /\ q.code = NoCode
  \/ /\ q.op = "register" /\ q.stage \in {"burn", "look", "remember", "take", "forget"}
     /\ q.name \in Names /\ q.email \in Emails /\ q.code \in Codes /\ q.purpose = "signup"
  \/ /\ q.op = "rename" /\ q.stage \in {"look", "remember", "take", "forget"}
     /\ q.user \in Users /\ q.name \in Names /\ q.old \in Names /\ q.name # q.old /\ q.code = NoCode
  \/ /\ q.op = "email" /\ q.stage \in {"burn", "take"}
     /\ q.user \in Users /\ q.email \in Emails /\ q.code \in Codes /\ q.purpose = "change"
  \/ q.op = "code" /\ q.stage = "send" /\ q.email \in Emails /\ q.count > 0 /\ q.code = NoCode

\* An open account has a name.
Named == \A u \in Users : user[u].state = "open" => user[u].name \in Names

Sound == TypeOK /\ Named /\ \A r \in Requests : Known(request[r])

Stages == {"none", "burn", "look", "remember", "take", "forget", "send"}
CodeSet == Codes \cup {NoCode}

LEMMA CodesTyped == NoCode \notin Codes /\ CodeSet \subseteq Nat /\ ResendMax \in Nat \ {0}
BY BoundsAssumption DEF Codes, NoCode, CodeSet

LEMMA IdleTyped ==
  /\ Idle \in RequestRows /\ Known(Idle) /\ Idle.op = "none" /\ Idle.stage = "none"
  /\ Idle.user = NoUser /\ Idle.code = NoCode /\ Idle.count = 0 /\ ~Idle.loose /\ Idle.purpose = "signup"
  /\ Idle.name = NoName /\ Idle.old = NoName
<1>1. 0 \in 0 .. ResendMax + 1
  BY CodesTyped
<1> QED
  BY <1>1 DEF Idle, Known, RequestRows, Purposes

LEMMA Typing ==
  ASSUME TypeOK
  PROVE  /\ \A r \in Requests : request[r] \in RequestRows
         /\ \A u \in Users : user[u] \in AccountRows
         /\ \A n \in Names : /\ history[n] \in [user : Users \cup {NoUser}, fresh : BOOLEAN]
                             /\ cache[n] \in Answers
         /\ \A k \in Keys : /\ otp[k] \in CodeSet
                            /\ resend[k] \in [count : 0 .. ResendMax + 1, timed : BOOLEAN]
         /\ \A c \in Codes : /\ mailed[c] \in Keys \cup {<<>>}
                             /\ used[c] \in [times : Nat, purposes : SUBSET Purposes]
BY DEF TypeOK, CodeSet

KeyOf(r) == Key(request[r].purpose, request[r].email)

\* Only this request goes on.
Alone(r) ==
  /\ request' \in [Requests -> RequestRows] /\ Known(request'[r])
  /\ \A x \in Requests : x # r => request'[x] = request[x]

Same(old, new) ==
  /\ new.op = old.op /\ new.user = old.user /\ new.name = old.name /\ new.old = old.old
  /\ new.email = old.email /\ new.purpose = old.purpose /\ new.code = old.code /\ new.count = old.count

\* It goes on to another stage,
Went(r, stage) == Alone(r) /\ Same(request[r], request'[r]) /\ request'[r].stage = stage

\* is over,
Ended(r) == Alone(r) /\ request'[r] = Idle

\* or begins.
Began(r, op, stage) ==
  /\ Alone(r) /\ request[r] = Idle
  /\ request'[r].op = op /\ request'[r].stage = stage /\ ~request'[r].loose

LEMMA AloneTyped ==
  ASSUME Sound, NEW r \in Requests, Alone(r)
  PROVE  request' \in [Requests -> RequestRows] /\ \A x \in Requests : Known(request'[x])
BY DEF Sound, Alone

LEMMA DoneEnds ==
  ASSUME Sound, NEW r \in Requests, Done(r)
  PROVE  Ended(r)
BY IdleTyped DEF Done, Ended, Alone, Sound, TypeOK

LEMMA Puts ==
  ASSUME Sound, NEW r \in Requests, NEW row \in RequestRows, Known(row), request' = [request EXCEPT ![r] = row]
  PROVE  Alone(r) /\ request'[r] = row
BY DEF Alone, Sound, TypeOK

\* Where a request at a stage may come from.
LEMMA AtFacts ==
  ASSUME Sound, NEW r \in Requests
  PROVE  /\ request[r] \in RequestRows /\ Known(request[r])
         /\ At(r, "burn") => request[r].op \in {"register", "email"}
         /\ At(r, "look") => request[r].op \in {"check", "register", "rename"}
         /\ At(r, "remember") => request[r].op \in {"check", "register", "rename"}
         /\ At(r, "take") => request[r].op \in {"register", "rename", "email"}
         /\ At(r, "forget") => request[r].op \in {"register", "rename"}
         /\ At(r, "send") => request[r].op = "code"
         /\ request[r].stage # "none" => request[r] # Idle
<1>1. request[r] \in RequestRows /\ Known(request[r])
  BY Typing DEF Sound
<1> QED
  BY <1>1, IdleTyped DEF Known, At

-----------------------------------------------------------------------------
(* What each step makes of its request. *)

LEMMA AskRow ==
  ASSUME Sound, NEW r \in Requests, NEW p \in Purposes, NEW e \in Emails, AskForCode(r, p, e)
  PROVE  /\ Began(r, "code", "send") /\ request'[r].code = NoCode
         /\ request'[r].purpose = p /\ request'[r].email = e
         /\ resend' = [resend EXCEPT ![Key(p, e)].count = request'[r].count]
         /\ request'[r].count = IF resend[Key(p, e)].count > ResendMax THEN resend[Key(p, e)].count
                                ELSE resend[Key(p, e)].count + 1
         /\ request'[r].count \in 1 .. ResendMax + 1
<1> DEFINE k == Key(p, e)
           n == IF resend[k].count > ResendMax THEN resend[k].count ELSE resend[k].count + 1
           row == [Idle EXCEPT !.op = "code", !.stage = "send", !.purpose = p, !.email = e, !.count = n]
<1>1. k \in Keys
  BY DEF Key, Keys
<1>2. resend[k].count \in 0 .. ResendMax + 1
  BY <1>1, Typing DEF Sound
<1>3. n \in 0 .. ResendMax + 1 /\ n > 0
  BY <1>2, CodesTyped
<1>4. resend' = [resend EXCEPT ![k].count = n] /\ request[r] = Idle /\ request' = [request EXCEPT ![r] = row]
  BY DEF AskForCode, Begin
<1>5. n = IF resend[k].count > ResendMax THEN resend[k].count ELSE resend[k].count + 1
  OBVIOUS
<1> HIDE DEF n
<1>6. /\ row \in RequestRows /\ row.op = "code" /\ row.stage = "send" /\ row.purpose = p /\ row.email = e
      /\ row.count = n /\ row.code = NoCode /\ ~row.loose
  BY <1>3, IdleTyped DEF RequestRows
<1> HIDE DEF row
<1>7. Known(row)
  BY <1>3, <1>6 DEF Known
<1>8. Alone(r) /\ request'[r] = row
  BY <1>4, <1>6, <1>7, Puts
<1>9. n \in 1 .. ResendMax + 1
  BY <1>3, CodesTyped
<1> QED
  BY <1>4, <1>5, <1>6, <1>8, <1>9 DEF Began

\* Both purposes read a code the same way.
Reads(r) ==
  /\ Began(r, request'[r].op, "burn") /\ request'[r].op \in {"register", "email"}
  /\ request'[r].code \in Codes /\ request'[r].email \in Emails
  /\ otp[Key(request'[r].purpose, request'[r].email)] = request'[r].code
  /\ raced' = IF \E x \in Requests : At(x, "burn") /\ request[x].code = request'[r].code
              THEN raced \cup {request'[r].code} ELSE raced
  /\ UNCHANGED <<user, history, cache, otp, resend, mailed, used, slipped, torn>>

LEMMA RegisterReads ==
  ASSUME Sound, NEW r \in Requests, NEW n \in Names, NEW e \in Emails, NEW c \in Codes, Register(r, n, e, c)
  PROVE  Reads(r)
<1> DEFINE row == [Idle EXCEPT !.op = "register", !.stage = "burn", !.name = n, !.email = e, !.code = c]
<1>1. /\ row \in RequestRows /\ row.op = "register" /\ row.stage = "burn" /\ row.name = n /\ row.email = e
      /\ row.code = c /\ row.purpose = "signup" /\ ~row.loose
  BY IdleTyped DEF RequestRows
<1>2. Verified(r, row)
  BY DEF Register
<1> HIDE DEF row
<1>3. Known(row)
  BY <1>1 DEF Known
<1>4. Alone(r) /\ request'[r] = row /\ request[r] = Idle
  BY <1>1, <1>2, <1>3, Puts DEF Verified, Begin
<1> QED
  BY <1>1, <1>2, <1>4 DEF Reads, Began, Verified, Matches

LEMMA ConfirmReads ==
  ASSUME Sound, NEW r \in Requests, NEW u \in Users, NEW e \in Emails, NEW c \in Codes, ConfirmEmail(r, u, e, c)
  PROVE  Reads(r)
<1> DEFINE row == [Idle EXCEPT !.op = "email", !.stage = "burn", !.purpose = "change", !.user = u, !.email = e,
                               !.code = c]
<1>1. /\ row \in RequestRows /\ row.op = "email" /\ row.stage = "burn" /\ row.user = u /\ row.email = e
      /\ row.code = c /\ row.purpose = "change" /\ ~row.loose
  BY IdleTyped DEF RequestRows, Purposes
<1>2. Verified(r, row)
  BY DEF ConfirmEmail
<1> HIDE DEF row
<1>3. Known(row)
  BY <1>1 DEF Known
<1>4. Alone(r) /\ request'[r] = row /\ request[r] = Idle
  BY <1>1, <1>2, <1>3, Puts DEF Verified, Begin
<1> QED
  BY <1>1, <1>2, <1>4 DEF Reads, Began, Verified, Matches

LEMMA RenameRow ==
  ASSUME Sound, NEW r \in Requests, NEW u \in Users, NEW n \in Names, Rename(r, u, n)
  PROVE  /\ Began(r, "rename", "look") /\ request'[r].user = u /\ user[u].state = "open"
         /\ request'[r].old = user[u].name /\ request'[r].code = NoCode
<1> DEFINE row == [Idle EXCEPT !.op = "rename", !.stage = "look", !.user = u, !.name = n, !.old = user[u].name]
<1>1. user[u].state = "open" /\ user[u].name \in Names /\ user[u].name # n
  BY DEF Rename, Sound, Named, HasName
<1>2. /\ row \in RequestRows /\ row.op = "rename" /\ row.stage = "look" /\ row.user = u /\ row.name = n
      /\ row.old = user[u].name /\ row.code = NoCode /\ ~row.loose
  BY <1>1, IdleTyped DEF RequestRows
<1>3. request[r] = Idle /\ request' = [request EXCEPT ![r] = row]
  BY DEF Rename, Begin
<1> HIDE DEF row
<1>4. Known(row)
  BY <1>1, <1>2 DEF Known
<1> QED
  BY <1>1, <1>2, <1>3, <1>4, Puts DEF Began

LEMMA CheckRow ==
  ASSUME Sound, NEW r \in Requests, NEW u \in Users \cup {NoUser}, NEW n \in Names, UsernameCheck(r, u, n)
  PROVE  Began(r, "check", "look") /\ request'[r].code = NoCode
<1> DEFINE row == [Idle EXCEPT !.op = "check", !.stage = "look", !.user = u, !.name = n]
<1>1. /\ row \in RequestRows /\ row.op = "check" /\ row.stage = "look" /\ row.name = n
      /\ row.code = NoCode /\ ~row.loose
  BY IdleTyped DEF RequestRows
<1>2. request[r] = Idle /\ request' = [request EXCEPT ![r] = row]
  BY DEF UsernameCheck, Begin
<1> HIDE DEF row
<1>3. Known(row)
  BY <1>1 DEF Known
<1> QED
  BY <1>1, <1>2, <1>3, Puts DEF Began

\* The stages of each kind of request.
Leads(op, from, to) ==
  \/ op = "register" /\ from = "burn" /\ to = "look"
  \/ op = "email" /\ from = "burn" /\ to = "take"
  \/ op \in {"check", "register", "rename"} /\ from = "look" /\ to = "remember"
  \/ op \in {"register", "rename"} /\ from \in {"look", "remember"} /\ to = "take"
  \/ op \in {"register", "rename"} /\ from = "take" /\ to = "forget"

\* A request that goes on, with or without another word on its answer.
LEMMA Goes ==
  ASSUME Sound, NEW r \in Requests, NEW stage \in Stages, NEW loose \in BOOLEAN,
         Leads(request[r].op, request[r].stage, stage),
         \/ Continue(r, stage) /\ loose = request[r].loose
         \/ request' = [request EXCEPT ![r].stage = stage, ![r].loose = loose]
  PROVE  Went(r, stage) /\ request'[r].loose = loose
<1> DEFINE row == [request[r] EXCEPT !.stage = stage, !.loose = loose]
<1>1. request[r] \in RequestRows /\ Known(request[r])
  BY AtFacts
<1>2. row \in RequestRows /\ row.stage = stage /\ row.loose = loose
  <2> DEFINE staged == [request[r] EXCEPT !.stage = stage]
  <2>1. staged \in RequestRows /\ staged.stage = stage
    BY <1>1 DEF RequestRows, Stages
  <2>2. row = [staged EXCEPT !.loose = loose]
    BY <1>1 DEF RequestRows
  <2> HIDE DEF staged, row
  <2> QED
    BY <2>1, <2>2 DEF RequestRows
<1>3. Same(request[r], row)
  BY <1>1 DEF RequestRows, Same
<1>4. request' = [request EXCEPT ![r] = row]
  <2>1. CASE request' = [request EXCEPT ![r].stage = stage, ![r].loose = loose]
    BY <2>1 DEF Sound, TypeOK
  <2>2. CASE Continue(r, stage) /\ loose = request[r].loose
    <3>1. row = [request[r] EXCEPT !.stage = stage]
      BY <1>1, <2>2 DEF RequestRows
    <3> QED
      BY <2>2, <3>1 DEF Continue, Sound, TypeOK
  <2> QED
    BY <2>1, <2>2
<1> HIDE DEF row
<1>5. Known(row)
  BY <1>1, <1>2, <1>3, IdleTyped DEF Known, Same, Leads
<1> QED
  BY <1>2, <1>3, <1>4, <1>5, Puts DEF Went

LEMMA BurnRow ==
  ASSUME Sound, NEW r \in Requests, Burn(r)
  PROVE  /\ request[r].op = "register" => Went(r, "look")
         /\ request[r].op = "email" => Went(r, "take")
         /\ request[r].op \in {"register", "email"} /\ request[r].code \in Codes /\ request[r].email \in Emails
<1>1. request[r] \in RequestRows /\ Known(request[r]) /\ At(r, "burn") /\ request[r].op \in {"register", "email"}
  BY AtFacts DEF Burn
<1>2. request[r].loose \in BOOLEAN
  BY <1>1 DEF RequestRows
<1>3. request[r].op = "register" => Went(r, "look")
  BY <1>1, <1>2, Goes DEF Burn, Leads, Stages, At
<1>4. request[r].op = "email" => Went(r, "take")
  BY <1>1, <1>2, Goes DEF Burn, Leads, Stages, At
<1> QED
  BY <1>1, <1>3, <1>4, IdleTyped DEF Known

LEMMA LookRow ==
  ASSUME Sound, NEW r \in Requests, Look(r)
  PROVE  /\ request[r].name \in Names /\ request[r].op \in {"check", "register", "rename"} /\ At(r, "look")
         /\ \/ Ended(r)
            \/ /\ Went(r, "take") /\ request[r].op # "check" /\ cache[request[r].name] # "none"
               /\ request'[r].loose = (cache[request[r].name] = "loose" \/ Stale(request[r].name))
            \/ /\ Went(r, "remember") /\ ~IsTaken(request[r].name, request[r].user)
               /\ request'[r].loose = history[request[r].name].fresh
<1> DEFINE q == request[r]
<1>1. /\ q \in RequestRows /\ Known(q) /\ At(r, "look") /\ q.op \in {"check", "register", "rename"}
      /\ q.name \in Names
  BY AtFacts, IdleTyped DEF Look, Known, At
<1>2. history[q.name].fresh \in BOOLEAN
  BY <1>1, Typing DEF Sound
<1>3. ASSUME Done(r) PROVE Ended(r)
  BY <1>3, DoneEnds
<1>4. ASSUME q.op # "check",
             request' = [request EXCEPT ![r].stage = "take", ![r].loose = cache[q.name] = "loose" \/ Stale(q.name)]
      PROVE  Went(r, "take") /\ request'[r].loose = (cache[q.name] = "loose" \/ Stale(q.name))
  <2> DEFINE loose == cache[q.name] = "loose" \/ Stale(q.name)
  <2>1. loose \in BOOLEAN
    OBVIOUS
  <2>2. request' = [request EXCEPT ![r].stage = "take", ![r].loose = loose]
    BY <1>4
  <2> HIDE DEF loose
  <2>3. Went(r, "take") /\ request'[r].loose = loose
    BY <1>1, <1>4, <2>1, <2>2, Goes DEF Leads, Stages, At
  <2> QED
    BY <2>3 DEF loose
<1>5. ASSUME request' = [request EXCEPT ![r].stage = "remember", ![r].loose = history[q.name].fresh]
      PROVE  Went(r, "remember") /\ request'[r].loose = history[q.name].fresh
  BY <1>1, <1>2, <1>5, Goes DEF Leads, Stages, At
<1> QED
  BY <1>1, <1>3, <1>4, <1>5 DEF Look

LEMMA RememberRow ==
  ASSUME Sound, NEW r \in Requests, Remember(r)
  PROVE  /\ request[r].name \in Names /\ request[r].op \in {"check", "register", "rename"} /\ At(r, "remember")
         /\ \/ Ended(r)
            \/ Went(r, "take") /\ request[r].op # "check" /\ request'[r].loose = request[r].loose
<1>1. /\ request[r] \in RequestRows /\ Known(request[r]) /\ At(r, "remember")
      /\ request[r].op \in {"check", "register", "rename"} /\ request[r].name \in Names
  BY AtFacts, IdleTyped DEF Remember, Known, At
<1>2. request[r].loose \in BOOLEAN
  BY <1>1 DEF RequestRows
<1>3. CASE Done(r)
  BY <1>1, <1>3, DoneEnds
<1>4. CASE request[r].op # "check" /\ Continue(r, "take")
  BY <1>1, <1>2, <1>4, Goes DEF Leads, Stages, At
<1> QED
  BY <1>3, <1>4 DEF Remember

LEMMA CreateRow ==
  ASSUME Sound, NEW r \in Requests, CreateUser(r)
  PROVE  /\ At(r, "take") /\ request[r].op = "register" /\ request[r].name \in Names
         /\ request[r].email \in Emails /\ request[r].code \in Codes /\ request[r].purpose = "signup"
         /\ \/ Ended(r) /\ UNCHANGED <<user, used, slipped>>
            \/ /\ Went(r, "forget") /\ request'[r].loose = request[r].loose
               /\ NameFree(request[r].name) /\ ~EmailTaken(request[r].email)
               /\ \E u \in Users :
                    /\ user[u].state = "none"
                    /\ user' = [user EXCEPT ![u] = [ state |-> "open", name |-> request[r].name,
                                                     email |-> request[r].email, cooling |-> FALSE ]]
               /\ Use(request[r].code, "signup") /\ slipped' = Slips(request[r])
<1>1. /\ request[r] \in RequestRows /\ Known(request[r]) /\ At(r, "take") /\ request[r].op = "register"
  BY AtFacts DEF CreateUser
<1>2. request[r].loose \in BOOLEAN
  BY <1>1 DEF RequestRows
<1>3. ASSUME Continue(r, "forget") PROVE Went(r, "forget") /\ request'[r].loose = request[r].loose
  BY <1>1, <1>2, <1>3, Goes DEF Leads, Stages, At
<1>4. /\ request[r].name \in Names /\ request[r].email \in Emails /\ request[r].code \in Codes
      /\ request[r].purpose = "signup"
  BY <1>1, IdleTyped DEF Known
<1>5. Done(r) => Ended(r)
  BY DoneEnds
<1> QED
  BY <1>1, <1>3, <1>4, <1>5 DEF CreateUser

LEMMA EmailRow ==
  ASSUME Sound, NEW r \in Requests, UpdateEmail(r)
  PROVE  /\ At(r, "take") /\ request[r].op = "email" /\ request[r].user \in Users
         /\ request[r].email \in Emails /\ request[r].code \in Codes /\ request[r].purpose = "change"
         /\ Ended(r)
         /\ \/ UNCHANGED <<user, used>>
            \/ user' = [user EXCEPT ![request[r].user].email = request[r].email] /\ Use(request[r].code, "change")
<1>1. /\ request[r] \in RequestRows /\ Known(request[r]) /\ At(r, "take") /\ request[r].op = "email"
  BY AtFacts DEF UpdateEmail
<1> QED
  BY <1>1, IdleTyped, DoneEnds DEF Known, UpdateEmail

\* The others go on where they are; an answer about the name given up is told apart.
Turns(r) ==
  /\ request' \in [Requests -> RequestRows]
  /\ \A x \in Requests : Known(request'[x]) /\ Same(request[x], request'[x])
  /\ request'[r].stage = "forget"
  /\ \A x \in Requests : x # r =>
       /\ request'[x].stage = request[x].stage
       /\ request[x].loose => request'[x].loose
       /\ request[x].name = request[r].old /\ request[x].stage \in {"remember", "take"} => request'[x].loose

LEMMA ChangeRow ==
  ASSUME Sound, NEW r \in Requests, ChangeUsername(r)
  PROVE  /\ At(r, "take") /\ request[r].op = "rename" /\ request[r].user \in Users
         /\ request[r].name \in Names /\ request[r].old \in Names /\ request[r].name # request[r].old
         /\ request[r].code = NoCode
         /\ \/ Ended(r) /\ UNCHANGED <<user, history, slipped>>
            \/ /\ Turns(r) /\ NameFree(request[r].name) /\ history[request[r].old].user = NoUser
               /\ user' = [user EXCEPT ![request[r].user].name = request[r].name,
                                       ![request[r].user].cooling = TRUE]
               /\ history' = [history EXCEPT ![request[r].old] = [user |-> request[r].user, fresh |-> TRUE]]
               /\ slipped' = Slips(request[r])
<1> DEFINE q == request[r]
           Goer(x) == IF x = r THEN [q EXCEPT !.stage = "forget"]
                      ELSE IF request[x].name = q.old /\ request[x].stage \in {"remember", "take"}
                      THEN [request[x] EXCEPT !.loose = TRUE] ELSE request[x]
<1>1. q \in RequestRows /\ Known(q) /\ At(r, "take") /\ q.op = "rename"
  BY AtFacts DEF ChangeUsername
<1>2. q.user \in Users /\ q.name \in Names /\ q.old \in Names /\ q.name # q.old /\ q.code = NoCode
  BY <1>1, IdleTyped DEF Known
<1>3. ASSUME request' = [x \in Requests |-> Goer(x)]
      PROVE  Turns(r)
  <2>1. ASSUME NEW x \in Requests
        PROVE  /\ Goer(x) \in RequestRows /\ Known(Goer(x)) /\ Same(request[x], Goer(x))
               /\ x # r => Goer(x).stage = request[x].stage /\ (request[x].loose => Goer(x).loose)
               /\ x # r /\ request[x].name = q.old /\ request[x].stage \in {"remember", "take"} => Goer(x).loose
               /\ x = r => Goer(x).stage = "forget"
    <3>1. request[x] \in RequestRows /\ Known(request[x])
      BY AtFacts
    <3>2. CASE x = r
      <4> DEFINE row == [q EXCEPT !.stage = "forget"]
      <4>1. row \in RequestRows /\ row.stage = "forget" /\ Same(q, row)
        BY <1>1 DEF RequestRows, Same
      <4> HIDE DEF row
      <4>2. Known(row)
        BY <1>1, <1>2, <4>1, IdleTyped DEF Known, Same
      <4> QED
        BY <3>2, <4>1, <4>2 DEF row
    <3>3. CASE x # r /\ request[x].name = q.old /\ request[x].stage \in {"remember", "take"}
      <4> DEFINE row == [request[x] EXCEPT !.loose = TRUE]
      <4>1. row \in RequestRows /\ row.stage = request[x].stage /\ row.loose /\ Same(request[x], row)
        BY <3>1 DEF RequestRows, Same
      <4> HIDE DEF row
      <4>2. Known(row)
        BY <3>1, <3>3, <4>1, IdleTyped DEF Known, Same
      <4> QED
        BY <3>3, <4>1, <4>2 DEF row
    <3>4. CASE x # r /\ ~(request[x].name = q.old /\ request[x].stage \in {"remember", "take"})
      BY <3>1, <3>4 DEF Same
    <3> QED
      BY <3>2, <3>3, <3>4
  <2> HIDE DEF Goer
  <2> QED
    BY <1>3, <2>1 DEF Turns
<1> QED
  BY <1>1, <1>2, <1>3, DoneEnds DEF ChangeUsername

LEMMA ForgetRow ==
  ASSUME Sound, NEW r \in Requests, Forget(r)
  PROVE  At(r, "forget") /\ Ended(r)
BY DoneEnds DEF Forget

LEMMA CrashRow ==
  ASSUME Sound, NEW r \in Requests, Crash(r)
  PROVE  Ended(r)
BY DoneEnds DEF Crash

LEMMA SendRow ==
  ASSUME Sound, NEW r \in Requests, SendCode(r)
  PROVE  /\ At(r, "send") /\ Ended(r) /\ request[r].op = "code" /\ request[r].email \in Emails
         /\ request[r].purpose \in Purposes /\ request[r].code = NoCode /\ KeyOf(r) \in Keys
<1>1. request[r] \in RequestRows /\ Known(request[r]) /\ At(r, "send") /\ request[r].op = "code" /\ Ended(r)
  BY AtFacts, DoneEnds DEF SendCode
<1>2. request[r].email \in Emails /\ request[r].purpose \in Purposes /\ request[r].code = NoCode
  BY <1>1, IdleTyped DEF Known, RequestRows
<1> QED
  BY <1>1, <1>2 DEF KeyOf, Key, Keys

-----------------------------------------------------------------------------
(* Types hold. *)

LEMMA Starts == Init => Sound
<1> SUFFICES ASSUME Init PROVE Sound
  OBVIOUS
<1>1. request \in [Requests -> RequestRows] /\ \A r \in Requests : Known(request[r])
  BY IdleTyped DEF Init
<1>2. user \in [Users -> AccountRows] /\ Named
  BY DEF Init, AccountRows, Named
<1>3. history \in [Names -> [user : Users \cup {NoUser}, fresh : BOOLEAN]] /\ cache \in [Names -> Answers]
  BY DEF Init, Answers
<1>4. 0 \in 0 .. ResendMax + 1 /\ 0 \in Nat
  BY CodesTyped
<1>5. otp \in [Keys -> Codes \cup {NoCode}] /\ resend \in [Keys -> [count : 0 .. ResendMax + 1, timed : BOOLEAN]]
  BY <1>4 DEF Init
<1>6. mailed \in [Codes -> Keys \cup {<<>>}] /\ used \in [Codes -> [times : Nat, purposes : SUBSET Purposes]]
  BY <1>4 DEF Init
<1>7. raced \subseteq Codes /\ slipped \subseteq Names /\ torn \subseteq Keys
  BY DEF Init
<1> QED
  BY <1>1, <1>2, <1>3, <1>5, <1>6, <1>7 DEF Sound, TypeOK

LEMMA UseTyped ==
  ASSUME Sound, NEW c \in Codes, NEW p \in Purposes, Use(c, p)
  PROVE  /\ used' \in [Codes -> [times : Nat, purposes : SUBSET Purposes]]
         /\ \A b \in Codes : b # c => used'[b] = used[b]
         /\ used'[c].times = used[c].times + 1 /\ used'[c].purposes = used[c].purposes \cup {p}
<1> DEFINE row == [times |-> used[c].times + 1, purposes |-> used[c].purposes \cup {p}]
<1>1. used[c] \in [times : Nat, purposes : SUBSET Purposes]
  BY Typing DEF Sound
<1>2. row \in [times : Nat, purposes : SUBSET Purposes]
  BY <1>1
<1>3. row.times = used[c].times + 1 /\ row.purposes = used[c].purposes \cup {p}
  OBVIOUS
<1>4. used' = [used EXCEPT ![c] = row]
  BY DEF Use
<1> HIDE DEF row
<1> QED
  BY <1>2, <1>3, <1>4 DEF Sound, TypeOK

\* What hardly any request touches.
Tables == <<user, history, cache, otp, resend, mailed, used, raced, slipped, torn>>

LEMMA RequestSteps ==
  ASSUME Sound, NEW r \in Requests, Alone(r), UNCHANGED Tables
  PROVE  Sound'
BY AloneTyped DEF Sound, TypeOK, Named, Tables

LEMMA AskSound ==
  ASSUME Sound, NEW r \in Requests, NEW p \in Purposes, NEW e \in Emails, AskForCode(r, p, e)
  PROVE  Sound'
<1> DEFINE k == Key(p, e)
<1>1. Alone(r) /\ resend' = [resend EXCEPT ![k].count = request'[r].count]
  BY AskRow DEF Began
<1>2. request' \in [Requests -> RequestRows] /\ \A x \in Requests : Known(request'[x])
  BY <1>1, AloneTyped
<1>3. request'[r].count \in 0 .. ResendMax + 1
  BY <1>2 DEF RequestRows
<1>4. resend' \in [Keys -> [count : 0 .. ResendMax + 1, timed : BOOLEAN]]
  BY <1>1, <1>3 DEF Sound, TypeOK
<1> QED
  BY <1>2, <1>4 DEF AskForCode, Sound, TypeOK, Named

LEMMA SendSound ==
  ASSUME Sound, NEW r \in Requests, SendCode(r)
  PROVE  Sound'
<1> DEFINE k == Key(request[r].purpose, request[r].email)
<1>1. Alone(r) /\ k \in Keys /\ <<request[r].purpose, request[r].email>> \in Keys
  BY SendRow DEF Ended, KeyOf, Key
<1>2. request' \in [Requests -> RequestRows] /\ \A x \in Requests : Known(request'[x])
  BY <1>1, AloneTyped
<1>3. resend' \in [Keys -> [count : 0 .. ResendMax + 1, timed : BOOLEAN]]
  <2> DEFINE row == [resend[k] EXCEPT !.timed = TRUE]
  <2>1. resend \in [Keys -> [count : 0 .. ResendMax + 1, timed : BOOLEAN]]
    BY DEF Sound, TypeOK
  <2>2. row \in [count : 0 .. ResendMax + 1, timed : BOOLEAN]
    BY <1>1, <2>1
  <2>3. resend' = resend \/ resend' = [resend EXCEPT ![k] = row]
    BY DEF SendCode
  <2> HIDE DEF k, row
  <2> QED
    BY <1>1, <2>1, <2>2, <2>3
<1>4. otp' \in [Keys -> Codes \cup {NoCode}] /\ mailed' \in [Codes -> Keys \cup {<<>>}]
  <2>1. CASE UNCHANGED <<otp, mailed>>
    BY <2>1 DEF Sound, TypeOK
  <2>2. CASE \E c \in Codes : /\ otp' = [otp EXCEPT ![k] = c]
                              /\ mailed' = [mailed EXCEPT ![c] = <<request[r].purpose, request[r].email>>]
    BY <1>1, <2>2 DEF Sound, TypeOK
  <2> QED
    BY <2>1, <2>2 DEF SendCode
<1> QED
  BY <1>2, <1>3, <1>4 DEF SendCode, Sound, TypeOK, Named

LEMMA ReadSound ==
  ASSUME Sound, NEW r \in Requests, Reads(r)
  PROVE  Sound'
<1>1. request' \in [Requests -> RequestRows] /\ \A x \in Requests : Known(request'[x])
  BY AloneTyped DEF Reads, Began
<1>2. raced' \subseteq Codes
  BY DEF Reads, Sound, TypeOK
<1> QED
  BY <1>1, <1>2 DEF Reads, Sound, TypeOK, Named

LEMMA BurnSound ==
  ASSUME Sound, NEW r \in Requests, Burn(r)
  PROVE  Sound'
<1>1. Alone(r)
  BY BurnRow DEF Went
<1>2. request' \in [Requests -> RequestRows] /\ \A x \in Requests : Known(request'[x])
  BY <1>1, AloneTyped
<1>3. otp' \in [Keys -> Codes \cup {NoCode}]
  BY DEF Burn, Burnt, Sound, TypeOK
<1> QED
  BY <1>2, <1>3 DEF Burn, Sound, TypeOK, Named

LEMMA RememberSound ==
  ASSUME Sound, NEW r \in Requests, Remember(r)
  PROVE  Sound'
<1>1. Alone(r)
  BY RememberRow DEF Went, Ended
<1>2. request' \in [Requests -> RequestRows] /\ \A x \in Requests : Known(request'[x])
  BY <1>1, AloneTyped
<1>3. cache' \in [Names -> Answers]
  BY DEF Remember, Sound, TypeOK, Answers
<1> QED
  BY <1>2, <1>3 DEF Remember, Sound, TypeOK, Named

LEMMA CreateSound ==
  ASSUME Sound, NEW r \in Requests, CreateUser(r)
  PROVE  Sound'
<1>1. request[r].name \in Names /\ request[r].email \in Emails /\ request[r].code \in Codes /\ Alone(r)
  BY CreateRow DEF Went, Ended
<1>2. request' \in [Requests -> RequestRows] /\ \A x \in Requests : Known(request'[x])
  BY <1>1, AloneTyped
<1>3. CASE UNCHANGED <<user, used, slipped>>
  BY <1>2, <1>3 DEF CreateUser, Sound, TypeOK, Named
<1>4. CASE /\ \E u \in Users :
                user' = [user EXCEPT ![u] = [ state |-> "open", name |-> request[r].name,
                                              email |-> request[r].email, cooling |-> FALSE ]]
           /\ Use(request[r].code, "signup") /\ slipped' = Slips(request[r])
  <2> DEFINE row == [ state |-> "open", name |-> request[r].name, email |-> request[r].email, cooling |-> FALSE ]
  <2>1. row \in AccountRows /\ row.name \in Names
    BY <1>1 DEF AccountRows
  <2>2. PICK u \in Users : user' = [user EXCEPT ![u] = row]
    BY <1>4
  <2> HIDE DEF row
  <2>3. user' \in [Users -> AccountRows] /\ Named'
    BY <2>1, <2>2 DEF Sound, TypeOK, Named
  <2>4. used' \in [Codes -> [times : Nat, purposes : SUBSET Purposes]]
    BY <1>1, <1>4, UseTyped DEF Purposes
  <2>5. slipped' \subseteq Names
    BY <1>1, <1>4 DEF Slips, Sound, TypeOK
  <2> QED
    BY <1>2, <2>3, <2>4, <2>5 DEF CreateUser, Sound, TypeOK
<1> QED
  BY <1>3, <1>4, CreateRow

\* A row of the table of accounts is written over.
LEMMA UserSet ==
  ASSUME Sound, NEW u \in Users, NEW row \in AccountRows, row.state = "open" => row.name \in Names,
         user' = [user EXCEPT ![u] = row]
  PROVE  /\ user' \in [Users -> AccountRows] /\ Named' /\ user'[u] = row
         /\ \A v \in Users : v # u => user'[v] = user[v]
BY DEF Sound, TypeOK, Named

LEMMA EmailSound ==
  ASSUME Sound, NEW r \in Requests, UpdateEmail(r)
  PROVE  Sound'
<1>1. /\ request[r].user \in Users /\ request[r].email \in Emails /\ request[r].code \in Codes /\ Ended(r)
      /\ \/ UNCHANGED <<user, used>>
         \/ user' = [user EXCEPT ![request[r].user].email = request[r].email] /\ Use(request[r].code, "change")
  BY EmailRow
<1>2. request' \in [Requests -> RequestRows] /\ \A x \in Requests : Known(request'[x])
  BY <1>1, AloneTyped DEF Ended
<1>3. user' \in [Users -> AccountRows] /\ Named'
  <2>1. CASE UNCHANGED user
    BY <2>1 DEF Sound, TypeOK, Named
  <2>2. CASE user' = [user EXCEPT ![request[r].user].email = request[r].email]
    <3> DEFINE old == user[request[r].user]
               row == [old EXCEPT !.email = request[r].email]
    <3>1. old \in AccountRows /\ (old.state = "open" => old.name \in Names)
      BY <1>1, Typing DEF Sound, Named
    <3>2. row \in AccountRows /\ row.state = old.state /\ row.name = old.name
      BY <1>1, <3>1 DEF AccountRows
    <3>3. user' = [user EXCEPT ![request[r].user] = row]
      BY <2>2 DEF Sound, TypeOK
    <3> HIDE DEF row
    <3> QED
      BY <1>1, <3>1, <3>2, <3>3, UserSet
  <2> QED
    BY <1>1, <2>1, <2>2
<1>4. used' \in [Codes -> [times : Nat, purposes : SUBSET Purposes]]
  BY <1>1, UseTyped DEF Purposes, Sound, TypeOK
<1> QED
  BY <1>2, <1>3, <1>4 DEF UpdateEmail, Sound, TypeOK

LEMMA ChangeSound ==
  ASSUME Sound, NEW r \in Requests, ChangeUsername(r)
  PROVE  Sound'
<1>1. request[r].user \in Users /\ request[r].name \in Names /\ request[r].old \in Names
  BY ChangeRow
<1>2. CASE Ended(r) /\ UNCHANGED <<user, history, slipped>>
  <2>1. request' \in [Requests -> RequestRows] /\ \A x \in Requests : Known(request'[x])
    BY <1>2, AloneTyped DEF Ended
  <2> QED
    BY <1>2, <2>1 DEF ChangeUsername, Sound, TypeOK, Named
<1>3. CASE /\ Turns(r)
           /\ user' = [user EXCEPT ![request[r].user].name = request[r].name, ![request[r].user].cooling = TRUE]
           /\ history' = [history EXCEPT ![request[r].old] = [user |-> request[r].user, fresh |-> TRUE]]
           /\ slipped' = Slips(request[r])
  <2>1. user' \in [Users -> AccountRows] /\ Named'
    <3> DEFINE old == user[request[r].user]
               row == [old EXCEPT !.name = request[r].name, !.cooling = TRUE]
    <3>1. old \in AccountRows
      BY <1>1, Typing DEF Sound
    <3>2. row \in AccountRows /\ row.name = request[r].name
      BY <1>1, <3>1 DEF AccountRows
    <3>3. user' = [user EXCEPT ![request[r].user] = row]
      BY <1>3 DEF Sound, TypeOK
    <3> HIDE DEF row
    <3> QED
      BY <1>1, <3>1, <3>2, <3>3, UserSet
  <2>2. history' \in [Names -> [user : Users \cup {NoUser}, fresh : BOOLEAN]]
    BY <1>1, <1>3 DEF Sound, TypeOK
  <2>3. slipped' \subseteq Names
    BY <1>1, <1>3 DEF Slips, Sound, TypeOK
  <2>4. request' \in [Requests -> RequestRows] /\ \A x \in Requests : Known(request'[x])
    BY <1>3 DEF Turns
  <2> QED
    BY <2>1, <2>2, <2>3, <2>4 DEF ChangeUsername, Sound, TypeOK
<1> QED
  BY <1>2, <1>3, ChangeRow

LEMMA EndSound ==
  ASSUME Sound, NEW r \in Requests, Forget(r) \/ Crash(r)
  PROVE  Sound'
<1>1. Alone(r)
  BY ForgetRow, CrashRow DEF Ended
<1>2. request' \in [Requests -> RequestRows] /\ \A x \in Requests : Known(request'[x])
  BY <1>1, AloneTyped
<1>3. cache' \in [Names -> Answers]
  BY DEF Forget, Crash, Sound, TypeOK, Answers
<1>4. torn' \subseteq Keys
  <2>1. At(r, "send") => KeyOf(r) \in Keys
    BY AtFacts, IdleTyped DEF Known, At, RequestRows, KeyOf, Key, Keys
  <2> QED
    BY <2>1 DEF Forget, Crash, Sound, TypeOK, KeyOf
<1> QED
  BY <1>2, <1>3, <1>4 DEF Forget, Crash, Sound, TypeOK, Named

LEMMA OthersSound ==
  ASSUME Sound,
         \/ \E k \in Keys : CodeExpires(k) \/ WindowEnds(k)
         \/ \E n \in Names : AnswerExpires(n)
         \/ \E u \in Users : MonthPasses(u) \/ DeleteAccount(u)
  PROVE  Sound'
<1>1. 0 \in 0 .. ResendMax + 1
  BY CodesTyped
<1>2. ASSUME NEW k \in Keys, CodeExpires(k) PROVE Sound'
  BY <1>2 DEF CodeExpires, Sound, TypeOK, Named
<1>3. ASSUME NEW k \in Keys, WindowEnds(k) PROVE Sound'
  <2>1. resend' \in [Keys -> [count : 0 .. ResendMax + 1, timed : BOOLEAN]]
    BY <1>1, <1>3 DEF WindowEnds, Sound, TypeOK
  <2> QED
    BY <1>3, <2>1 DEF WindowEnds, Sound, TypeOK, Named
<1>4. ASSUME NEW n \in Names, AnswerExpires(n) PROVE Sound'
  BY <1>4 DEF AnswerExpires, Sound, TypeOK, Named, Answers
<1>5. ASSUME NEW u \in Users, MonthPasses(u) PROVE Sound'
  <2>1. user' \in [Users -> AccountRows] /\ Named'
    <3> DEFINE row == [user[u] EXCEPT !.cooling = FALSE]
    <3>1. user[u] \in AccountRows /\ (user[u].state = "open" => user[u].name \in Names)
      BY Typing DEF Sound, Named
    <3>2. row \in AccountRows /\ row.state = user[u].state /\ row.name = user[u].name
      BY <3>1 DEF AccountRows
    <3>3. user' = [user EXCEPT ![u] = row]
      BY <1>5 DEF MonthPasses, Sound, TypeOK
    <3> HIDE DEF row
    <3> QED
      BY <3>1, <3>2, <3>3, UserSet
  <2>2. history' \in [Names -> [user : Users \cup {NoUser}, fresh : BOOLEAN]]
    BY <1>5 DEF MonthPasses, Sound, TypeOK
  <2> QED
    BY <1>5, <2>1, <2>2 DEF MonthPasses, Sound, TypeOK
<1>6. ASSUME NEW u \in Users, DeleteAccount(u) PROVE Sound'
  <2>1. user' \in [Users -> AccountRows] /\ Named'
    <3> DEFINE row == [user[u] EXCEPT !.state = "deleted", !.name = NoName, !.email = NoEmail]
    <3>1. user[u] \in AccountRows
      BY Typing DEF Sound
    <3>2. row \in AccountRows /\ row.state = "deleted"
      BY <3>1 DEF AccountRows
    <3>3. user' = [user EXCEPT ![u] = row]
      BY <1>6 DEF DeleteAccount, Sound, TypeOK
    <3> HIDE DEF row
    <3> QED
      BY <3>1, <3>2, <3>3, UserSet
  <2> QED
    BY <1>6, <2>1 DEF DeleteAccount, Sound, TypeOK
<1> QED
  BY <1>2, <1>3, <1>4, <1>5, <1>6

LEMMA StepSound == Sound /\ [Next]_vars => Sound'
<1> SUFFICES ASSUME Sound, [Next]_vars PROVE Sound'
  OBVIOUS
<1>1. ASSUME NEW r \in Requests, NEW p \in Purposes, NEW e \in Emails, AskForCode(r, p, e) PROVE Sound'
  BY <1>1, AskSound
<1>2. ASSUME NEW r \in Requests, NEW n \in Names, NEW e \in Emails, NEW c \in Codes, Register(r, n, e, c)
      PROVE  Sound'
  BY <1>2, RegisterReads, ReadSound
<1>3. ASSUME NEW r \in Requests, NEW u \in Users, NEW e \in Emails, NEW c \in Codes, ConfirmEmail(r, u, e, c)
      PROVE  Sound'
  BY <1>3, ConfirmReads, ReadSound
<1>4. ASSUME NEW r \in Requests, NEW u \in Users, NEW n \in Names, Rename(r, u, n) PROVE Sound'
  BY <1>4, RenameRow, RequestSteps DEF Began, Rename, Tables
<1>5. ASSUME NEW r \in Requests, NEW u \in Users \cup {NoUser}, NEW n \in Names, UsernameCheck(r, u, n) PROVE Sound'
  BY <1>5, CheckRow, RequestSteps DEF Began, UsernameCheck, Tables
<1>6. ASSUME NEW r \in Requests, Look(r) PROVE Sound'
  BY <1>6, LookRow, RequestSteps DEF Went, Ended, Look, Tables
<1>7. ASSUME NEW r \in Requests,
             \/ SendCode(r) \/ Burn(r) \/ Remember(r) \/ Forget(r)
             \/ CreateUser(r) \/ ChangeUsername(r) \/ UpdateEmail(r) \/ Crash(r)
      PROVE  Sound'
  BY <1>7, SendSound, BurnSound, RememberSound, CreateSound, ChangeSound, EmailSound, EndSound
<1>8. CASE UNCHANGED vars
  BY <1>8 DEF vars, Sound, TypeOK, Named
<1> QED
  BY <1>1, <1>2, <1>3, <1>4, <1>5, <1>6, <1>7, <1>8, OthersSound DEF Next

\* Every row is of its type, a request carries what its stage needs, and an account that
\* is open has a name.
THEOREM Typed == Spec => []TypeOK
<1>1. Sound => TypeOK
  BY DEF Sound
<1> QED
  BY <1>1, Starts, StepSound, PTL DEF Spec

-----------------------------------------------------------------------------
(* A code. *)

\* A request that has read the code and not used it yet; it burns it first.
Burns(r, c) == At(r, "burn") /\ request[r].code = c
Burned(r, c) ==
  request[r].op \in {"register", "email"} /\ request[r].stage \in {"look", "remember", "take"} /\ request[r].code = c

\* Where a code is, it was mailed to; what it was good for, it was mailed for.
Mailed ==
  /\ \A c \in Codes, k \in Keys : otp[k] = c => mailed[c] = k
  /\ \A c \in Codes, r \in Requests : Burns(r, c) \/ Burned(r, c) => mailed[c] = KeyOf(r)
  /\ \A c \in Codes : mailed[c] = <<>> => used[c].times = 0
  /\ \A c \in Codes, p \in Purposes : p \in used[c].purposes => \E e \in Emails : mailed[c] = <<p, e>>

\* A code nobody raced for is at one place: in Redis, with the one request that read it,
\* or used.
OnePlace(c) ==
  /\ used[c].times <= 1
  /\ \A r \in Requests : Burns(r, c) \/ Burned(r, c) => used[c].times = 0
  /\ \A r, x \in Requests : (Burns(r, c) \/ Burned(r, c)) /\ (Burns(x, c) \/ Burned(x, c)) => r = x
  /\ \A k \in Keys : otp[k] = c => used[c].times = 0 /\ \A r \in Requests : ~Burned(r, c)

Once == Mailed /\ \A c \in Codes : c \notin raced => OnePlace(c)

LEMMA KeysAreNotEmpty == \A k \in Keys : k # <<>>
BY DEF Keys

\* Who has read a code, and who has burnt it.
LEMMA HolderFacts ==
  ASSUME Sound, NEW r \in Requests, NEW c \in Codes, Burns(r, c) \/ Burned(r, c)
  PROVE  KeyOf(r) \in Keys /\ request[r] # Idle /\ request[r].code = c
<1>1. request[r] \in RequestRows /\ Known(request[r]) /\ request[r].op \in {"register", "email"} /\ request[r].code = c
  BY AtFacts DEF Burns, Burned
<1>2. request[r].email \in Emails /\ request[r].purpose \in Purposes /\ request[r] # Idle
  BY <1>1, IdleTyped DEF Known, Purposes
<1> QED
  BY <1>1, <1>2 DEF KeyOf, Key, Keys

\* Nobody reads, burns or uses a code.
LEMMA NothingRead ==
  ASSUME Sound, Once, UNCHANGED <<mailed, used, raced>>,
         \A k \in Keys : otp'[k] \in {otp[k], NoCode},
         \A r \in Requests, c \in Codes :
           /\ Burns(r, c)' => Burns(r, c) /\ KeyOf(r)' = KeyOf(r)
           /\ Burned(r, c)' => Burned(r, c) /\ KeyOf(r)' = KeyOf(r)
  PROVE  Once'
<1>1. \A k \in Keys, c \in Codes : otp'[k] = c => otp[k] = c
  BY CodesTyped
<1>2. Mailed'
  BY <1>1 DEF Once, Mailed
<1>3. ASSUME NEW c \in Codes, OnePlace(c) PROVE OnePlace(c)'
  BY <1>1, <1>3 DEF OnePlace
<1> QED
  BY <1>2, <1>3 DEF Once

\* A request that has no code, is over, or has burnt its code already.
LEMMA AloneReadsNothing ==
  ASSUME Sound, Once, UNCHANGED <<mailed, used, raced>>,
         \A k \in Keys : otp'[k] \in {otp[k], NoCode},
         NEW r \in Requests, Alone(r),
         \/ request'[r].code = NoCode
         \/ /\ Same(request[r], request'[r]) /\ request[r].stage \in {"look", "remember", "take"}
            /\ request'[r].stage \in {"look", "remember", "take", "forget"}
  PROVE  Once'
<1>1. ASSUME NEW x \in Requests, NEW c \in Codes
      PROVE  /\ Burns(x, c)' => Burns(x, c) /\ KeyOf(x)' = KeyOf(x)
             /\ Burned(x, c)' => Burned(x, c) /\ KeyOf(x)' = KeyOf(x)
  <2>1. CASE x # r
    BY <2>1 DEF Alone, Burns, Burned, KeyOf, Key, At
  <2>2. CASE x = r
    BY <2>2, CodesTyped DEF Same, Burns, Burned, KeyOf, Key, At
  <2> QED
    BY <2>1, <2>2
<1> QED
  BY <1>1, NothingRead

LEMMA ReadOnce ==
  ASSUME Sound, Once, NEW r \in Requests, Reads(r)
  PROVE  Once'
<1>1. PICK c \in Codes : request'[r].code = c
  BY DEF Reads
<1>2. /\ Alone(r) /\ request[r] = Idle /\ request'[r].stage = "burn" /\ UNCHANGED <<otp, mailed, used>>
      /\ otp[KeyOf(r)'] = c /\ raced \subseteq raced'
      /\ c \notin raced' => c \notin raced /\ \A x \in Requests : ~Burns(x, c)
  BY <1>1 DEF Reads, Began, KeyOf, Burns
<1>3. KeyOf(r)' \in Keys
  <2>1. request'[r] \in RequestRows /\ request'[r].email \in Emails
    BY <1>2 DEF Reads, Alone
  <2> QED
    BY <2>1 DEF RequestRows, KeyOf, Key, Keys
<1>4. ASSUME NEW x \in Requests, NEW b \in Codes
      PROVE  /\ Burns(x, b)' => (Burns(x, b) /\ KeyOf(x)' = KeyOf(x)) \/ (x = r /\ b = c)
             /\ Burned(x, b)' => Burned(x, b) /\ KeyOf(x)' = KeyOf(x)
  BY <1>1, <1>2 DEF Alone, Burns, Burned, KeyOf, Key, At
<1>5. Mailed'
  BY <1>2, <1>3, <1>4 DEF Once, Mailed
<1>6. ASSUME NEW b \in Codes, b \notin raced' PROVE OnePlace(b)'
  <2>1. OnePlace(b)
    BY <1>2, <1>6 DEF Once
  <2>2. CASE b # c
    BY <1>2, <1>4, <2>1, <2>2 DEF OnePlace
  <2>3. CASE b = c
    <3>1. used[c].times = 0 /\ \A x \in Requests : ~Burned(x, c) /\ ~Burns(x, c)
      BY <1>2, <1>3, <1>6, <2>1, <2>3 DEF OnePlace
    <3> QED
      BY <1>2, <1>4, <2>1, <2>3, <3>1 DEF OnePlace
  <2> QED
    BY <2>2, <2>3
<1> QED
  BY <1>5, <1>6 DEF Once

LEMMA BurnOnce ==
  ASSUME Sound, Once, NEW r \in Requests, Burn(r)
  PROVE  Once'
<1>1. PICK c \in Codes : request[r].code = c
  BY BurnRow
<1>2. /\ Alone(r) /\ Same(request[r], request'[r]) /\ request'[r].stage \in {"look", "take"}
      /\ Burns(r, c) /\ UNCHANGED <<mailed, used, raced>>
  BY <1>1, BurnRow DEF Burn, Went, Burns
<1>3. KeyOf(r) \in Keys /\ mailed[c] = KeyOf(r)
  BY <1>2, HolderFacts DEF Once, Mailed
<1>4. \A k \in Keys : otp'[k] = IF k = KeyOf(r) THEN NoCode ELSE otp[k]
  BY DEF Burn, Burnt, KeyOf, Sound, TypeOK
<1>5. \A k \in Keys, b \in Codes : otp'[k] = b => otp[k] = b /\ b # c
  BY <1>3, <1>4, CodesTyped DEF Once, Mailed
<1>6. ASSUME NEW x \in Requests, NEW b \in Codes
      PROVE  /\ Burns(x, b)' => Burns(x, b) /\ KeyOf(x)' = KeyOf(x)
             /\ Burned(x, b)' => KeyOf(x)' = KeyOf(x) /\ (Burned(x, b) \/ (x = r /\ b = c /\ Burns(x, b)))
  <2>1. CASE x # r
    BY <1>2, <2>1 DEF Alone, Burns, Burned, KeyOf, Key, At
  <2>2. CASE x = r
    BY <1>1, <1>2, <2>2 DEF Same, Burns, Burned, KeyOf, Key, At
  <2> QED
    BY <2>1, <2>2
<1>7. Mailed'
  BY <1>2, <1>5, <1>6 DEF Once, Mailed
<1>8. ASSUME NEW b \in Codes, OnePlace(b) PROVE OnePlace(b)'
  BY <1>2, <1>5, <1>6, <1>8 DEF OnePlace
<1> QED
  BY <1>2, <1>7, <1>8 DEF Once

LEMMA SendOnce ==
  ASSUME Sound, Once, NEW r \in Requests, SendCode(r)
  PROVE  Once'
<1>1. /\ Alone(r) /\ request'[r].code = NoCode /\ UNCHANGED <<used, raced>> /\ KeyOf(r) \in Keys
  BY SendRow, IdleTyped DEF SendCode, Ended
<1>2. CASE UNCHANGED <<otp, mailed>>
  BY <1>1, <1>2, AloneReadsNothing
<1>3. CASE \E c \in Codes : /\ mailed[c] = <<>>
                            /\ otp' = [otp EXCEPT ![KeyOf(r)] = c]
                            /\ mailed' = [mailed EXCEPT ![c] = KeyOf(r)]
  <2>1. PICK c \in Codes : /\ mailed[c] = <<>>
                           /\ otp' = [otp EXCEPT ![KeyOf(r)] = c]
                           /\ mailed' = [mailed EXCEPT ![c] = KeyOf(r)]
    BY <1>3
  <2>2. /\ mailed'[c] = KeyOf(r) /\ \A b \in Codes : b # c => mailed'[b] = mailed[b]
        /\ \A k \in Keys : otp'[k] = IF k = KeyOf(r) THEN c ELSE otp[k]
    BY <1>1, <2>1 DEF Sound, TypeOK
  <2>3. used[c].times = 0 /\ \A p \in Purposes : p \notin used[c].purposes
    BY <2>1 DEF Once, Mailed
  <2>4. \A x \in Requests : ~Burns(x, c) /\ ~Burned(x, c)
    BY <2>1, HolderFacts, KeysAreNotEmpty DEF Once, Mailed
  <2>5. \A k \in Keys : otp[k] # c
    BY <2>1, KeysAreNotEmpty DEF Once, Mailed
  <2>6. ASSUME NEW x \in Requests, NEW b \in Codes
        PROVE  /\ Burns(x, b)' => Burns(x, b) /\ KeyOf(x)' = KeyOf(x)
               /\ Burned(x, b)' => Burned(x, b) /\ KeyOf(x)' = KeyOf(x)
    BY <1>1, CodesTyped DEF Alone, Burns, Burned, KeyOf, Key, At
  <2>7. \A k \in Keys, b \in Codes : otp'[k] = b => (b = c /\ k = KeyOf(r)) \/ (b # c /\ otp[k] = b)
    BY <2>2, <2>5
  <2>8. Mailed'
    <3>1. \A b \in Codes, k \in Keys : otp'[k] = b => mailed'[b] = k
      BY <2>2, <2>7 DEF Once, Mailed
    <3>2. \A b \in Codes, x \in Requests : Burns(x, b)' \/ Burned(x, b)' => mailed'[b] = KeyOf(x)'
      BY <2>2, <2>4, <2>6 DEF Once, Mailed
    <3>3. \A b \in Codes : mailed'[b] = <<>> => used[b].times = 0
      BY <2>2, <2>3 DEF Once, Mailed
    <3>4. \A b \in Codes, p \in Purposes : p \in used[b].purposes => \E e \in Emails : mailed'[b] = <<p, e>>
      BY <2>2, <2>3 DEF Once, Mailed
    <3> QED
      BY <1>1, <3>1, <3>2, <3>3, <3>4 DEF Mailed
  <2>9. ASSUME NEW b \in Codes, OnePlace(b) PROVE OnePlace(b)'
    <3>1. CASE b = c
      BY <1>1, <2>3, <2>4, <2>6, <3>1 DEF OnePlace
    <3>2. CASE b # c
      BY <1>1, <2>6, <2>7, <2>9, <3>2 DEF OnePlace
    <3> QED
      BY <3>1, <3>2
  <2> QED
    BY <1>1, <2>8, <2>9 DEF Once
<1> QED
  BY <1>2, <1>3 DEF SendCode, KeyOf, Key

\* The one step that uses a code: its request has burnt it, and holds it no longer.
LEMMA UseOnce ==
  ASSUME Sound, Once, NEW r \in Requests, NEW c \in Codes, NEW p \in Purposes,
         request[r].purpose = p, request[r].email \in Emails, Burned(r, c), Use(c, p),
         Alone(r), request'[r].stage \notin {"burn", "look", "remember", "take"},
         UNCHANGED <<otp, mailed, raced>>
  PROVE  Once'
<1>1. /\ \A b \in Codes : b # c => used'[b] = used[b]
      /\ used'[c].times = used[c].times + 1 /\ used'[c].purposes = used[c].purposes \cup {p}
  BY UseTyped
<1>2. ASSUME NEW x \in Requests, NEW b \in Codes
      PROVE  /\ Burns(x, b)' => x # r /\ Burns(x, b) /\ KeyOf(x)' = KeyOf(x)
             /\ Burned(x, b)' => x # r /\ Burned(x, b) /\ KeyOf(x)' = KeyOf(x)
  BY DEF Alone, Burns, Burned, KeyOf, Key, At
<1>3. mailed[c] = <<p, request[r].email>> /\ mailed[c] # <<>>
  BY KeysAreNotEmpty, HolderFacts DEF Once, Mailed, KeyOf, Key
<1>4. Mailed'
  <2>1. \A b \in Codes, k \in Keys : otp'[k] = b => mailed'[b] = k
    BY DEF Once, Mailed
  <2>2. \A b \in Codes, x \in Requests : Burns(x, b)' \/ Burned(x, b)' => mailed'[b] = KeyOf(x)'
    BY <1>2 DEF Once, Mailed
  <2>3. \A b \in Codes : mailed'[b] = <<>> => used'[b].times = 0
    BY <1>1, <1>3 DEF Once, Mailed
  <2>4. \A b \in Codes, o \in Purposes : o \in used'[b].purposes => \E e \in Emails : mailed'[b] = <<o, e>>
    BY <1>1, <1>3 DEF Once, Mailed
  <2> QED
    BY <2>1, <2>2, <2>3, <2>4 DEF Mailed
<1>5. ASSUME NEW b \in Codes, OnePlace(b) PROVE OnePlace(b)'
  <2>1. CASE b # c
    BY <1>1, <1>2, <1>5, <2>1 DEF OnePlace
  <2>2. CASE b = c
    <3>1. used[c].times = 0 /\ \A k \in Keys : otp[k] # c
      BY <1>5, <2>2 DEF OnePlace
    <3>2. \A x \in Requests : x # r => ~Burns(x, c) /\ ~Burned(x, c)
      BY <1>5, <2>2 DEF OnePlace
    <3>3. used'[c].times <= 1
      BY <1>1, <3>1
    <3> QED
      BY <1>2, <2>2, <3>1, <3>2, <3>3 DEF OnePlace
  <2> QED
    BY <2>1, <2>2
<1> QED
  BY <1>4, <1>5 DEF Once

LEMMA CreateOnce ==
  ASSUME Sound, Once, NEW r \in Requests, CreateUser(r)
  PROVE  Once'
<1>1. UNCHANGED <<otp, mailed, raced>>
  BY DEF CreateUser
<1>2. CASE Ended(r) /\ UNCHANGED used
  BY <1>1, <1>2, IdleTyped, AloneReadsNothing DEF Ended
<1>3. CASE Went(r, "forget") /\ Use(request[r].code, "signup")
  <2>1. PICK c \in Codes : request[r].code = c
    BY CreateRow
  <2>2. Burned(r, c) /\ request[r].purpose = "signup" /\ request[r].email \in Emails /\ Use(c, "signup")
    BY <1>3, <2>1, CreateRow DEF Burned, At
  <2>3. Alone(r) /\ request'[r].stage \notin {"burn", "look", "remember", "take"}
    BY <1>3 DEF Went
  <2> QED
    BY <1>1, <2>2, <2>3, UseOnce DEF Purposes
<1> QED
  BY <1>2, <1>3, CreateRow

LEMMA EmailOnce ==
  ASSUME Sound, Once, NEW r \in Requests, UpdateEmail(r)
  PROVE  Once'
<1>1. UNCHANGED <<otp, mailed, raced>> /\ Ended(r)
  BY EmailRow DEF UpdateEmail
<1>2. CASE UNCHANGED used
  BY <1>1, <1>2, IdleTyped, AloneReadsNothing DEF Ended
<1>3. CASE Use(request[r].code, "change")
  <2>1. PICK c \in Codes : request[r].code = c
    BY EmailRow
  <2>2. Burned(r, c) /\ request[r].purpose = "change" /\ request[r].email \in Emails /\ Use(c, "change")
    BY <1>3, <2>1, EmailRow DEF Burned, At
  <2>3. Alone(r) /\ request'[r].stage \notin {"burn", "look", "remember", "take"}
    BY <1>1, IdleTyped DEF Ended
  <2> QED
    BY <1>1, <2>2, <2>3, UseOnce DEF Purposes
<1> QED
  BY <1>2, <1>3, EmailRow

LEMMA ChangeOnce ==
  ASSUME Sound, Once, NEW r \in Requests, ChangeUsername(r)
  PROVE  Once'
<1>1. UNCHANGED <<otp, mailed, used, raced>> /\ request[r].op = "rename"
  BY DEF ChangeUsername
<1>2. CASE Ended(r)
  BY <1>1, <1>2, IdleTyped, AloneReadsNothing DEF Ended
<1>3. CASE Turns(r)
  <2>1. ASSUME NEW x \in Requests, NEW c \in Codes
        PROVE  /\ Burns(x, c)' => Burns(x, c) /\ KeyOf(x)' = KeyOf(x)
               /\ Burned(x, c)' => Burned(x, c) /\ KeyOf(x)' = KeyOf(x)
    <3>1. Same(request[x], request'[x]) /\ KeyOf(x)' = KeyOf(x)
      BY <1>3 DEF Turns, Same, KeyOf, Key
    <3>2. CASE x = r
      BY <1>1, <1>3, <3>1, <3>2 DEF Turns, Same, Burns, Burned, At
    <3>3. CASE x # r
      BY <1>3, <3>1, <3>3 DEF Turns, Same, Burns, Burned, At
    <3> QED
      BY <3>2, <3>3
  <2> QED
    BY <1>1, <2>1, NothingRead
<1> QED
  BY <1>2, <1>3, ChangeRow

LEMMA OnceKept == Sound /\ Once /\ [Next]_vars => Once'
<1> SUFFICES ASSUME Sound, Once, [Next]_vars PROVE Once'
  OBVIOUS
<1>1. ASSUME NEW r \in Requests, NEW p \in Purposes, NEW e \in Emails, AskForCode(r, p, e) PROVE Once'
  <2>1. Alone(r) /\ request'[r].code = NoCode
    BY <1>1, AskRow DEF Began
  <2>2. UNCHANGED <<otp, mailed, used, raced>>
    BY <1>1 DEF AskForCode
  <2> QED
    BY <2>1, <2>2, AloneReadsNothing
<1>2. ASSUME NEW r \in Requests, NEW u \in Users, NEW n \in Names, Rename(r, u, n) PROVE Once'
  <2>1. Alone(r) /\ request'[r].code = NoCode /\ UNCHANGED <<otp, mailed, used, raced>>
    BY <1>2, RenameRow DEF Rename, Began
  <2> QED
    BY <2>1, AloneReadsNothing
<1>3. ASSUME NEW r \in Requests, NEW u \in Users \cup {NoUser}, NEW n \in Names, UsernameCheck(r, u, n) PROVE Once'
  <2>1. Alone(r) /\ request'[r].code = NoCode /\ UNCHANGED <<otp, mailed, used, raced>>
    BY <1>3, CheckRow DEF UsernameCheck, Began
  <2> QED
    BY <2>1, AloneReadsNothing
<1>4. ASSUME NEW r \in Requests, Look(r) PROVE Once'
  <2>1. UNCHANGED <<otp, mailed, used, raced>>
    BY <1>4 DEF Look
  <2> QED
    BY <1>4, <2>1, LookRow, IdleTyped, AloneReadsNothing DEF Ended, Went, At
<1>5. ASSUME NEW r \in Requests, Remember(r) PROVE Once'
  <2>1. UNCHANGED <<otp, mailed, used, raced>>
    BY <1>5 DEF Remember
  <2> QED
    BY <1>5, <2>1, RememberRow, IdleTyped, AloneReadsNothing DEF Ended, Went, At
<1>6. ASSUME NEW r \in Requests, Forget(r) \/ Crash(r) PROVE Once'
  <2>1. UNCHANGED <<otp, mailed, used, raced>> /\ Ended(r)
    BY <1>6, ForgetRow, CrashRow DEF Forget, Crash
  <2> QED
    BY <2>1, IdleTyped, AloneReadsNothing DEF Ended
<1>7. ASSUME UNCHANGED <<request, mailed, used, raced>>, \A k \in Keys : otp'[k] \in {otp[k], NoCode} PROVE Once'
  BY <1>7, NothingRead DEF Burns, Burned, KeyOf, Key, At
<1>8. ASSUME NEW j \in Keys, CodeExpires(j) PROVE Once'
  BY <1>7, <1>8 DEF CodeExpires, Sound, TypeOK
<1>9. ASSUME NEW j \in Keys, WindowEnds(j) PROVE Once'
  BY <1>7, <1>9 DEF WindowEnds
<1>10. ASSUME NEW n \in Names, AnswerExpires(n) PROVE Once'
  BY <1>7, <1>10 DEF AnswerExpires
<1>11. ASSUME NEW u \in Users, MonthPasses(u) \/ DeleteAccount(u) PROVE Once'
  BY <1>7, <1>11 DEF MonthPasses, DeleteAccount
<1>12. CASE UNCHANGED vars
  BY <1>7, <1>12 DEF vars
<1> QED
  BY <1>1, <1>2, <1>3, <1>4, <1>5, <1>6, <1>8, <1>9, <1>10, <1>11, <1>12, RegisterReads, ConfirmReads, ReadOnce,
     BurnOnce, SendOnce, CreateOnce, EmailOnce, ChangeOnce
  DEF Next

\* A mailed code opens one account or moves one account to a new address, and only the one
\* it was mailed for, whatever dies, expires or is asked for twice (verify_otp, the prefix
\* of _email_change_otp_key); two requests that both read it before one burnt it excepted.
THEOREM CodesServeOnce == Spec => []CodeServesOnce
<1>1. Init => Once
  <2> SUFFICES ASSUME Init PROVE Once
    OBVIOUS
  <2>1. \A r \in Requests, c \in Codes : ~Burns(r, c) /\ ~Burned(r, c)
    BY IdleTyped DEF Init, Burns, Burned, At
  <2>2. \A c \in Codes : used[c].times = 0 /\ used[c].purposes = {} /\ \A k \in Keys : otp[k] # c
    BY CodesTyped DEF Init
  <2> QED
    BY <2>1, <2>2 DEF Once, Mailed, OnePlace
<1>2. Sound /\ Once => CodeServesOnce
  <2> SUFFICES ASSUME Sound, Once, NEW c \in Codes
               PROVE  /\ used[c].times > 1 => c \in raced
                      /\ \A p \in used[c].purposes : p = mailed[c][1]
    BY DEF CodeServesOnce
  <2>1. used[c] \in [times : Nat, purposes : SUBSET Purposes]
    BY Typing DEF Sound
  <2>2. used[c].times > 1 => c \in raced
    BY <2>1 DEF Once, OnePlace
  <2>3. \A p \in used[c].purposes : \E e \in Emails : mailed[c] = <<p, e>>
    BY <2>1 DEF Once, Mailed
  <2> QED
    BY <2>2, <2>3
<1> QED
  BY <1>1, <1>2, Starts, StepSound, OnceKept, PTL DEF Spec

-----------------------------------------------------------------------------
(* A limit. *)

\* Who asked first starts the minute.
Timing ==
  \A k \in Keys : resend[k].count > 0 =>
    \/ resend[k].timed \/ k \in torn
    \/ \E r \in Requests : At(r, "send") /\ request[r].count = 1 /\ KeyOf(r) = k

\* A request that is not sending a code moves; those that are stay.
LEMMA SendersStay ==
  ASSUME Sound, Timing, UNCHANGED <<resend, torn>>,
         \A x \in Requests : At(x, "send") =>
           Same(request[x], request'[x]) /\ request'[x].stage = "send"
  PROVE  Timing'
<1> SUFFICES ASSUME NEW k \in Keys, resend[k].count > 0
             PROVE  \/ resend[k].timed \/ k \in torn
                    \/ \E x \in Requests : request'[x].stage = "send" /\ request'[x].count = 1 /\ KeyOf(x)' = k
  BY DEF Timing, At
<1>1. ASSUME NEW x \in Requests, At(x, "send"), request[x].count = 1, KeyOf(x) = k
      PROVE  request'[x].stage = "send" /\ request'[x].count = 1 /\ KeyOf(x)' = k
  BY <1>1 DEF Same, KeyOf, Key
<1> QED
  BY <1>1 DEF Timing

LEMMA AloneSenders ==
  ASSUME Sound, Timing, UNCHANGED <<resend, torn>>, NEW r \in Requests, Alone(r), ~At(r, "send")
  PROVE  Timing'
BY SendersStay DEF Alone, Same, At

LEMMA AskTiming ==
  ASSUME Sound, Timing, NEW r \in Requests, NEW p \in Purposes, NEW e \in Emails, AskForCode(r, p, e)
  PROVE  Timing'
<1> DEFINE j == Key(p, e)
<1>1. /\ Alone(r) /\ request[r] = Idle /\ request'[r].stage = "send" /\ KeyOf(r)' = j
      /\ resend' = [resend EXCEPT ![j].count = request'[r].count]
      /\ request'[r].count = IF resend[j].count > ResendMax THEN resend[j].count ELSE resend[j].count + 1
  BY AskRow DEF Began, KeyOf
<1>2. j \in Keys /\ resend[j] \in [count : 0 .. ResendMax + 1, timed : BOOLEAN]
  <2>1. j \in Keys
    BY DEF Key, Keys
  <2> QED
    BY <2>1, Typing DEF Sound
<1>3. resend[j].count = 0 => request'[r].count = 1
  BY <1>1, CodesTyped
<1>4. ~At(r, "send")
  BY <1>1, IdleTyped DEF At
<1>5. ASSUME NEW x \in Requests, At(x, "send") PROVE KeyOf(x) # j
  BY <1>5, AtFacts DEF AskForCode, KeyOf
<1>6. UNCHANGED torn
  BY DEF AskForCode
<1> SUFFICES ASSUME NEW k \in Keys, resend'[k].count > 0
             PROVE  \/ resend'[k].timed \/ k \in torn
                    \/ \E x \in Requests : request'[x].stage = "send" /\ request'[x].count = 1 /\ KeyOf(x)' = k
  BY <1>6 DEF Timing, At
<1>7. CASE k # j
  <2>1. resend'[k] = resend[k]
    BY <1>1, <1>7 DEF Sound, TypeOK
  <2>2. ASSUME NEW x \in Requests, At(x, "send"), request[x].count = 1, KeyOf(x) = k
        PROVE  request'[x].stage = "send" /\ request'[x].count = 1 /\ KeyOf(x)' = k
    <3>1. x # r /\ request'[x] = request[x]
      BY <1>1, <1>4, <2>2 DEF Alone
    <3> QED
      BY <2>2, <3>1 DEF KeyOf, Key, At
  <2> QED
    BY <2>1, <2>2 DEF Timing
<1>8. CASE k = j
  <2>1. resend'[j].timed = resend[j].timed
    BY <1>1, <1>2 DEF Sound, TypeOK
  <2>2. CASE resend[j].count = 0
    BY <1>1, <1>3, <1>8, <2>2
  <2>3. CASE resend[j].count > 0
    BY <1>2, <1>5, <1>8, <2>1, <2>3 DEF Timing
  <2> QED
    BY <1>2, <2>2, <2>3
<1> QED
  BY <1>7, <1>8

LEMMA SendTiming ==
  ASSUME Sound, Timing, NEW r \in Requests, SendCode(r)
  PROVE  Timing'
<1>1. /\ Alone(r) /\ UNCHANGED torn /\ KeyOf(r) \in Keys
      /\ resend' = IF request[r].count = 1 THEN [resend EXCEPT ![KeyOf(r)].timed = TRUE] ELSE resend
  BY SendRow DEF SendCode, StartsWindow, Ended, KeyOf
<1>2. \A k \in Keys : /\ resend'[k].count = resend[k].count
                      /\ resend[k].timed => resend'[k].timed
                      /\ request[r].count = 1 /\ k = KeyOf(r) => resend'[k].timed
  <2>1. \A k \in Keys : resend[k] \in [count : 0 .. ResendMax + 1, timed : BOOLEAN]
    BY Typing DEF Sound
  <2> QED
    BY <1>1, <2>1 DEF Sound, TypeOK
<1> SUFFICES ASSUME NEW k \in Keys, resend'[k].count > 0
             PROVE  \/ resend'[k].timed \/ k \in torn
                    \/ \E x \in Requests : request'[x].stage = "send" /\ request'[x].count = 1 /\ KeyOf(x)' = k
  BY <1>1 DEF Timing, At
<1>3. ASSUME NEW x \in Requests, At(x, "send"), request[x].count = 1, KeyOf(x) = k, x # r
      PROVE  request'[x].stage = "send" /\ request'[x].count = 1 /\ KeyOf(x)' = k
  BY <1>1, <1>3 DEF KeyOf, Key, At, Alone
<1> QED
  BY <1>2, <1>3 DEF Timing

LEMMA CrashTiming ==
  ASSUME Sound, Timing, NEW r \in Requests, Crash(r)
  PROVE  Timing'
<1>1. /\ Alone(r) /\ UNCHANGED resend
      /\ torn' = IF At(r, "send") /\ request[r].count = 1 THEN torn \cup {KeyOf(r)} ELSE torn
  BY CrashRow DEF Crash, Ended, KeyOf
<1> SUFFICES ASSUME NEW k \in Keys, resend[k].count > 0
             PROVE  \/ resend[k].timed \/ k \in torn'
                    \/ \E x \in Requests : request'[x].stage = "send" /\ request'[x].count = 1 /\ KeyOf(x)' = k
  BY <1>1 DEF Timing, At
<1>2. ASSUME NEW x \in Requests, At(x, "send"), request[x].count = 1, KeyOf(x) = k, x # r
      PROVE  request'[x].stage = "send" /\ request'[x].count = 1 /\ KeyOf(x)' = k
  BY <1>1, <1>2 DEF KeyOf, Key, At, Alone
<1> QED
  BY <1>1, <1>2 DEF Timing

LEMMA WindowTiming ==
  ASSUME Sound, Timing, NEW j \in Keys, WindowEnds(j)
  PROVE  Timing'
<1>1. resend'[j].count = 0 /\ \A k \in Keys : k # j => resend'[k] = resend[k]
  BY DEF WindowEnds, Sound, TypeOK
<1>2. UNCHANGED <<request, torn>>
  BY DEF WindowEnds
<1> QED
  BY <1>1, <1>2 DEF Timing, At, KeyOf, Key

LEMMA ChangeTiming ==
  ASSUME Sound, Timing, NEW r \in Requests, ChangeUsername(r)
  PROVE  Timing'
<1>1. At(r, "take") /\ UNCHANGED <<resend, torn>>
  BY DEF ChangeUsername
<1>2. CASE Ended(r)
  BY <1>1, <1>2, AloneSenders DEF Ended, At
<1>3. CASE Turns(r)
  BY <1>1, <1>3, SendersStay DEF Turns, At
<1> QED
  BY <1>2, <1>3, ChangeRow

LEMMA TimingKept == Sound /\ Timing /\ [Next]_vars => Timing'
<1> SUFFICES ASSUME Sound, Timing, [Next]_vars PROVE Timing'
  OBVIOUS
<1>1. ASSUME NEW r \in Requests, Reads(r) PROVE Timing'
  <2>1. Alone(r) /\ ~At(r, "send") /\ UNCHANGED <<resend, torn>>
    BY <1>1, IdleTyped DEF Reads, Began, At
  <2> QED
    BY <2>1, AloneSenders
<1>2. ASSUME NEW r \in Requests, NEW u \in Users, NEW n \in Names, Rename(r, u, n) PROVE Timing'
  <2>1. Alone(r) /\ ~At(r, "send") /\ UNCHANGED <<resend, torn>>
    BY <1>2, RenameRow, IdleTyped DEF Rename, Began, At
  <2> QED
    BY <2>1, AloneSenders
<1>3. ASSUME NEW r \in Requests, NEW u \in Users \cup {NoUser}, NEW n \in Names, UsernameCheck(r, u, n) PROVE Timing'
  <2>1. Alone(r) /\ ~At(r, "send") /\ UNCHANGED <<resend, torn>>
    BY <1>3, CheckRow, IdleTyped DEF UsernameCheck, Began, At
  <2> QED
    BY <2>1, AloneSenders
<1>4. ASSUME NEW r \in Requests, Burn(r) PROVE Timing'
  <2>1. Alone(r) /\ ~At(r, "send") /\ UNCHANGED <<resend, torn>>
    BY <1>4, BurnRow DEF Burn, Went, At
  <2> QED
    BY <2>1, AloneSenders
<1>5. ASSUME NEW r \in Requests, Look(r) PROVE Timing'
  <2>1. Alone(r) /\ ~At(r, "send") /\ UNCHANGED <<resend, torn>>
    BY <1>5, LookRow DEF Look, Went, Ended, At
  <2> QED
    BY <2>1, AloneSenders
<1>6. ASSUME NEW r \in Requests, Remember(r) PROVE Timing'
  <2>1. Alone(r) /\ ~At(r, "send") /\ UNCHANGED <<resend, torn>>
    BY <1>6, RememberRow DEF Remember, Went, Ended, At
  <2> QED
    BY <2>1, AloneSenders
<1>7. ASSUME NEW r \in Requests, Forget(r) PROVE Timing'
  <2>1. Alone(r) /\ ~At(r, "send") /\ UNCHANGED <<resend, torn>>
    BY <1>7, ForgetRow DEF Forget, Ended, At
  <2> QED
    BY <2>1, AloneSenders
<1>8. ASSUME NEW r \in Requests, CreateUser(r) PROVE Timing'
  <2>1. Alone(r) /\ ~At(r, "send") /\ UNCHANGED <<resend, torn>>
    BY <1>8, CreateRow DEF CreateUser, Went, Ended, At
  <2> QED
    BY <2>1, AloneSenders
<1>9. ASSUME NEW r \in Requests, UpdateEmail(r) PROVE Timing'
  <2>1. Alone(r) /\ ~At(r, "send") /\ UNCHANGED <<resend, torn>>
    BY <1>9, EmailRow DEF UpdateEmail, Ended, At
  <2> QED
    BY <2>1, AloneSenders
<1>10. ASSUME UNCHANGED <<request, resend, torn>> PROVE Timing'
  BY <1>10 DEF Timing, At, KeyOf, Key
<1>11. ASSUME NEW k \in Keys, CodeExpires(k) PROVE Timing'
  BY <1>10, <1>11 DEF CodeExpires
<1>12. ASSUME NEW n \in Names, AnswerExpires(n) PROVE Timing'
  BY <1>10, <1>12 DEF AnswerExpires
<1>13. ASSUME NEW u \in Users, MonthPasses(u) \/ DeleteAccount(u) PROVE Timing'
  BY <1>10, <1>13 DEF MonthPasses, DeleteAccount
<1>14. CASE UNCHANGED vars
  BY <1>10, <1>14 DEF vars
<1> QED
  BY <1>1, <1>2, <1>3, <1>4, <1>5, <1>6, <1>7, <1>8, <1>9, <1>11, <1>12, <1>13, <1>14, AskTiming, SendTiming,
     CrashTiming, WindowTiming, ChangeTiming, RegisterReads, ConfirmReads
  DEF Next

\* Whoever has asked for codes too often can ask again after a while, whatever dies and
\* whoever leaves: a count above zero has an expiry, is about to get one, or is torn
\* (check_resend_limit).
THEOREM NobodyStaysLockedOut == Spec => []NobodyLockedOut
<1>1. Init => Timing
  BY CodesTyped DEF Init, Timing
<1>2. Timing => NobodyLockedOut
  BY DEF Timing, NobodyLockedOut, KeyOf
<1> QED
  BY <1>1, <1>2, Starts, StepSound, TimingKept, PTL DEF Spec

-----------------------------------------------------------------------------
(* A name. *)

\* Nobody is called like somebody else.
Unique == \A u, v \in Users : user[u].name = user[v].name => u = v \/ user[u].name = NoName

\* An account that is being renamed is there, under its old name or renamed by another
\* request of the same account before.
Renaming ==
  \A r \in Requests :
    /\ request[r].op = "rename" => user[request[r].user].state = "open"
    /\ request[r].op = "rename" /\ request[r].stage # "forget" =>
         \/ user[request[r].user].name = request[r].old
         \/ history[request[r].old].user # NoUser

\* Answers about a reserved name that were given before it was, or for its owner, are
\* told apart: those on their way, and those in the cache.
Told ==
  /\ \A r \in Requests :
       /\ request[r].op \in {"check", "register", "rename"} /\ request[r].stage \in {"remember", "take"}
       /\ history[request[r].name].fresh
       => request[r].loose
  /\ \A n \in Names : cache[n] = "free" /\ history[n].fresh => Stale(n)

Kept == \A n \in Names, u \in Users : history[n].fresh /\ HasName(u, n) => u = history[n].user \/ n \in slipped

Reserved == Unique /\ Renaming /\ Told /\ Kept

LEMMA RenameFacts ==
  ASSUME Sound, NEW r \in Requests, request[r].op = "rename"
  PROVE  /\ request[r].user \in Users /\ request[r].name \in Names /\ request[r].old \in Names
         /\ request[r].name # request[r].old
BY AtFacts, IdleTyped DEF Known

\* Of the accounts only what is beside a name changes, and of the requests only this one.
Beside(r) ==
  /\ \A u \in Users : user'[u].name = user[u].name /\ user'[u].state = user[u].state
  /\ UNCHANGED <<history, slipped>>
  /\ Alone(r)
  /\ request'[r].op = "rename" =>
       \/ Same(request[r], request'[r]) /\ (request'[r].stage # "forget" => request[r].stage # "forget")
       \/ LET u == request'[r].user IN user[u].state = "open" /\ user[u].name = request'[r].old
  /\ /\ request'[r].op \in {"check", "register", "rename"} /\ request'[r].stage \in {"remember", "take"}
     /\ history[request'[r].name].fresh
     => request'[r].loose
  /\ \A n \in Names : cache'[n] = "free" /\ history[n].fresh =>
       cache[n] = "free" /\ ~(At(r, "forget") /\ n \in {request[r].name, request[r].old})

LEMMA BesideKept ==
  ASSUME Sound, Reserved, NEW r \in Requests, Beside(r)
  PROVE  Reserved'
<1>1. Unique' /\ Kept'
  BY DEF Reserved, Unique, Kept, HasName, Beside
<1>2. Renaming'
  <2>1. \A x \in Requests : x # r => request'[x] = request[x]
    BY DEF Beside, Alone
  <2>2. ASSUME NEW x \in Requests, request'[x].op = "rename"
        PROVE  /\ user'[request'[x].user].state = "open"
               /\ request'[x].stage # "forget" =>
                    \/ user'[request'[x].user].name = request'[x].old
                    \/ history[request'[x].old].user # NoUser
    <3>1. CASE Same(request[x], request'[x]) /\ (request'[x].stage # "forget" => request[x].stage # "forget")
      <4>1. request[x].op = "rename" /\ request'[x].user = request[x].user /\ request'[x].old = request[x].old
        BY <2>2, <3>1 DEF Same
      <4>2. request[x].user \in Users
        BY <4>1, RenameFacts
      <4> QED
        BY <3>1, <4>1, <4>2 DEF Reserved, Renaming, Beside
    <3>2. CASE x = r /\ LET u == request'[r].user IN user[u].state = "open" /\ user[u].name = request'[r].old
      <4>1. request'[r].user \in Users
        BY <2>2, <3>2, IdleTyped DEF Beside, Alone, Known
      <4> QED
        BY <3>2, <4>1 DEF Beside
    <3>3. x # r => Same(request[x], request'[x]) /\ request'[x].stage = request[x].stage
      BY <2>1 DEF Same
    <3> QED
      BY <2>2, <3>1, <3>2, <3>3 DEF Beside
  <2> QED
    BY <2>2 DEF Renaming, Beside
<1>3. Told'
  <2>1. ASSUME NEW x \in Requests, request'[x].op \in {"check", "register", "rename"},
               request'[x].stage \in {"remember", "take"}, history[request'[x].name].fresh
        PROVE  request'[x].loose
    BY <2>1 DEF Beside, Alone, Reserved, Told
  <2>2. ASSUME NEW n \in Names, cache'[n] = "free", history[n].fresh
        PROVE  \E x \in Requests : request'[x].stage = "forget" /\ n \in {request'[x].name, request'[x].old}
    <3>1. PICK x \in Requests : At(x, "forget") /\ n \in {request[x].name, request[x].old}
      BY <2>2 DEF Beside, Reserved, Told, Stale
    <3>2. x # r
      BY <2>2, <3>1 DEF Beside
    <3> QED
      BY <3>1, <3>2 DEF Beside, Alone, At
  <2> QED
    BY <2>1, <2>2 DEF Told, Stale, At, Beside
<1> QED
  BY <1>1, <1>2, <1>3 DEF Reserved

\* Requests begin, end, send, read and burn without a word on names.
LEMMA QuietKept ==
  ASSUME Sound, Reserved, NEW r \in Requests, Alone(r), UNCHANGED <<user, history, slipped, cache>>,
         ~At(r, "forget"),
         \/ request'[r] = Idle
         \/ request'[r].op \notin {"check", "register", "rename"}
         \/ request'[r].op # "rename" /\ request'[r].stage \notin {"remember", "take"}
  PROVE  Reserved'
BY BesideKept, IdleTyped DEF Beside

LEMMA RenameKept ==
  ASSUME Sound, Reserved, NEW r \in Requests, NEW u \in Users, NEW n \in Names, Rename(r, u, n)
  PROVE  Reserved'
<1>1. UNCHANGED <<user, history, slipped, cache>>
  BY DEF Rename
<1>2. /\ Alone(r) /\ request'[r].user = u /\ user[u].state = "open" /\ request'[r].old = user[u].name
      /\ request'[r].stage = "look" /\ ~At(r, "forget")
  BY RenameRow, IdleTyped DEF Began, At
<1> QED
  BY <1>1, <1>2, BesideKept DEF Beside

LEMMA LookKept ==
  ASSUME Sound, Reserved, NEW r \in Requests, Look(r)
  PROVE  Reserved'
<1>1. UNCHANGED <<user, history, slipped, cache>>
  BY DEF Look
<1>2. request[r].name \in Names /\ request[r].op \in {"check", "register", "rename"} /\ At(r, "look")
  BY LookRow
<1>3. CASE Ended(r)
  BY <1>1, <1>2, <1>3, QuietKept DEF Ended, At
<1>4. CASE /\ Went(r, "take") /\ cache[request[r].name] # "none"
           /\ request'[r].loose = (cache[request[r].name] = "loose" \/ Stale(request[r].name))
  <2>1. cache[request[r].name] \in {"loose", "free"}
    BY <1>2, <1>4, Typing DEF Sound, Answers
  <2>2. history[request[r].name].fresh => request'[r].loose
    BY <1>2, <1>4, <2>1 DEF Reserved, Told
  <2> QED
    BY <1>1, <1>2, <1>4, <2>2, BesideKept DEF Beside, Went, Same, At
<1>5. CASE Went(r, "remember") /\ request'[r].loose = history[request[r].name].fresh
  BY <1>1, <1>2, <1>5, BesideKept DEF Beside, Went, Same, At
<1> QED
  BY <1>3, <1>4, <1>5, LookRow

LEMMA RememberKept ==
  ASSUME Sound, Reserved, NEW r \in Requests, Remember(r)
  PROVE  Reserved'
<1>1. /\ UNCHANGED <<user, history, slipped>>
      /\ cache' = [cache EXCEPT ![request[r].name] = IF request[r].loose THEN "loose" ELSE "free"]
  BY DEF Remember
<1>2. request[r].name \in Names /\ request[r].op \in {"check", "register", "rename"} /\ At(r, "remember")
  BY RememberRow
<1>3. history[request[r].name].fresh => request[r].loose
  BY <1>2 DEF Reserved, Told, At
<1>4. \A n \in Names : cache'[n] = "free" /\ history[n].fresh => cache[n] = "free"
  BY <1>1, <1>2, <1>3 DEF Sound, TypeOK
<1>5. CASE Ended(r)
  BY <1>1, <1>2, <1>4, <1>5, BesideKept, IdleTyped DEF Beside, Ended, At
<1>6. CASE Went(r, "take") /\ request'[r].loose = request[r].loose
  BY <1>1, <1>2, <1>3, <1>4, <1>6, BesideKept DEF Beside, Went, Same, At
<1> QED
  BY <1>5, <1>6, RememberRow

LEMMA EndKept ==
  ASSUME Sound, Reserved, NEW r \in Requests, Forget(r) \/ Crash(r)
  PROVE  Reserved'
<1>1. UNCHANGED <<user, history, slipped>> /\ Ended(r)
  BY ForgetRow, CrashRow DEF Forget, Crash
<1>2. \A n \in Names : cache'[n] = "free" =>
        cache[n] = "free" /\ ~(At(r, "forget") /\ n \in {request[r].name, request[r].old})
  BY DEF Forget, Crash, Forgotten, Sound, TypeOK
<1> QED
  BY <1>1, <1>2, BesideKept, IdleTyped DEF Beside, Ended

LEMMA EmailKept ==
  ASSUME Sound, Reserved, NEW r \in Requests, UpdateEmail(r)
  PROVE  Reserved'
<1>1. At(r, "take") /\ Ended(r) /\ UNCHANGED <<history, slipped, cache>>
  BY EmailRow DEF UpdateEmail
<1>2. \A u \in Users : user'[u].name = user[u].name /\ user'[u].state = user[u].state
  <2>1. \A u \in Users : user[u] \in AccountRows
    BY Typing DEF Sound
  <2>2. CASE user' = [user EXCEPT ![request[r].user].email = request[r].email]
    BY <2>1, <2>2 DEF Sound, TypeOK, AccountRows
  <2>3. CASE UNCHANGED user
    BY <2>3
  <2> QED
    BY <2>2, <2>3, EmailRow
<1> QED
  BY <1>1, <1>2, BesideKept, IdleTyped DEF Beside, Ended, At

\* A name is taken: whoever takes a reserved one had a loose answer.
LEMMA TakenKept ==
  ASSUME Sound, Reserved, NEW r \in Requests, At(r, "take"), request[r].op \in {"register", "rename"},
         request[r].name \in Names, slipped' = Slips(request[r])
  PROVE  /\ history[request[r].name].fresh => request[r].name \in slipped'
         /\ \A n \in Names : n # request[r].name => (n \in slipped' <=> n \in slipped)
BY DEF Reserved, Told, At, Slips

LEMMA CreateKept ==
  ASSUME Sound, Reserved, NEW r \in Requests, CreateUser(r)
  PROVE  Reserved'
<1> DEFINE q == request[r]
<1>1. UNCHANGED <<history, cache>> /\ At(r, "take") /\ q.op = "register" /\ q.name \in Names
  BY CreateRow DEF CreateUser
<1>2. CASE Ended(r) /\ UNCHANGED <<user, slipped>>
  BY <1>1, <1>2, QuietKept DEF Ended, At
<1>3. CASE /\ Went(r, "forget") /\ NameFree(q.name) /\ slipped' = Slips(q)
           /\ \E u \in Users :
                /\ user[u].state = "none"
                /\ user' = [user EXCEPT ![u] = [ state |-> "open", name |-> q.name,
                                                 email |-> q.email, cooling |-> FALSE ]]
  <2>1. PICK u \in Users : /\ user[u].state = "none" /\ user'[u].name = q.name
                           /\ \A v \in Users : v # u => user'[v] = user[v]
    BY <1>3 DEF Sound, TypeOK
  <2>2. \A v \in Users : user[v].name # q.name
    BY <1>3 DEF NameFree, HasName
  <2>3. /\ history[q.name].fresh => q.name \in slipped'
        /\ \A n \in Names : n # q.name => (n \in slipped' <=> n \in slipped)
    BY <1>1, <1>3, TakenKept
  <2>4. Unique'
    BY <2>1, <2>2 DEF Reserved, Unique
  <2>5. Kept'
    BY <1>1, <2>1, <2>2, <2>3 DEF Reserved, Kept, HasName
  <2>6. \A x \in Requests : /\ Same(request[x], request'[x])
                            /\ x # r => request'[x] = request[x]
                            /\ request'[r].stage = "forget"
    BY <1>3 DEF Went, Alone, Same
  <2>7. Renaming'
    <3>1. ASSUME NEW x \in Requests, request'[x].op = "rename"
          PROVE  /\ request'[x] = request[x] /\ user'[request[x].user] = user[request[x].user]
                 /\ user[request[x].user].state = "open"
      <4>1. x # r /\ request'[x] = request[x] /\ request[x].op = "rename"
        BY <1>1, <2>6, <3>1 DEF Same
      <4>2. request[x].user \in Users /\ user[request[x].user].state = "open"
        BY <4>1, RenameFacts DEF Reserved, Renaming
      <4> QED
        BY <2>1, <4>1, <4>2
    <3> QED
      BY <1>1, <3>1 DEF Reserved, Renaming
  <2>8. Told'
    <3>1. \A x \in Requests : x # r => request'[x] = request[x]
      BY <2>6
    <3>2. \A n \in Names : Stale(n) => Stale(n)'
      BY <1>1, <2>6, <3>1 DEF Stale, At
    <3>3. ASSUME NEW x \in Requests, request'[x].op \in {"check", "register", "rename"},
                 request'[x].stage \in {"remember", "take"}, history[request'[x].name].fresh
          PROVE  request'[x].loose
      BY <2>6, <3>3 DEF Reserved, Told
    <3> QED
      BY <1>1, <3>2, <3>3 DEF Reserved, Told
  <2> QED
    BY <2>4, <2>5, <2>7, <2>8 DEF Reserved
<1> QED
  BY <1>2, <1>3, CreateRow

LEMMA ChangeKept ==
  ASSUME Sound, Reserved, NEW r \in Requests, ChangeUsername(r)
  PROVE  Reserved'
<1> DEFINE q == request[r]
<1>1. /\ UNCHANGED cache /\ At(r, "take") /\ q.op = "rename" /\ q.user \in Users
      /\ q.name \in Names /\ q.old \in Names /\ q.name # q.old
  BY ChangeRow DEF ChangeUsername
<1>2. CASE Ended(r) /\ UNCHANGED <<user, history, slipped>>
  BY <1>1, <1>2, QuietKept DEF Ended, At
<1>3. CASE /\ Turns(r) /\ NameFree(q.name) /\ history[q.old].user = NoUser /\ slipped' = Slips(q)
           /\ user' = [user EXCEPT ![q.user].name = q.name, ![q.user].cooling = TRUE]
           /\ history' = [history EXCEPT ![q.old] = [user |-> q.user, fresh |-> TRUE]]
  <2>1. /\ user'[q.user].name = q.name /\ user'[q.user].state = user[q.user].state
        /\ \A v \in Users : v # q.user => user'[v] = user[v]
    <3>1. user[q.user] \in AccountRows
      BY <1>1, Typing DEF Sound
    <3> QED
      BY <1>1, <1>3, <3>1 DEF Sound, TypeOK, AccountRows
  <2>2. /\ history'[q.old].user = q.user /\ history'[q.old].fresh
        /\ \A n \in Names : n # q.old => history'[n] = history[n]
    BY <1>1, <1>3 DEF Sound, TypeOK
  <2>3. \A v \in Users : user[v].name # q.name
    BY <1>3 DEF NameFree, HasName
  <2>4. user[q.user].name = q.old
    BY <1>1, <1>3 DEF Reserved, Renaming, At
  <2>5. /\ history[q.name].fresh => q.name \in slipped'
        /\ \A n \in Names : n # q.name => (n \in slipped' <=> n \in slipped)
    BY <1>1, <1>3, TakenKept
  <2>6. Unique'
    BY <2>1, <2>3 DEF Reserved, Unique
  <2>7. Kept'
    <3>1. \A v \in Users : user'[v].name # q.old
      BY <1>1, <2>1, <2>4, NobodyAssumption DEF Reserved, Unique
    <3>2. ASSUME NEW n \in Names, NEW v \in Users, history'[n].fresh, user'[v].name = n
          PROVE  v = history'[n].user \/ n \in slipped'
      <4>1. n # q.old /\ history'[n] = history[n]
        BY <2>2, <3>1, <3>2
      <4>2. CASE n = q.name
        BY <2>5, <3>2, <4>1, <4>2
      <4>3. CASE n # q.name
        BY <2>1, <2>5, <3>2, <4>1, <4>3 DEF Reserved, Kept, HasName
      <4> QED
        BY <4>2, <4>3
    <3> QED
      BY <3>2 DEF Kept, HasName
  <2>8. Renaming'
    <3>1. ASSUME NEW x \in Requests, request'[x].op = "rename"
          PROVE  /\ user'[request'[x].user].state = "open"
                 /\ request'[x].stage # "forget" =>
                      \/ user'[request'[x].user].name = request'[x].old
                      \/ history'[request'[x].old].user # NoUser
      <4>1. /\ request[x].op = "rename" /\ request'[x].user = request[x].user /\ request'[x].old = request[x].old
            /\ x # r => request'[x].stage = request[x].stage
            /\ x = r => request'[x].stage = "forget"
        BY <1>3, <3>1 DEF Turns, Same
      <4>2. /\ request[x].user \in Users /\ request[x].old \in Names /\ user[request[x].user].state = "open"
            /\ x # r /\ request[x].stage # "forget" =>
                 \/ user[request[x].user].name = request[x].old
                 \/ history[request[x].old].user # NoUser
        BY <4>1, RenameFacts DEF Reserved, Renaming
      <4>3. user'[request[x].user].state = "open"
        BY <2>1, <4>2
      <4>4. history'[q.old].user # NoUser
        BY <1>1, <2>2, NobodyAssumption
      <4>5. CASE request[x].old = q.old
        BY <4>1, <4>3, <4>4, <4>5
      <4>6. CASE request[x].old # q.old
        BY <2>1, <2>2, <2>4, <4>1, <4>2, <4>3, <4>6
      <4> QED
        BY <4>5, <4>6
    <3> QED
      BY <3>1 DEF Renaming
  <2>9. Told'
    <3>1. ASSUME NEW x \in Requests, request'[x].op \in {"check", "register", "rename"},
                 request'[x].stage \in {"remember", "take"}, history'[request'[x].name].fresh
          PROVE  request'[x].loose
      <4>1. /\ request'[x].op = request[x].op /\ request'[x].name = request[x].name /\ x # r
            /\ request'[x].stage = request[x].stage
        BY <1>3, <3>1 DEF Turns, Same
      <4>2. request[x].name \in Names
        BY <3>1, <4>1, AtFacts, IdleTyped DEF Known
      <4>3. CASE request[x].name = q.old
        BY <1>3, <3>1, <4>1, <4>3 DEF Turns
      <4>4. CASE request[x].name # q.old
        <5>1. request[x].loose
          BY <2>2, <3>1, <4>1, <4>2, <4>4 DEF Reserved, Told
        <5> QED
          BY <1>3, <4>1, <5>1 DEF Turns
      <4> QED
        BY <4>3, <4>4
    <3>2. ASSUME NEW n \in Names, cache[n] = "free", history'[n].fresh
          PROVE  \E x \in Requests : request'[x].stage = "forget" /\ n \in {request'[x].name, request'[x].old}
      <4>1. CASE n = q.old
        BY <1>3, <4>1 DEF Turns, Same
      <4>2. CASE n # q.old
        <5>1. PICK x \in Requests : At(x, "forget") /\ n \in {request[x].name, request[x].old}
          BY <2>2, <3>2, <4>2 DEF Reserved, Told, Stale
        <5> QED
          BY <1>3, <5>1 DEF Turns, Same, At
      <4> QED
        BY <4>1, <4>2
    <3> QED
      BY <1>1, <3>1, <3>2 DEF Told, Stale, At
  <2> QED
    BY <2>6, <2>7, <2>8, <2>9 DEF Reserved
<1> QED
  BY <1>2, <1>3, ChangeRow

LEMMA AnswerKept ==
  ASSUME Sound, Reserved, NEW n \in Names, AnswerExpires(n)
  PROVE  Reserved'
<1>1. UNCHANGED <<user, history, request, slipped>> /\ \A m \in Names : cache'[m] = "free" => cache[m] = "free"
  BY DEF AnswerExpires, Sound, TypeOK
<1> QED
  BY <1>1 DEF Reserved, Unique, Renaming, Told, Kept, Stale, HasName, At

LEMMA MonthKept ==
  ASSUME Sound, Reserved, NEW u \in Users, MonthPasses(u)
  PROVE  Reserved'
<1>1. UNCHANGED <<request, cache, slipped>>
  BY DEF MonthPasses
<1>2. \A v \in Users : user'[v].name = user[v].name /\ user'[v].state = user[v].state
  <2>1. \A v \in Users : user[v] \in AccountRows
    BY Typing DEF Sound
  <2> QED
    BY <2>1 DEF MonthPasses, Sound, TypeOK, AccountRows
<1>3. \A n \in Names : history'[n].user = history[n].user /\ (history'[n].fresh => history[n].fresh)
  <2>1. \A n \in Names : history[n] \in [user : Users \cup {NoUser}, fresh : BOOLEAN]
    BY Typing DEF Sound
  <2> QED
    BY <2>1 DEF MonthPasses
<1>4. Unique' /\ Kept'
  BY <1>1, <1>2, <1>3 DEF Reserved, Unique, Kept, HasName
<1>5. Renaming'
  BY <1>1, <1>2, <1>3, RenameFacts DEF Reserved, Renaming
<1>6. Told'
  <2>1. ASSUME NEW x \in Requests, request[x].op \in {"check", "register", "rename"},
               request[x].stage \in {"remember", "take"}
        PROVE  request[x].name \in Names
    BY <2>1, AtFacts, IdleTyped DEF Known
  <2> QED
    BY <1>1, <1>3, <2>1 DEF Reserved, Told, Stale, At
<1> QED
  BY <1>4, <1>5, <1>6 DEF Reserved

LEMMA DeleteKept ==
  ASSUME Sound, Reserved, "overlap" \notin Hazards, NEW u \in Users, DeleteAccount(u)
  PROVE  Reserved'
<1>1. UNCHANGED <<history, request, cache, slipped>> /\ \A r \in Requests : request[r].user # u
  BY DEF DeleteAccount
<1>2. user'[u].name = NoName /\ \A v \in Users : v # u => user'[v] = user[v]
  <2>1. user[u] \in AccountRows
    BY Typing DEF Sound
  <2> QED
    BY <2>1 DEF DeleteAccount, Sound, TypeOK, AccountRows
<1>3. Unique'
  BY <1>2 DEF Reserved, Unique
<1>4. Kept'
  BY <1>1, <1>2, NobodyAssumption DEF Reserved, Kept, HasName
<1>5. Renaming'
  BY <1>1, <1>2, RenameFacts DEF Reserved, Renaming
<1>6. Told'
  BY <1>1 DEF Reserved, Told, Stale, At
<1> QED
  BY <1>3, <1>4, <1>5, <1>6 DEF Reserved

LEMMA ReservedKept ==
  ASSUME "overlap" \notin Hazards
  PROVE  Sound /\ Reserved /\ [Next]_vars => Reserved'
<1> SUFFICES ASSUME Sound, Reserved, [Next]_vars PROVE Reserved'
  OBVIOUS
<1>1. ASSUME NEW r \in Requests, NEW p \in Purposes, NEW e \in Emails, AskForCode(r, p, e) PROVE Reserved'
  <2>1. Alone(r) /\ request'[r].op = "code" /\ ~At(r, "forget")
    BY <1>1, AskRow, IdleTyped DEF Began, At
  <2>2. UNCHANGED <<user, history, slipped, cache>>
    BY <1>1 DEF AskForCode
  <2> QED
    BY <2>1, <2>2, QuietKept
<1>2. ASSUME NEW r \in Requests, Reads(r) PROVE Reserved'
  <2>1. Alone(r) /\ request'[r].op # "rename" /\ request'[r].stage = "burn" /\ ~At(r, "forget")
    BY <1>2, IdleTyped DEF Reads, Began, At
  <2>2. UNCHANGED <<user, history, slipped, cache>>
    BY <1>2 DEF Reads
  <2> QED
    BY <2>1, <2>2, QuietKept
<1>3. ASSUME NEW r \in Requests, NEW u \in Users \cup {NoUser}, NEW n \in Names, UsernameCheck(r, u, n) PROVE Reserved'
  <2>1. Alone(r) /\ request'[r].op = "check" /\ request'[r].stage = "look" /\ ~At(r, "forget")
    BY <1>3, CheckRow, IdleTyped DEF Began, At
  <2>2. UNCHANGED <<user, history, slipped, cache>>
    BY <1>3 DEF UsernameCheck
  <2> QED
    BY <2>1, <2>2, QuietKept
<1>4. ASSUME NEW r \in Requests, SendCode(r) PROVE Reserved'
  <2>1. Alone(r) /\ request'[r] = Idle /\ ~At(r, "forget")
    BY <1>4, SendRow DEF Ended, At
  <2>2. UNCHANGED <<user, history, slipped, cache>>
    BY <1>4 DEF SendCode
  <2> QED
    BY <2>1, <2>2, QuietKept
<1>5. ASSUME NEW r \in Requests, Burn(r) PROVE Reserved'
  <2>1. Alone(r) /\ ~At(r, "forget") /\ request'[r].op = request[r].op
    BY <1>5, BurnRow DEF Went, Same, Burn, At
  <2>2. \/ request'[r].op = "register" /\ request'[r].stage = "look"
        \/ request'[r].op = "email"
    BY <1>5, <2>1, BurnRow DEF Went
  <2>3. UNCHANGED <<user, history, slipped, cache>>
    BY <1>5 DEF Burn
  <2> QED
    BY <2>1, <2>2, <2>3, QuietKept
<1>6. ASSUME UNCHANGED <<user, history, slipped, cache, request>> PROVE Reserved'
  BY <1>6 DEF Reserved, Unique, Renaming, Told, Kept, Stale, HasName, At
<1>7. ASSUME NEW k \in Keys, CodeExpires(k) \/ WindowEnds(k) PROVE Reserved'
  BY <1>6, <1>7 DEF CodeExpires, WindowEnds
<1>8. CASE UNCHANGED vars
  BY <1>6, <1>8 DEF vars
<1> QED
  BY <1>1, <1>2, <1>3, <1>4, <1>5, <1>7, <1>8, RegisterReads, ConfirmReads, RenameKept, LookKept, RememberKept,
     EndKept, EmailKept, CreateKept, ChangeKept, AnswerKept, MonthKept, DeleteKept
  DEF Next

\* A name given up leads to whoever gave it up for a month (change_username: history
\* reserve), however answers are cached, invalidated and lost, unless it was taken on an
\* answer older than the reservation or worked out for its owner; accounts are deleted
\* between their requests.
THEOREM NamesStayReserved ==
  ASSUME "overlap" \notin Hazards
  PROVE  Spec => []ReservedForOwner
<1>1. Init => Reserved
  <2> SUFFICES ASSUME Init PROVE Reserved
    OBVIOUS
  <2>1. \A n \in Names : ~history[n].fresh
    BY DEF Init
  <2>2. \A r \in Requests : request[r].op = "none"
    BY IdleTyped DEF Init
  <2>3. Unique
    BY DEF Init, Unique
  <2> QED
    BY <2>1, <2>2, <2>3 DEF Reserved, Renaming, Told, Kept
<1>2. Reserved => ReservedForOwner
  <2> SUFFICES ASSUME Reserved, NEW n \in Names, history[n].fresh
               PROVE  Resolves(n) = history[n].user \/ n \in slipped
    BY DEF ReservedForOwner
  <2>1. CASE \E u \in Users : HasName(u, n)
    <3>1. PICK u \in Users : u = Resolves(n) /\ HasName(u, n)
      BY <2>1 DEF Resolves
    <3> QED
      BY <3>1 DEF Reserved, Kept
  <2>2. CASE ~\E u \in Users : HasName(u, n)
    BY <2>2 DEF Resolves
  <2> QED
    BY <2>1, <2>2
<1> QED
  BY <1>1, <1>2, Starts, StepSound, ReservedKept, PTL DEF Spec

=============================================================================
