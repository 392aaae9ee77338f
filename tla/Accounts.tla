------------------------------- MODULE Accounts -------------------------------
(***************************************************************************)
(* Who is called what, and who reads which mailbox.  A name is free when no *)
(* account has it and no account gave it up within the month; the answer is *)
(* cached under the name alone, whoever it was computed for, and acted on   *)
(* some steps after it was given.  An address is proved by a mailed code,   *)
(* kept in Redis under the address and the purpose, read in one call and    *)
(* burnt in the next.                                                       *)
(***************************************************************************)
EXTENDS Integers, FiniteSets

CONSTANTS Users, NoUser, Names, NoName, Emails, NoEmail, Requests,
          MaxCodes,    \* bound: codes ever mailed
          ResendMax,   \* codes for one address and purpose in a minute
          Hazards

HazardKinds ==
  { "asks",    \* an owner asks whether a name they gave up could be theirs again
    "overlap", \* an account is deleted while another of its requests is served
    "crash" }  \* the server dies in the middle of a request

ASSUME NobodyAssumption == NoUser \notin Users /\ NoName \notin Names /\ NoEmail \notin Emails
ASSUME BoundsAssumption == MaxCodes \in Nat \ {0} /\ ResendMax \in Nat \ {0}
ASSUME HazardsAssumption == Hazards \subseteq HazardKinds

Purposes == {"signup", "change"}
Keys == Purposes \X Emails
Codes == 1 .. MaxCodes
NoCode == 0

VARIABLES
  user,     \* name and email; an account not opened yet, or deleted, has neither
  history,  \* username_history: by whom a name was given up (unique, never
            \* deleted), and whether the month it is kept for them is running
  cache,    \* Redis: the names answered "available" within the last minute
  otp,      \* Redis: the code that is good for a key
  resend,   \* Redis: the codes asked for, and whether the count has an expiry
  request,
  mailed,   \* history: what each code was mailed for
  used,     \* history: what each code was good for
  raced,    \* history: the codes two requests had read before one burnt them
  slipped,  \* history: the names taken on an answer older than the reservation,
            \* or computed for the one they were reserved for
  torn      \* history: the keys whose request died between INCR and EXPIRE

vars == <<user, history, cache, otp, resend, request, mailed, used, raced, slipped, torn>>

AccountRows == [ state : {"none", "open", "deleted"}, name : Names \cup {NoName},
                 email : Emails \cup {NoEmail}, cooling : BOOLEAN ]

\* "loose": the answer is one of those `slipped` is about.
Answers == {"none", "free", "loose"}

RequestRows ==
  [ op : {"none", "check", "register", "rename", "email", "code"},
    stage : {"none", "burn", "look", "remember", "take", "forget", "send"},
    user : Users \cup {NoUser}, name : Names \cup {NoName}, old : Names \cup {NoName},
    email : Emails \cup {NoEmail}, purpose : Purposes, code : Codes \cup {NoCode},
    count : 0 .. ResendMax + 1, loose : BOOLEAN ]

Idle == [ op |-> "none", stage |-> "none", user |-> NoUser, name |-> NoName, old |-> NoName,
          email |-> NoEmail, purpose |-> "signup", code |-> NoCode, count |-> 0, loose |-> FALSE ]

TypeOK ==
  /\ user \in [Users -> AccountRows]
  /\ history \in [Names -> [user : Users \cup {NoUser}, fresh : BOOLEAN]]
  /\ cache \in [Names -> Answers]
  /\ otp \in [Keys -> Codes \cup {NoCode}]
  /\ resend \in [Keys -> [count : 0 .. ResendMax + 1, timed : BOOLEAN]]
  /\ request \in [Requests -> RequestRows]
  /\ mailed \in [Codes -> Keys \cup {<<>>}]
  /\ used \in [Codes -> [times : Nat, purposes : SUBSET Purposes]]
  /\ raced \subseteq Codes /\ slipped \subseteq Names /\ torn \subseteq Keys

\* Some accounts are open already, under addresses nobody else asks about.
Init ==
  /\ \E names \in [Users -> Names \cup {NoName}] :
       /\ \A u, v \in Users : names[u] = names[v] => u = v \/ names[u] = NoName
       /\ user = [u \in Users |-> [ state |-> IF names[u] = NoName THEN "none" ELSE "open",
                                    name |-> names[u], email |-> NoEmail, cooling |-> FALSE ]]
  /\ history = [n \in Names |-> [user |-> NoUser, fresh |-> FALSE]]
  /\ cache = [n \in Names |-> "none"]
  /\ otp = [k \in Keys |-> NoCode]
  /\ resend = [k \in Keys |-> [count |-> 0, timed |-> FALSE]]
  /\ request = [r \in Requests |-> Idle]
  /\ mailed = [c \in Codes |-> <<>>]
  /\ used = [c \in Codes |-> [times |-> 0, purposes |-> {}]]
  /\ raced = {} /\ slipped = {} /\ torn = {}

-----------------------------------------------------------------------------
HasName(u, n) == user[u].name = n
EmailTaken(e) == \E u \in Users : user[u].email = e

Begin(r, row) ==
  /\ request[r] = Idle
  /\ request' = [request EXCEPT ![r] = row]

Continue(r, stage) == request' = [request EXCEPT ![r].stage = stage]

Done(r) == request' = [request EXCEPT ![r] = Idle]

At(r, stage) == request[r].stage = stage

\* _is_taken_db, for everybody but `me`.
IsTaken(n, me) ==
  \/ \E u \in Users \ {me} : HasName(u, n)
  \/ history[n].fresh /\ history[n].user # me

\* find_user_by_username_or_history
Resolves(n) ==
  IF \E u \in Users : HasName(u, n) THEN CHOOSE u \in Users : HasName(u, n)
  ELSE IF history[n].fresh THEN history[n].user ELSE NoUser

-----------------------------------------------------------------------------
(***************************************************************************)
(* Codes.                                                                  *)
(***************************************************************************)
\* Mutant: both purposes keep their code under the address alone.
KeyUnprefixed(purpose, email) == <<"signup", email>>

\* _key_otp, _email_change_otp_key
Key(purpose, email) == <<purpose, email>>

\* otp_generate, request_email_change: the lock of 30 s keeps the requests of
\* one key apart; the count is incremented.
AskForCode(r, purpose, e) ==
  LET k == Key(purpose, e) IN
  /\ purpose = "change" => ~EmailTaken(e)
  \* Bound: once all codes are mailed, nobody asks unless it is in vain.
  /\ resend[k].count >= ResendMax \/ \E c \in Codes : mailed[c] = <<>>
  /\ \A x \in Requests : request[x].op = "code" => Key(request[x].purpose, request[x].email) # k
  /\ LET n == IF resend[k].count > ResendMax THEN resend[k].count ELSE resend[k].count + 1 IN
     /\ resend' = [resend EXCEPT ![k].count = n]
     /\ Begin(r, [Idle EXCEPT !.op = "code", !.stage = "send", !.purpose = purpose,
                              !.email = e, !.count = n])
  /\ UNCHANGED <<user, history, cache, otp, mailed, used, raced, slipped, torn>>

\* Mutant: only the request that hits the limit starts the minute.
StartsWindowLate(n) == n > ResendMax

StartsWindow(n) == n = 1

\* The rest of check_resend_limit, and store_otp.
SendCode(r) ==
  LET q == request[r]  k == Key(q.purpose, q.email) IN
  /\ At(r, "send")
  /\ resend' = IF StartsWindow(q.count) THEN [resend EXCEPT ![k].timed = TRUE] ELSE resend
  /\ Done(r)
  /\ IF q.count > ResendMax THEN UNCHANGED <<otp, mailed>>
     ELSE \E c \in Codes :
            /\ mailed[c] = <<>> /\ \A b \in Codes : b < c => mailed[b] # <<>>
            /\ otp' = [otp EXCEPT ![k] = c]
            /\ mailed' = [mailed EXCEPT ![c] = <<q.purpose, q.email>>]
  /\ UNCHANGED <<user, history, cache, used, raced, slipped, torn>>

\* GET and compare: the first half of verify_otp, and all that peek_otp does.
Matches(purpose, e, c) == otp[Key(purpose, e)] = c

Verified(r, row) ==
  /\ row.code # NoCode /\ Matches(row.purpose, row.email, row.code)
  /\ Begin(r, row)
  /\ raced' = IF \E x \in Requests : At(x, "burn") /\ request[x].code = row.code
              THEN raced \cup {row.code} ELSE raced
  /\ UNCHANGED <<user, history, cache, otp, resend, mailed, used, slipped, torn>>

\* The code goes before anything else is looked at.
Burnt(k) == [otp EXCEPT ![k] = NoCode]

Burn(r) ==
  LET q == request[r] IN
  /\ At(r, "burn")
  /\ otp' = Burnt(Key(q.purpose, q.email))
  /\ Continue(r, IF q.op = "register" THEN "look" ELSE "take")
  /\ UNCHANGED <<user, history, cache, resend, mailed, used, raced, slipped, torn>>

CodeExpires(k) ==
  /\ otp[k] # NoCode
  /\ otp' = [otp EXCEPT ![k] = NoCode]
  /\ UNCHANGED <<user, history, cache, resend, request, mailed, used, raced, slipped, torn>>

WindowEnds(k) ==
  /\ resend[k].timed
  /\ resend' = [resend EXCEPT ![k] = [count |-> 0, timed |-> FALSE]]
  /\ UNCHANGED <<user, history, cache, otp, request, mailed, used, raced, slipped, torn>>

-----------------------------------------------------------------------------
(***************************************************************************)
(* The requests, as far as their first answer.                             *)
(***************************************************************************)
Register(r, n, e, c) ==
  /\ \E u \in Users : user[u].state = "none"
  /\ Verified(r, [Idle EXCEPT !.op = "register", !.stage = "burn", !.name = n,
                              !.email = e, !.code = c])

ConfirmEmail(r, u, e, c) ==
  /\ user[u].state = "open"
  /\ Verified(r, [Idle EXCEPT !.op = "email", !.stage = "burn", !.purpose = "change",
                              !.user = u, !.email = e, !.code = c])

\* patch_username, change_username: a month between two changes.
Rename(r, u, n) ==
  /\ user[u].state = "open" /\ ~user[u].cooling /\ ~HasName(u, n)
  /\ Begin(r, [Idle EXCEPT !.op = "rename", !.stage = "look", !.user = u, !.name = n,
                           !.old = user[u].name])
  /\ UNCHANGED <<user, history, cache, otp, resend, mailed, used, raced, slipped, torn>>

\* username_check; with for_user_id=me, `me` is the caller.
UsernameCheck(r, me, n) ==
  /\ me # NoUser => user[me].state = "open" /\ ~HasName(me, n)
                    /\ (history[n].user = me => "asks" \in Hazards)
  /\ Begin(r, [Idle EXCEPT !.op = "check", !.stage = "look", !.user = me, !.name = n])
  /\ UNCHANGED <<user, history, cache, otp, resend, mailed, used, raced, slipped, torn>>

-----------------------------------------------------------------------------
(***************************************************************************)
(* check_availability, and what is done with the answer.                   *)
(***************************************************************************)
\* An invalidation of the name is on its way.
Stale(n) == \E x \in Requests : At(x, "forget") /\ n \in {request[x].name, request[x].old}

Look(r) ==
  LET q == request[r] IN
  /\ At(r, "look")
  /\ IF q.op = "register" /\ EmailTaken(q.email) THEN Done(r)
     ELSE IF cache[q.name] # "none"
     THEN IF q.op = "check" THEN Done(r)
          ELSE request' = [request EXCEPT ![r].stage = "take",
                             ![r].loose = cache[q.name] = "loose" \/ Stale(q.name)]
     ELSE IF IsTaken(q.name, q.user) THEN Done(r)
     ELSE request' = [request EXCEPT ![r].stage = "remember", ![r].loose = history[q.name].fresh]
  /\ UNCHANGED <<user, history, cache, otp, resend, mailed, used, raced, slipped, torn>>

\* _cache_set
Remember(r) ==
  LET q == request[r] IN
  /\ At(r, "remember")
  /\ cache' = [cache EXCEPT ![q.name] = IF q.loose THEN "loose" ELSE "free"]
  /\ IF q.op = "check" THEN Done(r) ELSE Continue(r, "take")
  /\ UNCHANGED <<user, history, otp, resend, mailed, used, raced, slipped, torn>>

Use(c, purpose) ==
  used' = [used EXCEPT ![c] = [times |-> @.times + 1, purposes |-> @.purposes \cup {purpose}]]

Slips(q) == IF q.loose THEN slipped \cup {q.name} ELSE slipped \ {q.name}

\* users.username, users.email are unique: the commit of a second one fails.
NameFree(n) == \A u \in Users : ~HasName(u, n)

\* create_user
CreateUser(r) ==
  LET q == request[r] IN
  /\ At(r, "take") /\ q.op = "register"
  /\ IF NameFree(q.name) /\ ~EmailTaken(q.email) /\ \E u \in Users : user[u].state = "none"
     THEN /\ \E u \in Users :
               /\ user[u].state = "none"
               /\ user' = [user EXCEPT ![u] = [ state |-> "open", name |-> q.name,
                                                email |-> q.email, cooling |-> FALSE ]]
          /\ Use(q.code, "signup")
          /\ slipped' = Slips(q)
          /\ Continue(r, "forget")
     ELSE Done(r) /\ UNCHANGED <<user, used, slipped>>
  /\ UNCHANGED <<history, cache, otp, resend, mailed, raced, torn>>

\* The second half of change_username: the old name is kept for the month the
\* next change has to wait for, in a row that must be the first of that name.
ChangeUsername(r) ==
  LET q == request[r]  u == q.user IN
  /\ At(r, "take") /\ q.op = "rename"
  /\ IF NameFree(q.name) /\ history[q.old].user = NoUser
     THEN /\ user' = [user EXCEPT ![u].name = q.name, ![u].cooling = TRUE]
          /\ history' = [history EXCEPT ![q.old] = [user |-> u, fresh |-> TRUE]]
          /\ slipped' = Slips(q)
          /\ request' = [x \in Requests |->
               IF x = r THEN [q EXCEPT !.stage = "forget"]
               ELSE IF request[x].name = q.old /\ request[x].stage \in {"remember", "take"}
               THEN [request[x] EXCEPT !.loose = TRUE] ELSE request[x]]
     ELSE Done(r) /\ UNCHANGED <<user, history, slipped>>
  /\ UNCHANGED <<cache, otp, resend, mailed, used, raced, torn>>

\* Mutant: a change forgets to drop the answers.
ForgottenNever(q) == {}
Forgotten(q) == {q.name, q.old}

\* invalidate_username_cache
Forget(r) ==
  /\ At(r, "forget")
  /\ cache' = [n \in Names |-> IF n \in Forgotten(request[r]) THEN "none" ELSE cache[n]]
  /\ Done(r)
  /\ UNCHANGED <<user, history, otp, resend, mailed, used, raced, slipped, torn>>

\* The rest of confirm_email_change.
UpdateEmail(r) ==
  LET q == request[r] IN
  /\ At(r, "take") /\ q.op = "email"
  /\ Done(r)
  /\ IF EmailTaken(q.email) THEN UNCHANGED <<user, used>>
     ELSE /\ user' = [user EXCEPT ![q.user].email = q.email]
          /\ Use(q.code, "change")
  /\ UNCHANGED <<history, cache, otp, resend, mailed, raced, slipped, torn>>

AnswerExpires(n) ==
  /\ cache[n] # "none"
  /\ cache' = [cache EXCEPT ![n] = "none"]
  /\ UNCHANGED <<user, history, otp, resend, request, mailed, used, raced, slipped, torn>>

\* The wait and the reservation are of one length and start together.
MonthPasses(u) ==
  /\ user[u].cooling
  /\ user' = [user EXCEPT ![u].cooling = FALSE]
  /\ history' = [n \in Names |->
       IF history[n].user = u THEN [history[n] EXCEPT !.fresh = FALSE] ELSE history[n]]
  /\ UNCHANGED <<cache, otp, resend, request, mailed, used, raced, slipped, torn>>

\* delete_account, as far as the account's own row goes.
DeleteAccount(u) ==
  /\ user[u].state = "open"
  /\ "overlap" \in Hazards \/ \A r \in Requests : request[r].user # u
  /\ user' = [user EXCEPT ![u].state = "deleted", ![u].name = NoName, ![u].email = NoEmail]
  /\ UNCHANGED <<history, cache, otp, resend, request, mailed, used, raced, slipped, torn>>

Crash(r) ==
  LET q == request[r] IN
  /\ "crash" \in Hazards
  /\ request[r] # Idle
  /\ Done(r)
  /\ cache' = [n \in Names |-> IF At(r, "forget") /\ n \in {q.name, q.old} /\ cache[n] # "none"
                               THEN "loose" ELSE cache[n]]
  /\ torn' = IF At(r, "send") /\ q.count = 1 THEN torn \cup {Key(q.purpose, q.email)} ELSE torn
  /\ UNCHANGED <<user, history, otp, resend, mailed, used, raced, slipped>>

-----------------------------------------------------------------------------
Next ==
  \/ \E r \in Requests :
       \/ \E p \in Purposes, e \in Emails : AskForCode(r, p, e)
       \/ \E n \in Names, e \in Emails, c \in Codes : Register(r, n, e, c)
       \/ \E u \in Users, e \in Emails, c \in Codes : ConfirmEmail(r, u, e, c)
       \/ \E u \in Users, n \in Names : Rename(r, u, n)
       \/ \E u \in Users \cup {NoUser}, n \in Names : UsernameCheck(r, u, n)
       \/ SendCode(r) \/ Burn(r) \/ Look(r) \/ Remember(r) \/ Forget(r)
       \/ CreateUser(r) \/ ChangeUsername(r) \/ UpdateEmail(r) \/ Crash(r)
  \/ \E k \in Keys : CodeExpires(k) \/ WindowEnds(k)
  \/ \E n \in Names : AnswerExpires(n)
  \/ \E u \in Users : MonthPasses(u) \/ DeleteAccount(u)

Spec == Init /\ [][Next]_vars

-----------------------------------------------------------------------------
\* A name given up stays with whoever gave it up for a month: following it leads
\* to them, unless it was taken on an answer that was older than the reservation
\* or was worked out for them (change_username: history reserve).
ReservedForOwner ==
  \A n \in Names : history[n].fresh => Resolves(n) = history[n].user \/ n \in slipped

\* A mailed code opens one account or moves one account to a new address, and
\* only the one of the two it was mailed for, unless two requests had read it
\* before either burnt it (verify_otp; the prefix of _email_change_otp_key).
CodeServesOnce ==
  \A c \in Codes : /\ used[c].times > 1 => c \in raced
                   /\ \A p \in used[c].purposes : p = mailed[c][1]

\* Whoever has asked too often may ask again after a while: the count that stops
\* them has an expiry, unless the request that was to set it died.
NobodyLockedOut ==
  \A k \in Keys : resend[k].count > 0
    => \/ resend[k].timed \/ k \in torn
       \/ \E r \in Requests : At(r, "send") /\ k = Key(request[r].purpose, request[r].email)
===============================================================================
