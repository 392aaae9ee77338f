------------------------------- MODULE Sessions -------------------------------
(***************************************************************************)
(* Signing in and out.  A session is two things kept in two stores: a row  *)
(* of refresh_tokens in Postgres, and a key in Redis without which no      *)
(* request is authenticated.  A refresh exchanges the row for a new        *)
(* session; signing out, "log out everywhere", a changed or reset password *)
(* and a deleted account end sessions, first in Postgres, then in Redis.   *)
(*                                                                         *)
(* Each of these handlers is a list of commits with nothing holding them   *)
(* together, so a handler is a request with the steps it still has to do,  *)
(* and the steps of several requests interleave.                           *)
(***************************************************************************)
EXTENDS Naturals, Sequences

CONSTANTS
  Users,
  NoUser,
  Sessions,   \* session ids, none used twice
  NoSession,
  Requests,   \* requests in progress at the same time
  Tickets,    \* emailed password-reset tokens
  MaxEra,     \* bound: revocations of all of a user's sessions
  Hazards

HazardKinds ==
  { "crash",    \* the server dies between two steps of a request
    "outage",   \* Redis cannot be reached for one call
    "blip"      \* Redis fails for one key of a scan, which goes on to the next
  }

ASSUME SessionsAssumption ==
  /\ NoUser \notin Users /\ NoSession \notin Sessions
  /\ MaxEra \in Nat
ASSUME HazardsAssumption == Hazards \subseteq HazardKinds

Eras == 0 .. MaxEra

\* What each handler does after its checks, one commit or Redis call a step.
Steps ==
  [ login      |-> <<"open", "issue">>,
    refresh    |-> <<"spend", "open", "issue">>,
    logout     |-> <<"spend", "drop">>,
    logout_all |-> <<"revoke_all", "drop_all">>,
    change     |-> <<"password", "revoke_all", "drop_all", "open", "issue">>,
    reset      |-> <<"password", "burn", "revoke_all", "drop_all">>,
    delete     |-> <<"anonymise", "revoke_all", "drop_all">> ]

VARIABLES
  account,   \* users: is there a password, was it deleted, how many revocations
  session,   \* refresh_tokens and Redis, by session id
  ticket,    \* password_reset_tokens: whose
  request,   \* requests in progress
  cleared,   \* history: the era the last revocation that was answered began
  left       \* history: chains signed out of, reached by a revocation of their
             \* user, or lost in the middle of a refresh

vars == <<account, session, ticket, request, cleared, left>>

(***************************************************************************)
(* "chain" is the session a login opened and refreshes continued; "era"    *)
(* the user's revocations at that login; "raced" says the chain has a      *)
(* request that overlapped a revocation; the three are history.            *)
(***************************************************************************)
SessionRows ==
  [ user : Users \cup {NoUser}, token : {"none", "valid", "revoked"},
    redis : BOOLEAN, chain : Sessions \cup {NoSession}, era : Eras, raced : BOOLEAN ]

NoRow == [user |-> NoUser, token |-> "none", redis |-> FALSE,
          chain |-> NoSession, era |-> 0, raced |-> FALSE]

RequestRows ==
  [ op : DOMAIN Steps \cup {"none"}, todo : Seq({"spend", "open", "issue", "drop",
    "revoke_all", "drop_all", "password", "burn", "anonymise"}),
    user : Users \cup {NoUser}, from : Sessions \cup {NoSession},
    new : Sessions \cup {NoSession}, era : Eras, raced : BOOLEAN ]

Idle == [op |-> "none", todo |-> <<>>, user |-> NoUser, from |-> NoSession,
         new |-> NoSession, era |-> 0, raced |-> FALSE]

TypeOK ==
  /\ account \in [Users -> [password : BOOLEAN, deleted : BOOLEAN, era : Eras]]
  /\ session \in [Sessions -> SessionRows]
  /\ ticket \in [Tickets -> Users \cup {NoUser}]
  /\ request \in [Requests -> RequestRows]
  /\ cleared \in [Users -> Eras]
  /\ left \subseteq Sessions

Init ==
  /\ account = [u \in Users |-> [password |-> TRUE, deleted |-> FALSE, era |-> 0]]
  /\ session = [s \in Sessions |-> NoRow]
  /\ ticket = [t \in Tickets |-> NoUser]
  /\ request = [r \in Requests |-> Idle]
  /\ cleared = [u \in Users |-> 0]
  /\ left = {}

-----------------------------------------------------------------------------
(***************************************************************************)
(* Arrivals: a request passes its checks, which read and change nothing.   *)
(* A request that fails one is answered 400 or 401 and is no step at all.  *)
(***************************************************************************)
Accept(r, op, u, s) ==
  /\ request[r] = Idle
  /\ request' = [request EXCEPT ![r] =
       [Idle EXCEPT !.op = op, !.todo = Steps[op], !.user = u, !.from = s,
                    !.era = IF op = "refresh" THEN session[s].era ELSE account[u].era,
                    !.raced = (op = "refresh" /\ session[s].raced)]]
  /\ UNCHANGED <<account, session, cleared, left>>

\* An access token of session s gets past auth_required: the session is in
\* Redis, or Redis cannot be asked and the signed token is trusted.
Authenticated(s) == session[s].redis \/ ("outage" \in Hazards /\ session[s].user # NoUser)

\* Its bearer also knows the password.  A bearer of a deleted account has none
\* to know, unless an older reset link set one.
Confirmed(u) == account[u].password

CanLogin(u) == account[u].password /\ ~account[u].deleted

\* Mutant: the row's is_revoked is not looked at.
CanRefreshRevoked(s) == session[s].token # "none" /\ Authenticated(s)

CanRefresh(s) == session[s].token = "valid" /\ Authenticated(s)

Login(r, u) == CanLogin(u) /\ Accept(r, "login", u, NoSession) /\ UNCHANGED ticket

Refresh(r, s) ==
  CanRefresh(s) /\ Accept(r, "refresh", session[s].user, s) /\ UNCHANGED ticket

Logout(r, s) ==
  /\ session[s].token # "none"
  /\ Accept(r, "logout", session[s].user, s)
  /\ UNCHANGED ticket

LogoutAll(r, s) ==
  /\ Authenticated(s)
  /\ account[session[s].user].era < MaxEra
  /\ Accept(r, "logout_all", session[s].user, s)
  /\ UNCHANGED ticket

ChangePassword(r, s) ==
  /\ Authenticated(s)
  /\ Confirmed(session[s].user)
  /\ account[session[s].user].era < MaxEra
  /\ Accept(r, "change", session[s].user, s)
  /\ UNCHANGED ticket

DeleteAccount(r, s) ==
  /\ Authenticated(s)
  /\ Confirmed(session[s].user)
  /\ account[session[s].user].era < MaxEra
  /\ Accept(r, "delete", session[s].user, s)
  /\ UNCHANGED ticket

\* request_password_reset.  A deleted account is found under no address a person has.
LinkSent(u, t) ==
  /\ ~account[u].deleted
  /\ ticket[t] = NoUser
  /\ ticket' = [ticket EXCEPT ![t] = u]

ForgetPassword(u, t) ==
  /\ LinkSent(u, t)
  /\ UNCHANGED <<account, session, request, cleared, left>>

ResetPassword(r, t) ==
  /\ ticket[t] # NoUser
  /\ account[ticket[t]].era < MaxEra
  /\ Accept(r, "reset", ticket[t], NoSession)
  /\ UNCHANGED ticket

\* A link is good for an hour.
LinkExpires(t) ==
  /\ ticket[t] # NoUser
  /\ ticket' = [ticket EXCEPT ![t] = NoUser]
  /\ UNCHANGED <<account, session, request, cleared, left>>

-----------------------------------------------------------------------------
(***************************************************************************)
(* Steps.  The first commit of a revocation starts an era of its user; a   *)
(* login begun from then on belongs to it, and so does what a changed      *)
(* password reopens.                                                       *)
(***************************************************************************)
Revokers == {"logout_all", "change", "reset", "delete"}

Doing(r, step) == request[r] # Idle /\ Head(request[r].todo) = step

\* The step is done; the last one answers the request.
Advanced(row) == IF Len(row.todo) = 1 THEN Idle ELSE [row EXCEPT !.todo = Tail(@)]

Answers(r) == Len(request[r].todo) = 1

ChainOf(r) == session[request[r].from].chain

ChainsOf(u) == {session[s].chain : s \in {x \in Sessions : session[x].user = u}}

NextEra(u) == account[u].era + 1

\* Requests of u that will still issue a session when its tokens are revoked.
Overlap(q, r, u) ==
  q # r /\ request[q].user = u /\ request[q].op \in {"login", "refresh", "change"}

\* update_user_password
SetPassword(r) ==
  LET u == request[r].user IN
  /\ Doing(r, "password")
  /\ account[u].era < MaxEra
  /\ account' = [account EXCEPT ![u].password = TRUE, ![u].era = NextEra(u)]
  /\ request' = [request EXCEPT ![r] = Advanced([@ EXCEPT !.era = NextEra(u)])]
  /\ UNCHANGED <<session, ticket, cleared, left>>

\* delete_password_reset_tokens_for_user
BurnTickets(r) ==
  /\ Doing(r, "burn")
  /\ ticket' = [t \in Tickets |-> IF ticket[t] = request[r].user THEN NoUser ELSE ticket[t]]
  /\ request' = [request EXCEPT ![r] = Advanced(@)]
  /\ UNCHANGED <<account, session, cleared, left>>

Anonymise(r) ==
  LET u == request[r].user IN
  /\ Doing(r, "anonymise")
  /\ account[u].era < MaxEra
  /\ account' = [account EXCEPT ![u] =
       [password |-> FALSE, deleted |-> TRUE, era |-> NextEra(u)]]
  /\ request' = [request EXCEPT ![r] = Advanced([@ EXCEPT !.era = NextEra(u)])]
  /\ UNCHANGED <<session, ticket, cleared, left>>

Revoked(row) == IF row.token = "none" THEN row ELSE [row EXCEPT !.token = "revoked"]

\* revoke_all_for_user.  For "log out everywhere" it is the first commit.
RevokeAll(r) ==
  LET u == request[r].user
      first == request[r].op = "logout_all"
  IN
  /\ Doing(r, "revoke_all")
  /\ first => account[u].era < MaxEra
  /\ session' = [s \in Sessions |->
       IF session[s].user = u THEN Revoked(session[s]) ELSE session[s]]
  /\ account' = IF first THEN [account EXCEPT ![u].era = NextEra(u)] ELSE account
  /\ request' = [q \in Requests |->
       IF q = r
       THEN Advanced([request[q] EXCEPT !.era = IF first THEN NextEra(u) ELSE @])
       ELSE [request[q] EXCEPT !.raced = @ \/ Overlap(q, r, u)]]
  /\ left' = left \cup ChainsOf(u)
  /\ UNCHANGED <<ticket, cleared>>

\* What delete_all_sessions_for_user may leave in Redis: it skips a key it
\* cannot read.
MayLeave(u) ==
  IF "blip" \in Hazards THEN SUBSET {s \in Sessions : session[s].user = u} ELSE {{}}

DropAll(r) ==
  LET u == request[r].user IN
  /\ Doing(r, "drop_all")
  /\ \E missed \in MayLeave(u) :
       session' = [s \in Sessions |->
         IF session[s].user = u /\ s \notin missed
         THEN [session[s] EXCEPT !.redis = FALSE] ELSE session[s]]
  /\ request' = [request EXCEPT ![r] = Advanced(@)]
  /\ cleared' = IF Answers(r) THEN [cleared EXCEPT ![u] = request[r].era] ELSE cleared
  /\ left' = left \cup ChainsOf(u)
  /\ UNCHANGED <<account, ticket>>

\* revoke_by_id
Spend(r) ==
  /\ Doing(r, "spend")
  /\ left' = IF request[r].op = "logout" THEN left \cup {ChainOf(r)} ELSE left
  /\ session' = [session EXCEPT ![request[r].from] = Revoked(@)]
  /\ request' = [request EXCEPT ![r] = Advanced(@)]
  /\ UNCHANGED <<account, ticket, cleared>>

\* Mutant: signing out of one device drops the user's every session.
DropEverywhere(r) ==
  /\ Doing(r, "drop")
  /\ session' = [s \in Sessions |->
       IF session[s].user = request[r].user
       THEN [session[s] EXCEPT !.redis = FALSE] ELSE session[s]]
  /\ request' = [request EXCEPT ![r] = Advanced(@)]
  /\ UNCHANGED <<account, ticket, cleared, left>>

\* delete_session
Drop(r) ==
  /\ Doing(r, "drop")
  /\ session' = [session EXCEPT ![request[r].from].redis = FALSE]
  /\ request' = [request EXCEPT ![r] = Advanced(@)]
  /\ UNCHANGED <<account, ticket, cleared, left>>

\* create_session
OpenSession(r, s) ==
  LET row == request[r]
      chain == IF row.op = "refresh" THEN session[row.from].chain ELSE s
  IN
  /\ Doing(r, "open")
  /\ session[s] = NoRow
  /\ session' = [session EXCEPT ![s] =
       [NoRow EXCEPT !.user = row.user, !.redis = TRUE, !.chain = chain, !.era = row.era]]
  /\ request' = [request EXCEPT ![r] = Advanced([@ EXCEPT !.new = s])]
  /\ UNCHANGED <<account, ticket, cleared, left>>

\* refresh_token_dao.create, and the answer with the cookie.
IssueToken(r) ==
  LET row == request[r] IN
  /\ Doing(r, "issue")
  /\ session' = [session EXCEPT ![row.new].token = "valid", ![row.new].raced = row.raced]
  /\ request' = [request EXCEPT ![r] = Advanced(@)]
  /\ cleared' = IF row.op \in Revokers
                THEN [cleared EXCEPT ![row.user] = row.era] ELSE cleared
  /\ UNCHANGED <<account, ticket, left>>

\* The server dies, or a Redis call raises: the steps left are never done.
Dies(r) ==
  /\ request[r] # Idle
  /\ \/ "crash" \in Hazards
     \/ "outage" \in Hazards /\ Head(request[r].todo) \in {"open", "drop", "drop_all"}
  /\ request' = [request EXCEPT ![r] = Idle]
  /\ left' = IF request[r].op = "refresh" /\ Head(request[r].todo) # "spend"
             THEN left \cup {ChainOf(r)} ELSE left
  /\ UNCHANGED <<account, session, ticket, cleared>>

Arrive(r) ==
  \/ \E u \in Users : Login(r, u)
  \/ \E s \in Sessions :
       Refresh(r, s) \/ Logout(r, s) \/ LogoutAll(r, s)
       \/ ChangePassword(r, s) \/ DeleteAccount(r, s)
  \/ \E t \in Tickets : ResetPassword(r, t)

Step(r) ==
  \/ SetPassword(r) \/ BurnTickets(r) \/ Anonymise(r) \/ RevokeAll(r) \/ DropAll(r)
  \/ Spend(r) \/ Drop(r) \/ IssueToken(r)
  \/ \E s \in Sessions : OpenSession(r, s)

Next ==
  \/ \E r \in Requests : Arrive(r) \/ Step(r) \/ Dies(r)
  \/ \E t \in Tickets : LinkExpires(t) \/ \E u \in Users : ForgetPassword(u, t)

Spec == Init /\ [][Next]_vars

-----------------------------------------------------------------------------
\* change_password: "a password change should kill any sessions started
\* before".  Once any of the four revocations has been answered, what is left
\* of the sessions signed in before it can be exchanged only if it comes from a
\* request that was under way when the tokens were revoked.
RevocationHolds ==
  \A s \in Sessions :
    /\ session[s].token = "valid"
    /\ session[s].era < cleared[session[s].user]
    => session[s].raced

\* A chain with a session to go on with, or a refresh about to give it one.
Continues(c) ==
  \/ \E s \in Sessions :
       session[s].chain = c /\ session[s].token = "valid" /\ session[s].redis
  \/ \E r \in Requests : request[r].op = "refresh" /\ ChainOf(r) = c

\* "Sessions/refresh tokens never expire on their own": somebody who signed in
\* stays signed in until they sign out or a revocation of their own sessions
\* reaches them, whatever others do and however their refreshes overlap.  The
\* one exception is a refresh that dies after it spent the old token.
KeepsSignedIn ==
  \A c \in Sessions :
    (session[c].chain = c /\ session[c].token # "none" /\ c \notin left) => Continues(c)

=============================================================================
