------------------------------ MODULE Community -------------------------------
(***************************************************************************)
(* What people leave on each other's work, what is reported, and what goes  *)
(* when an account does.  A request looks first, writes in a later commit,  *)
(* and tells the owner in a third; a deleted account takes its scenes down  *)
(* one by one before its marks go in one transaction.  Editing, deleting    *)
(* and deciding on a report do not come apart in a way that shows here, and *)
(* are single steps.                                                        *)
(***************************************************************************)
EXTENDS Integers, FiniteSets, People

CONSTANTS Contents, Comments, Reports, Series, Addresses, NoTarget,
          MaxRows,   \* bound: marks, comments, open reports, shelved works, addresses and
                     \* people named in notifications at one time, and requests in flight
          Oddities

OddityKinds ==
  { "odd" }  \* a scene is given a status that is neither live nor draft

ASSUME RowsAssumption == MaxRows \in Nat \ {0}
ASSUME TargetsAssumption ==
  NoTarget \notin Contents \cup Comments /\ Contents \cap Comments = {}
ASSUME OdditiesAssumption == Oddities \subseteq OddityKinds

Kinds == {"like", "item"}
Targets == Contents \cup Comments
Statuses == {"none", "live", "draft", "other", "gone"}

VARIABLES
  content,  \* the scenes; "gone" once deleted_at is set, whatever the status says
  comment,  \* who commented on what; a row not there, or removed, has no author
  marks,    \* likes (and saves, which are written alike) and collection items,
            \* each unique
  named,    \* the users whose name is in somebody's notification
  report,   \* the open ones, by whom and on what
  shelf,    \* series_pieces
  address,  \* who keeps it, and whether it is the default
  closed,   \* deleted accounts
  asked,
  overtook,     \* history: users with a request in flight when their account went
  doubled,  \* history: <<reporter, target>> reported in two requests at once, and
            \* not every such report closed since
  split,    \* history: what was put on two shelves at once, and not taken off all since
  torn      \* history: users who chose two defaults at once, and none since

communityVars == <<content, comment, marks, named, report, shelf, address, closed, asked,
          overtook, doubled, split, torn>>

AskedRows ==
  [ op : {"none", "like", "comment", "report", "shelve", "leave", "tell",
          "address", "home", "set"},
    user : Users \cup {NoUser}, on : Targets \cup Addresses \cup {NoTarget},
    shelf : Series \cup {NoTarget} ]

Unasked == [op |-> "none", user |-> NoUser, on |-> NoTarget, shelf |-> NoTarget]

NoComment == [by |-> NoUser, on |-> NoTarget]
NoReport == [by |-> NoUser, on |-> NoTarget]
NoAddress == [by |-> NoUser, home |-> FALSE]

CommunityTypeOK ==
  /\ content \in [Contents -> [author : Users \cup {NoUser}, status : Statuses]]
  /\ comment \in [Comments -> [by : Users \cup {NoUser}, on : Contents \cup {NoTarget}]]
  /\ marks \subseteq Kinds \X Users \X Contents
  /\ named \subseteq Users
  /\ report \in [Reports -> [by : Users \cup {NoUser}, on : Targets \cup {NoTarget}]]
  /\ shelf \subseteq Series \X Contents
  /\ address \in [Addresses -> [by : Users \cup {NoUser}, home : BOOLEAN]]
  /\ closed \subseteq Users
  /\ asked \in [Requests -> AskedRows]
  /\ overtook \subseteq Users /\ doubled \subseteq Users \X Targets /\ split \subseteq Contents
  /\ torn \subseteq Users

CommunityInit ==
  /\ content = [c \in Contents |-> [author |-> NoUser, status |-> "none"]]
  /\ comment = [k \in Comments |-> NoComment]
  /\ report = [p \in Reports |-> NoReport]
  /\ address = [a \in Addresses |-> NoAddress]
  /\ asked = [r \in Requests |-> Unasked]
  /\ marks = {} /\ named = {} /\ shelf = {} /\ closed = {}
  /\ overtook = {} /\ doubled = {} /\ split = {} /\ torn = {}

-----------------------------------------------------------------------------
rows == <<content, comment, marks, named, report, shelf, address, closed>>
histories == <<overtook, doubled, split, torn>>

\* _require_target, get_post: the status is not looked at.
Visible(c) == content[c].status \notin {"none", "gone"}

Owner(t) == IF t \in Contents /\ Visible(t) THEN content[t].author ELSE NoUser

SignedIn(u) == u \notin closed

Asking(r, op) == asked[r].op = op

Written ==
  Cardinality(marks) + Cardinality({k \in Comments : comment[k].by # NoUser})
  + Cardinality({p \in Reports : report[p].by # NoUser}) + Cardinality(shelf)
  + Cardinality({a \in Addresses : address[a].by # NoUser}) + Cardinality(named)
  + Cardinality({r \in Requests : asked[r] # Unasked})

Free(r) == asked[r] = Unasked /\ Written < MaxRows

Look(r, op, u, t) ==
  /\ Free(r)
  /\ SignedIn(u)
  /\ asked' = [asked EXCEPT ![r] = [Unasked EXCEPT !.op = op, !.user = u, !.on = t]]
  /\ UNCHANGED rows

Served(r) == asked' = [asked EXCEPT ![r] = Unasked]

\* What is left is to tell the owner, if there is another, or the admins: NoTarget.
ThenTell(r, t) ==
  IF t = NoTarget \/ Owner(t) \notin {NoUser, asked[r].user}
  THEN asked' = [asked EXCEPT ![r].op = "tell", ![r].on = t]
  ELSE Served(r)

-----------------------------------------------------------------------------
(***************************************************************************)
(* Likes and saves, folders, comments.                                     *)
(***************************************************************************)
Like(r, u, c) ==
  /\ Visible(c) /\ <<"like", u, c>> \notin marks
  /\ Look(r, "like", u, c)
  /\ UNCHANGED histories

\* collections_dao.add_item
Filed(u, c) ==
  /\ marks' = marks \cup {<<"item", u, c>>}
  /\ UNCHANGED <<content, comment, named, report, shelf, address, closed, asked, histories>>

\* The folder goes with the account: an item that comes too late finds none.
AddItem(u, c) == SignedIn(u) /\ Visible(c) /\ Written < MaxRows /\ Filed(u, c)

Unmarked(gone) ==
  /\ marks' = marks \ gone
  /\ UNCHANGED <<content, comment, named, report, shelf, address, closed, asked, histories>>

RemoveItem(u, c) == SignedIn(u) /\ <<"item", u, c>> \in marks /\ Unmarked({<<"item", u, c>>})

\* The folder's items go with it; one folder stands for all of them.
DeleteCollection(u) ==
  SignedIn(u) /\ \E c \in Contents : <<"item", u, c>> \in marks
  /\ Unmarked({m \in marks : m[1] = "item" /\ m[2] = u})

Unlike(u, c) ==
  SignedIn(u) /\ Visible(c) /\ <<"like", u, c>> \in marks /\ Unmarked({<<"like", u, c>>})

\* A second row of the same mark is refused, and nobody is told.
WriteLike(r) ==
  LET like == <<"like", asked[r].user, asked[r].on>> IN
  /\ Asking(r, "like")
  /\ marks' = marks \cup {like}
  /\ IF like \notin marks THEN ThenTell(r, asked[r].on) ELSE Served(r)
  /\ UNCHANGED <<content, comment, named, report, shelf, closed, address, histories>>

\* add_comment does not look whether its target is there.
Comment(r, u, c) == Look(r, "comment", u, c) /\ UNCHANGED histories

WriteComment(r) ==
  /\ Asking(r, "comment")
  /\ \E k \in Comments :
       /\ comment[k].by = NoUser
       /\ comment' = [comment EXCEPT ![k] = [by |-> asked[r].user, on |-> asked[r].on]]
  /\ ThenTell(r, asked[r].on)
  /\ UNCHANGED <<content, marks, named, report, shelf, closed, address, histories>>

\* create_and_push, to the owner.
Tell(r) ==
  LET q == asked[r] IN
  /\ Asking(r, "tell") /\ q.on # NoTarget
  /\ named' = IF Visible(q.on) THEN named \cup {q.user} ELSE named
  /\ Served(r)
  /\ UNCHANGED <<content, comment, marks, report, shelf, address, closed, histories>>

\* notify_admins
TellAdmins(r) ==
  /\ Asking(r, "tell") /\ asked[r].on = NoTarget
  /\ named' = named \cup {asked[r].user}
  /\ Served(r)
  /\ UNCHANGED <<content, comment, marks, report, shelf, address, closed, histories>>

-----------------------------------------------------------------------------
(***************************************************************************)
(* Scenes.                                                                 *)
(***************************************************************************)
CreatePost(u, c) ==
  /\ SignedIn(u) /\ content[c].status = "none"
  /\ \E s \in {"live", "draft"} :
       content' = [content EXCEPT ![c] = [author |-> u, status |-> s]]
  /\ overtook' = IF \E r \in Requests : Asking(r, "leave") /\ asked[r].user = u
             THEN overtook \cup {u} ELSE overtook
  /\ UNCHANGED <<comment, marks, named, report, shelf, address, closed, asked,
                 doubled, split, torn>>

\* Any status is written as it comes.
PatchPost(c, status) ==
  /\ Visible(c) /\ SignedIn(content[c].author)
  /\ status \in {"live", "draft"} \/ (status = "other" /\ "odd" \in Oddities)
  /\ content' = [content EXCEPT ![c].status = status]
  /\ UNCHANGED <<comment, marks, named, report, shelf, address, closed, asked, histories>>

TakenDown(c) == [content[c] EXCEPT !.status = "gone"]

DeletePost(c) ==
  /\ Visible(c) /\ SignedIn(content[c].author)
  /\ content' = [content EXCEPT ![c] = TakenDown(c)]
  /\ UNCHANGED <<comment, marks, named, report, shelf, address, closed, asked, histories>>

-----------------------------------------------------------------------------
(***************************************************************************)
(* Series.                                                                 *)
(***************************************************************************)
\* Mutant: only the shelf it is to go on is looked at.
ShelvedHere(c, s) == {x \in {s} : <<x, c>> \in shelf}

\* get_series_for_piece
Shelved(c, s) == {x \in Series : <<x, c>> \in shelf}

Shelve(r, s, c) ==
  /\ Visible(c) /\ SignedIn(content[c].author) /\ Shelved(c, s) = {}
  /\ Free(r)
  /\ asked' = [asked EXCEPT ![r] = [ op |-> "shelve", user |-> content[c].author,
                                         on |-> c, shelf |-> s ]]
  /\ split' = IF \E x \in Requests : Asking(x, "shelve") /\ asked[x].on = c
              THEN split \cup {c} ELSE split
  /\ UNCHANGED <<rows, overtook, doubled, torn>>

WriteShelf(r) ==
  /\ Asking(r, "shelve")
  /\ shelf' = shelf \cup {<<asked[r].shelf, asked[r].on>>}
  /\ Served(r)
  /\ UNCHANGED <<content, comment, marks, named, report, closed, address, histories>>

Unshelve(s, c) ==
  /\ <<s, c>> \in shelf /\ SignedIn(content[c].author)
  /\ shelf' = shelf \ {<<s, c>>}
  /\ split' = {x \in split : \/ x # c \/ \E y \in Series \ {s} : <<y, c>> \in shelf
                             \/ \E r \in Requests : Asking(r, "shelve")}
  /\ UNCHANGED <<content, comment, marks, named, report, address, closed, asked,
                 overtook, doubled, torn>>

-----------------------------------------------------------------------------
(***************************************************************************)
(* Reports.                                                                *)
(***************************************************************************)
OpenReports(u, t) == {p \in Reports : report[p] = [by |-> u, on |-> t]}

\* Mutant: a report of another target is taken for this one's.
HasOpenElsewhere(u, t) ==
  \E p \in Reports : report[p].by = u /\ report[p].on # t

\* find_open_report; it raises on two, and no third is filed either.
HasOpen(u, t) == OpenReports(u, t) # {}

Reportable(u, t) ==
  \/ t \in Contents /\ Visible(t)
  \/ t \in Comments /\ comment[t].by \notin {NoUser, u}

Report(r, u, t) ==
  /\ Reportable(u, t) /\ ~HasOpen(u, t)
  /\ Look(r, "report", u, t)
  /\ doubled' = IF \E x \in Requests : Asking(x, "report")
                     /\ asked[x].user = u /\ asked[x].on = t
                THEN doubled \cup {<<u, t>>} ELSE doubled
  /\ UNCHANGED <<overtook, address, split, torn>>

WriteReport(r) ==
  /\ Asking(r, "report")
  /\ \E p \in Reports :
       /\ report[p].by = NoUser
       /\ report' = [report EXCEPT ![p] = [by |-> asked[r].user, on |-> asked[r].on]]
  /\ ThenTell(r, NoTarget)
  /\ UNCHANGED <<content, comment, marks, named, shelf, closed, address, histories>>

\* remove_reported_target: deleted_at is set, the status is left as it is.
RemoveReported(t) ==
  /\ content' = IF t \in Contents THEN [content EXCEPT ![t] = TakenDown(t)] ELSE content
  /\ comment' = IF t \in Comments THEN [comment EXCEPT ![t] = NoComment] ELSE comment

Closed(p) == [report EXCEPT ![p] = NoReport]

\* resolve_report.  What is reported goes in a commit of its own, and the server
\* may die before the report is closed.
DecideReport(p, action) ==
  LET t == report[p].on IN
  /\ report[p].by # NoUser
  /\ IF action = "remove" THEN RemoveReported(t) ELSE UNCHANGED <<content, comment>>
  /\ report' \in {report, Closed(p)}
  /\ doubled' = {d \in doubled : \/ d # <<report[p].by, t>> \/ report' = report
                                 \/ \E q \in Reports \ {p} : report[q] = report[p]
                                 \/ \E r \in Requests : Asking(r, "report")}
  /\ UNCHANGED <<marks, named, shelf, closed, address, asked, overtook, split, torn>>

-----------------------------------------------------------------------------
(***************************************************************************)
(* Addresses.  They stay when the account goes.                            *)
(***************************************************************************)
Mine(u) == {a \in Addresses : address[a].by = u}

\* Mutant: the one that was the default stays so.
ClearDefaultNever(u) == address

ClearDefault(u) == [a \in Addresses |-> [address[a] EXCEPT !.home = @ /\ a \notin Mine(u)]]

\* The default is cleared in one commit and chosen in the next.
ChooseDefault(r, op, u, a) ==
  /\ Free(r) /\ SignedIn(u)
  /\ address' = ClearDefault(u)
  /\ asked' = [asked EXCEPT ![r] = [Unasked EXCEPT !.op = op, !.user = u, !.on = a]]
  /\ torn' = IF \E x \in Requests : asked[x].op \in {"home", "set"} /\ asked[x].user = u
             THEN torn \cup {u} ELSE torn \ {u}
  /\ UNCHANGED <<content, comment, marks, named, report, shelf, closed,
                 overtook, doubled, split>>

\* create_address: the first is the default, whether asked for or not.
NewAddress(r, u, home) ==
  IF home \/ Mine(u) = {} THEN ChooseDefault(r, "home", u, NoTarget)
  ELSE Look(r, "address", u, NoTarget) /\ UNCHANGED histories

WriteAddress(r) ==
  /\ Asking(r, "home") \/ Asking(r, "address")
  /\ \E a \in Addresses :
       /\ address[a].by = NoUser
       /\ address' = [address EXCEPT ![a] =
                        [by |-> asked[r].user, home |-> Asking(r, "home")]]
  /\ Served(r)
  /\ UNCHANGED <<content, comment, marks, named, report, shelf, closed, histories>>

SetDefault(r, u, a) == a \in Mine(u) /\ ChooseDefault(r, "set", u, a)

\* An address deleted meanwhile makes the update fail.
WriteDefault(r) ==
  /\ Asking(r, "set")
  /\ address' = [address EXCEPT ![asked[r].on].home =
                   @ \/ asked[r].on \in Mine(asked[r].user)]
  /\ Served(r)
  /\ UNCHANGED <<content, comment, marks, named, report, shelf, closed, histories>>

\* update_address; with isDefault set it does what SetDefault does.
PatchAddress(u, a) ==
  /\ SignedIn(u) /\ a \in Mine(u)
  /\ address' = [address EXCEPT ![a].home = FALSE]
  /\ UNCHANGED <<content, comment, marks, named, report, shelf, closed, asked, histories>>

\* Another is not made the default instead.
DeleteAddress(u, a) ==
  /\ SignedIn(u) /\ a \in Mine(u)
  /\ address' = [address EXCEPT ![a] = NoAddress]
  /\ UNCHANGED <<content, comment, marks, named, report, shelf, closed, asked, histories>>

-----------------------------------------------------------------------------
(***************************************************************************)
(* delete_account.                                                         *)
(***************************************************************************)
\* Mutant: drafts are not listed.
TakesLive(c, u) == content[c].author = u /\ content[c].status = "live"

\* list_user_posts, with drafts.
Takes(c, u) == content[c].author = u /\ content[c].status \in {"live", "draft"}

Leave(r, u) ==
  /\ asked[r] = Unasked /\ SignedIn(u)
  /\ asked' = [asked EXCEPT ![r] = [Unasked EXCEPT !.op = "leave", !.user = u]]
  /\ content' = [c \in Contents |-> IF Takes(c, u) THEN TakenDown(c) ELSE content[c]]
  /\ UNCHANGED <<comment, marks, named, report, shelf, closed, address, histories>>

Leaves(r) ==
  LET u == asked[r].user IN
  /\ Asking(r, "leave")
  /\ comment' = [k \in Comments |-> IF comment[k].by = u THEN NoComment ELSE comment[k]]
  /\ marks' = {m \in marks : m[2] # u}
  /\ named' = named \ {u}
  /\ closed' = closed \cup {u}
  /\ overtook' = IF \E x \in Requests \ {r} : asked[x].user = u THEN overtook \cup {u} ELSE overtook
  /\ Served(r)
  /\ UNCHANGED <<content, address, report, shelf, doubled, split, torn>>

\* Any request may die after any of its commits.
Dies(r) == asked[r] # Unasked /\ Served(r) /\ UNCHANGED <<rows, histories>>

-----------------------------------------------------------------------------
CommunityNext ==
  \/ \E r \in Requests :
       \/ \E u \in Users, c \in Contents :
            Like(r, u, c) \/ Comment(r, u, c)
       \/ \E u \in Users, t \in Targets : Report(r, u, t)
       \/ \E s \in Series, c \in Contents : Shelve(r, s, c)
       \/ \E u \in Users : Leave(r, u)
       \/ \E u \in Users : \E home \in BOOLEAN : NewAddress(r, u, home)
       \/ \E u \in Users, a \in Addresses : SetDefault(r, u, a)
       \/ WriteAddress(r) \/ WriteDefault(r)
       \/ WriteLike(r) \/ WriteComment(r) \/ WriteShelf(r) \/ WriteReport(r)
       \/ Tell(r) \/ TellAdmins(r) \/ Leaves(r) \/ Dies(r)
  \/ \E u \in Users, c \in Contents :
       CreatePost(u, c) \/ AddItem(u, c) \/ RemoveItem(u, c) \/ Unlike(u, c)
  \/ \E u \in Users : DeleteCollection(u)
  \/ \E c \in Contents, s \in Statuses : PatchPost(c, s)
  \/ \E c \in Contents : DeletePost(c)
  \/ \E u \in Users, a \in Addresses : PatchAddress(u, a) \/ DeleteAddress(u, a)
  \/ \E p \in Reports, a \in {"close", "remove"} : DecideReport(p, a)
  \/ \E s \in Series, c \in Contents : Unshelve(s, c)

CommunitySpec == CommunityInit /\ [][CommunityNext]_communityVars

-----------------------------------------------------------------------------
\* A deleted account leaves nothing behind: no scene, comment, like, save or
\* folder of its own, and no notification that names it, but for what a request
\* it had in flight wrote afterwards (delete_account: "the account's own social
\* footprint goes too").
FootprintGone ==
  \A u \in closed \ overtook :
    /\ \A c \in Contents : content[c].author = u => ~Visible(c)
    /\ \A k \in Comments : comment[k].by # u
    /\ \A m \in marks : m[2] # u
    /\ u \notin named

\* Repeated taps do not pile up open reports, unless the second came before the
\* first was written (_create_or_reuse).
OneOpenReport ==
  \A u \in Users, t \in Targets :
    Cardinality(OpenReports(u, t)) > 1 => <<u, t>> \in doubled

\* A work is in one series at most, unless it was put in two at once (add_piece:
\* "Piece already belongs to another series").
OneSeries ==
  \A c \in Contents : Cardinality({s \in Series : <<s, c>> \in shelf}) > 1 => c \in split

\* A user has one default address at most, unless two requests chose one at once
\* (clear_default commits before the new default is written).
OneDefault ==
  \A u \in Users : Cardinality({a \in Mine(u) : address[a].home}) > 1 => u \in torn

\* What a handler looks for before it writes it is there once, whoever else writes,
\* except through two requests of one account that came together: no constraint
\* of the schema backs any of the three.
NothingTwice == OneOpenReport /\ OneSeries /\ OneDefault
===============================================================================
