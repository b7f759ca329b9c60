------------------------------ MODULE Accounts ------------------------------
(***************************************************************************)
(* Administrator accounts, the applications granted to operators, and what *)
(* an account may do with cards.                                           *)
(*                                                                         *)
(* Every page reads the account its cookie names, then the rows it works   *)
(* on, and commits; the rows were read one query at a time, so other       *)
(* requests may commit between any two of these steps.  A handler keeps    *)
(* working with the account, the grants and the rows as it read them.      *)
(***************************************************************************)
EXTENDS Integers, FiniteSets

CONSTANTS
    AdminIds,   \* bound: 1..n, the ids of rows of `admins'
    AppIds,     \* bound: 1..n, the ids of rows of `applications'
    CardIds,    \* bound: 1..n, the ids of rows of `cards'
    Names, DefaultName,  \* user names; that of the first account
    Browsers,   \* each with one cookie and one request at a time
    Null

ASSUME AccountsAssumption ==
    /\ 1 \in AdminIds /\ AdminIds \subseteq Nat
    /\ AppIds \subseteq Nat /\ CardIds \subseteq Nat
    /\ DefaultName \in Names
    /\ Null \notin Nat /\ Null \notin Names

AdminRow == [name: Names, role: {"super", "operator"}, active: BOOLEAN]
CardRow  == [app: AppIds \cup {Null}, by: Names \cup {Null}]

ASSUME NullAssumption == Null \notin AdminRow /\ Null \notin CardRow

VARIABLES
    admins,  \* the committed `admins': id |-> row, or Null
    grants,  \* the committed `admin_applications': pairs of ids
    apps,    \* ids of the committed `applications'
    cards,   \* the committed `cards': id |-> application and issuer, or Null
    cookie,  \* browser |-> the account id in its session cookie, or Null
    req      \* browser |-> the request being served for it

vars == <<admins, grants, apps, cards, cookie, req>>

Request == [pc: {"idle", "login", "login_page", "dashboard", "name", "pick", "insert",
                 "target", "old", "replace", "toggle_load", "toggle", "delete_load",
                 "delete_apps", "delete", "app", "issue", "card", "scope", "act"},
            id: AdminIds \cup {Null}, me: AdminRow \cup {Null},
            target: AdminIds \cup {Null}, row: AdminRow \cup {Null},
            picks: SUBSET AppIds, held: SUBSET AppIds, app: AppIds \cup {Null},
            card: CardIds \cup {Null}, crow: CardRow \cup {Null}]

Idle == [pc |-> "idle", id |-> Null, me |-> Null, target |-> Null, row |-> Null,
         picks |-> {}, held |-> {}, app |-> Null, card |-> Null, crow |-> Null]

Free(b)   == req[b].pc = "idle"
Answer(b) == req' = [req EXCEPT ![b] = Idle]

Used(table) == {i \in DOMAIN table : table[i] # Null}

\* The id SQLite gives a new row: one more than the largest in use.
NextId(ids, used) == {i \in ids : (\A j \in used : j < i) /\ (i = 1 \/ i - 1 \in used)}

GrantsOf(i) == {a \in AppIds : <<i, a>> \in grants}

-----------------------------------------------------------------------------
(* Login, logout and the check at the head of every page                   *)

\* A wrong name or password, or a disabled account, leaves all as it was.
LoginRead(b) ==
    /\ Free(b)
    /\ \E i \in Used(admins) :
          /\ admins[i].active
          /\ req' = [req EXCEPT ![b] = [Idle EXCEPT !.pc = "login", !.id = i]]
    /\ UNCHANGED <<admins, grants, apps, cards, cookie>>

\* The cookie goes out with the answer, so not if the time of the login
\* cannot be written because the row is gone.
LoginCommit(b) ==
    /\ req[b].pc = "login"
    /\ cookie' = [cookie EXCEPT ![b] = IF admins[req[b].id] # Null THEN req[b].id ELSE @]
    /\ Answer(b)
    /\ UNCHANGED <<admins, grants, apps, cards>>

Logout(b) ==
    /\ Free(b)
    /\ cookie' = [cookie EXCEPT ![b] = Null]
    /\ UNCHANGED <<admins, grants, apps, cards, req>>

\* get_current_admin finds the account, and it is not disabled.
Authenticated(b) ==
    cookie[b] # Null /\ admins[cookie[b]] # Null /\ admins[cookie[b]].active

\* Somebody opens the administration or the login page.
Open(b) ==
    /\ Free(b)
    /\ \E page \in {"dashboard", "login_page"} : req' = [req EXCEPT ![b].pc = page]
    /\ UNCHANGED <<admins, grants, apps, cards, cookie>>

\* Mutation: the cookie of a refused account is left alone.
BounceOnly(b) ==
    /\ req[b].pc \in {"idle", "dashboard"} /\ ~Authenticated(b)
    /\ req' = [req EXCEPT ![b].pc = "login_page"]
    /\ UNCHANGED <<admins, grants, apps, cards, cookie>>

\* AuthRequired, on any page: a redirection to the login page.
Bounce(b) ==
    /\ req[b].pc \in {"idle", "dashboard"} /\ ~Authenticated(b)
    /\ cookie' = [cookie EXCEPT ![b] = Null]
    /\ req' = [req EXCEPT ![b].pc = "login_page"]
    /\ UNCHANGED <<admins, grants, apps, cards>>

Dashboard(b) ==
    /\ req[b].pc = "dashboard" /\ Authenticated(b)
    /\ Answer(b)
    /\ UNCHANGED <<admins, grants, apps, cards, cookie>>

\* The form, or a redirection to the administration if there is a cookie.
LoginPage(b) ==
    /\ req[b].pc = "login_page"
    /\ req' = [req EXCEPT ![b].pc = IF cookie[b] # Null THEN "dashboard" ELSE "idle"]
    /\ UNCHANGED <<admins, grants, apps, cards, cookie>>

\* A page that goes on, with the account as read here.
Enter(b, r) ==
    /\ Free(b) /\ Authenticated(b)
    /\ req' = [req EXCEPT ![b] = [r EXCEPT !.id = cookie[b], !.me = admins[cookie[b]]]]
    /\ UNCHANGED <<admins, grants, apps, cards, cookie>>

\* require_super
EnterSuper(b, r) == Enter(b, r) /\ admins[cookie[b]].role = "super"

-----------------------------------------------------------------------------
(* admin_create                                                            *)

CreateStart(b, row, picks) ==
    EnterSuper(b, [Idle EXCEPT !.pc = "name", !.row = row,
                               !.picks = IF row.role = "operator" THEN picks ELSE {}])

FindName(b) ==
    /\ req[b].pc = "name"
    /\ \/ /\ \E i \in Used(admins) : admins[i].name = req[b].row.name
          /\ Answer(b)
       \/ /\ \A i \in Used(admins) : admins[i].name # req[b].row.name
          /\ req' = [req EXCEPT ![b].pc = IF req[b].picks = {} THEN "insert" ELSE "pick"]
    /\ UNCHANGED <<admins, grants, apps, cards, cookie>>

\* _pick_apps: of the ticked applications, those that are there.
PickApps(b) ==
    /\ req[b].pc = "pick"
    /\ req' = [req EXCEPT ![b].picks = @ \cap apps,
                          ![b].pc = IF req[b].target = Null THEN "insert" ELSE "old"]
    /\ UNCHANGED <<admins, grants, apps, cards, cookie>>

\* Mutation: admins.username without its unique index.
AnyName(name) == TRUE

\* The unique index of admins.username.
NameIsNew(name) == \A i \in Used(admins) : admins[i].name # name

Insert(b) ==
    LET r == req[b]
        possible == NameIsNew(r.row.name) /\ r.picks \subseteq apps IN
    /\ r.pc = "insert"
    /\ \/ /\ possible
          /\ \E i \in NextId(AdminIds, Used(admins)) :
                /\ admins' = [admins EXCEPT ![i] = r.row]
                /\ grants' = grants \cup ({i} \X r.picks)
       \/ ~possible /\ UNCHANGED <<admins, grants>>
    /\ Answer(b)
    /\ UNCHANGED <<apps, cards, cookie>>

-----------------------------------------------------------------------------
(* admin_set_apps                                                          *)

SetAppsStart(b, i, picks) ==
    EnterSuper(b, [Idle EXCEPT !.pc = "target", !.target = i, !.picks = picks])

IsOperator(i) == admins[i] # Null /\ admins[i].role = "operator"

SetAppsTarget(b) ==
    /\ req[b].pc = "target"
    /\ \/ ~IsOperator(req[b].target) /\ Answer(b)
       \/ /\ IsOperator(req[b].target)
          /\ req' = [req EXCEPT ![b].pc = IF req[b].picks = {} THEN "old" ELSE "pick"]
    /\ UNCHANGED <<admins, grants, apps, cards, cookie>>

\* To replace a collection the session loads the one that is there.
LoadOld(b) ==
    /\ req[b].pc = "old"
    /\ req' = [req EXCEPT ![b].pc = "replace", ![b].held = GrantsOf(req[b].target)]
    /\ UNCHANGED <<admins, grants, apps, cards, cookie>>

\* The commit writes the difference to the loaded collection: a row to delete
\* has to be found, a row to insert must be new and both its ends be there.
CanReplace(b) ==
    LET r == req[b] IN
    /\ r.held \ r.picks \subseteq GrantsOf(r.target)
    /\ (r.picks \ r.held) \cap GrantsOf(r.target) = {}
    /\ r.picks \ r.held # {} => admins[r.target] # Null /\ r.picks \ r.held \subseteq apps

\* Mutation: ticked applications are added, unticked ones stay.
ReplaceByAdding(b) ==
    LET r == req[b] IN
    /\ r.pc = "replace"
    /\ grants' = IF CanReplace(b) THEN grants \cup ({r.target} \X (r.picks \ r.held))
                 ELSE grants
    /\ Answer(b)
    /\ UNCHANGED <<admins, apps, cards, cookie>>

Replace(b) ==
    LET r == req[b] IN
    /\ r.pc = "replace"
    /\ grants' = IF CanReplace(b)
                 THEN (grants \ ({r.target} \X (r.held \ r.picks)))
                      \cup ({r.target} \X (r.picks \ r.held))
                 ELSE grants
    /\ Answer(b)
    /\ UNCHANGED <<admins, apps, cards, cookie>>

-----------------------------------------------------------------------------
(* admin_toggle and admin_delete                                           *)

\* Mutation: an account may act on itself.
AnyAccount(b) == admins[req[b].target] # Null

\* "The account in use cannot be disabled", or deleted.
OtherAccount(b) == admins[req[b].target] # Null /\ req[b].target # req[b].id

ToggleStart(b, i) == EnterSuper(b, [Idle EXCEPT !.pc = "toggle_load", !.target = i])
DeleteStart(b, i) == EnterSuper(b, [Idle EXCEPT !.pc = "delete_load", !.target = i])

LoadTarget(b) ==
    /\ req[b].pc \in {"toggle_load", "delete_load"}
    /\ \/ ~OtherAccount(b) /\ Answer(b)
       \/ /\ OtherAccount(b)
          /\ req' = [req EXCEPT ![b].row = admins[req[b].target],
                                ![b].pc = IF @ = "toggle_load" THEN "toggle" ELSE "delete_apps"]
    /\ UNCHANGED <<admins, grants, apps, cards, cookie>>

\* What is written is the opposite of what was loaded.
Toggle(b) ==
    LET i == req[b].target IN
    /\ req[b].pc = "toggle"
    /\ admins' = IF admins[i] = Null THEN admins
                 ELSE [admins EXCEPT ![i].active = ~req[b].row.active]
    /\ Answer(b)
    /\ UNCHANGED <<grants, apps, cards, cookie>>

\* The session loads the grants of an account it deletes, to delete them ...
LoadGrants(b) ==
    /\ req[b].pc = "delete_apps"
    /\ req' = [req EXCEPT ![b].pc = "delete", ![b].held = GrantsOf(req[b].target)]
    /\ UNCHANGED <<admins, grants, apps, cards, cookie>>

\* Mutation: foreign keys without ON DELETE CASCADE, and not checked.
LoadedGrantsOnly(b) == {req[b].target} \X req[b].held

\* ... and ON DELETE CASCADE takes those made since.
GrantsToDelete(b) == {req[b].target} \X AppIds

Delete(b) ==
    LET r == req[b]
        possible == r.held \subseteq GrantsOf(r.target) IN
    /\ r.pc = "delete"
    /\ admins' = IF possible THEN [admins EXCEPT ![r.target] = Null] ELSE admins
    /\ grants' = IF possible THEN grants \ GrantsToDelete(b) ELSE grants
    /\ Answer(b)
    /\ UNCHANGED <<apps, cards, cookie>>

-----------------------------------------------------------------------------
(* Cards under the rules of services/scope                                 *)

IsSuper(me) == me.role = "super"

CanAccessApp(me, held, a) == IsSuper(me) \/ a \in held

\* Mutation: any card of a granted application will do.
CanAccessByApp(me, held, row) == IsSuper(me) \/ row.app \in held

CanAccessCard(me, held, row) ==
    IsSuper(me) \/ (CanAccessApp(me, held, row.app) /\ row.by = me.name)

\* Mutation: a list shows all cards of the applications granted.
ListedByApp(me, held, row) == IsSuper(me) \/ (row.app # Null /\ row.app \in held)

\* card_criterion, which narrows the lists, counts and the export: without an
\* application it selects nothing, and NULL is in no list of ids.
Listed(me, held, row) ==
    \/ IsSuper(me)
    \/ held # {} /\ row.app # Null /\ row.app \in held /\ row.by = me.name

\* visible_apps
VisibleApps(me, held) == IF IsSuper(me) THEN apps ELSE held \cap apps

IssueStart(b, a) == Enter(b, [Idle EXCEPT !.pc = "app", !.app = a])

\* generate_do loads the application, then the grants.
IssueScope(b) ==
    LET r == req[b]
        allowed == r.app \in apps /\ CanAccessApp(r.me, GrantsOf(r.id), r.app) IN
    /\ r.pc = "app"
    /\ \/ ~allowed /\ Answer(b)
       \/ allowed /\ req' = [req EXCEPT ![b].pc = "issue"]
    /\ UNCHANGED <<admins, grants, apps, cards, cookie>>

\* Mutation: the card does not say who issued it.
NoIssuer(me) == Null

Issuer(me) == me.name

\* Of the batch (see CardIssue) one card.
IssueCard(b) ==
    LET r == req[b] IN
    /\ r.pc = "issue"
    /\ \/ /\ r.app \in apps
          /\ \E c \in NextId(CardIds, Used(cards)) :
                cards' = [cards EXCEPT ![c] = [app |-> r.app, by |-> Issuer(r.me)]]
       \/ r.app \notin apps /\ UNCHANGED cards
    /\ Answer(b)
    /\ UNCHANGED <<admins, grants, apps, cookie>>

CardStart(b, c) == Enter(b, [Idle EXCEPT !.pc = "card", !.card = c])

\* _load_card: the row ...
LoadCard(b) ==
    LET row == cards[req[b].card] IN
    /\ req[b].pc = "card"
    /\ \/ row = Null /\ Answer(b)
       \/ row # Null /\ req' = [req EXCEPT ![b].pc = "scope", ![b].crow = row]
    /\ UNCHANGED <<admins, grants, apps, cards, cookie>>

\* ... and the grants it is held against.
ScopeCard(b) ==
    LET r == req[b]
        allowed == CanAccessCard(r.me, GrantsOf(r.id), r.crow) IN
    /\ r.pc = "scope"
    /\ \/ ~allowed /\ Answer(b)
       \/ allowed /\ req' = [req EXCEPT ![b].pc = "act"]
    /\ UNCHANGED <<admins, grants, apps, cards, cookie>>

\* An edit, a ban, a reset (see CardRequests) or a deletion is committed.
ActOnCard(b) ==
    /\ req[b].pc = "act"
    /\ cards' \in {cards, [cards EXCEPT ![req[b].card] = Null]}
    /\ Answer(b)
    /\ UNCHANGED <<admins, grants, apps, cookie>>

-----------------------------------------------------------------------------
(* Around the accounts                                                     *)

\* Of create_app and delete_app (see CardIssue) the commits.  Cards issued
\* since they were counted lose the application.
CreateApp ==
    /\ \E a \in NextId(AppIds, apps) : apps' = apps \cup {a}
    /\ UNCHANGED <<admins, grants, cards, cookie, req>>

DeleteApp(a) ==
    /\ a \in apps /\ apps' = apps \ {a}
    /\ grants' = grants \ (AdminIds \X {a})
    /\ cards' = [c \in CardIds |-> IF c \in Used(cards) /\ cards[c].app = a
                                   THEN [cards[c] EXCEPT !.app = Null] ELSE cards[c]]
    /\ UNCHANGED <<admins, cookie, req>>

\* The write lock is not to be had.
Abort(b) ==
    /\ req[b].pc \in {"login", "insert", "replace", "toggle", "delete", "issue", "act"}
    /\ Answer(b)
    /\ UNCHANGED <<admins, grants, apps, cards, cookie>>

FirstAdmin == [name |-> DefaultName, role |-> "super", active |-> TRUE]

\* bootstrap_admin, with each start of the process.
Bootstrap(table) == IF Used(table) = {} THEN [table EXCEPT ![1] = FirstAdmin] ELSE table

\* Cookies outlive the process, requests do not.
Restart ==
    /\ admins' = Bootstrap(admins)
    /\ req' = [b \in Browsers |-> Idle]
    /\ UNCHANGED <<grants, apps, cards, cookie>>

-----------------------------------------------------------------------------
Session(b) ==
    \/ LoginRead(b) \/ LoginCommit(b) \/ Logout(b)
    \/ Open(b) \/ Bounce(b) \/ Dashboard(b) \/ LoginPage(b)

Manage(b) ==
    \/ \E row \in AdminRow, picks \in SUBSET AppIds :
          row.active /\ CreateStart(b, row, picks)
    \/ FindName(b) \/ PickApps(b) \/ Insert(b)
    \/ \E i \in AdminIds, picks \in SUBSET AppIds : SetAppsStart(b, i, picks)
    \/ SetAppsTarget(b) \/ LoadOld(b) \/ Replace(b)
    \/ \E i \in AdminIds : ToggleStart(b, i) \/ DeleteStart(b, i)
    \/ LoadTarget(b) \/ Toggle(b) \/ LoadGrants(b) \/ Delete(b)

Work(b) ==
    \/ \E a \in AppIds : IssueStart(b, a)
    \/ IssueScope(b) \/ IssueCard(b)
    \/ \E c \in CardIds : CardStart(b, c)
    \/ LoadCard(b) \/ ScopeCard(b) \/ ActOnCard(b)

Next ==
    \/ \E b \in Browsers : Session(b) \/ Manage(b) \/ Work(b) \/ Abort(b)
    \/ CreateApp \/ \E a \in AppIds : DeleteApp(a)
    \/ Restart

\* The first start finds no account; cards may be left from before
\* applications and issuers were recorded.
Init ==
    /\ admins = Bootstrap([i \in AdminIds |-> Null])
    /\ grants = {} /\ apps = {}
    /\ cards \in {[c \in CardIds |-> Null],
                  [c \in CardIds |-> IF c = 1 THEN [app |-> Null, by |-> Null] ELSE Null]}
    /\ cookie = [b \in Browsers |-> Null]
    /\ req = [b \in Browsers |-> Idle]

Spec == Init /\ [][Next]_vars

\* A browser follows redirections, and the service answers it.
Follow(b) == Dashboard(b) \/ LoginPage(b) \/ (req[b].pc = "dashboard" /\ Bounce(b))

FairSpec == Spec /\ \A b \in Browsers : WF_vars(Follow(b))

-----------------------------------------------------------------------------
\* Only cards from before the columns were there lack an issuer.
TypeOK ==
    /\ admins \in [AdminIds -> AdminRow \cup {Null}]
    /\ grants \subseteq AdminIds \X AppIds
    /\ apps \subseteq AppIds
    /\ cards \in [CardIds -> CardRow \cup {Null}]
    /\ \A c \in Used(cards) : cards[c].by = Null => cards[c].app = Null
    /\ cookie \in [Browsers -> AdminIds \cup {Null}]
    /\ req \in [Browsers -> Request]

ActiveSupers(table) == {i \in Used(table) : table[i].role = "super" /\ table[i].active}

\* The service stays manageable.  Its last working super account is lost in
\* one way only: to a request of an account that was a working super account
\* when the request began and is none any more, as when two of them disable
\* each other in requests that overlap.
LastSuperByOverlap ==
    [][ActiveSupers(admins) # {} /\ ActiveSupers(admins)' = {} =>
         \E b \in Browsers : /\ req[b].pc \in {"toggle", "delete"}
                             /\ req[b].id \notin ActiveSupers(admins)]_vars

\* Ownership of cards rests on names, so no two accounts share one, however
\* the forms that create them overlap.
NamesDiffer ==
    \A i, j \in Used(admins) : admins[i].name = admins[j].name => i = j

\* A grant has both its ends: none outlives its account or its application
\* to fall to the next row with that id.
GrantsBelong ==
    \A g \in grants : admins[g[1]] # Null /\ g[2] \in apps

\* The filter of the lists and the check of the pages are written twice, in
\* SQL and in Python: an account sees the cards and applications that it may
\* open, cards without issuer or application included, and no others.
ListsAgree ==
    \A i \in Used(admins) :
       /\ \A c \in Used(cards) :
             Listed(admins[i], GrantsOf(i), cards[c]) <=>
                CanAccessCard(admins[i], GrantsOf(i), cards[c])
       /\ VisibleApps(admins[i], GrantsOf(i)) =
             {a \in apps : CanAccessApp(admins[i], GrantsOf(i), a)}

\* "Replace the set of applications an operator may work with": an answered
\* form leaves the operator with those of the ticked ones that are there.
Replaces ==
    \A b \in Browsers : Replace(b) /\ CanReplace(b) =>
        req[b].picks \cap apps = {a \in AppIds : <<req[b].target, a>> \in grants'}
SetAppsReplaces == [][Replaces]_vars

\* The same of those forms that change the grants.  One that overlaps another
\* and changes nothing may count as served before it, so only the others show
\* a merge: a form changed the grants, and left neither what it ticked, as
\* when it is the last, nor what it found, as when it is the first.
OneFormStands ==
    [][\A b \in Browsers : Replace(b) /\ grants' # grants =>
          req[b].picks \cap apps = {a \in AppIds : <<req[b].target, a>> \in grants'}]_vars

\* What an operator commits to is a card it issued itself, in an application
\* it is granted now: "only cards it issued, inside its applications".
InScope ==
    \A b \in Browsers : req[b].pc \in {"act", "issue"} /\ ~IsSuper(req[b].me) =>
        /\ ActOnCard(b) => \E row \in {cards[req[b].card]} :
              row # Null /\ row.app \in GrantsOf(req[b].id) /\ row.by = admins[req[b].id].name
        /\ IssueCard(b) => req[b].app \in GrantsOf(req[b].id)
KeepsScope == [][InScope]_vars

\* Redirections end, at the login form or at a page, also for a cookie whose
\* account was disabled or deleted.
RedirectsEnd ==
    \A b \in Browsers : req[b].pc \in {"dashboard", "login_page"} ~> Free(b)
=============================================================================
