--------------------------- MODULE AccountsProofs ---------------------------
(* What holds of accounts, grants and the rules of scope for every number   *)
(* of accounts, applications, cards and browsers; and which overlaps of     *)
(* requests alone can spoil the grants a form leaves or an operator's scope:*)
(* a theorem excludes them by a premise on the steps, and nothing else.     *)
EXTENDS MCAccounts, TLAPS

\* What a request has read by each of its steps.
Carries(r) ==
    /\ r.pc = "login" => r.id # Null
    /\ r.pc \in {"issue", "act"} => r.me # Null
    /\ r.pc \in {"name", "insert"} => r.target = Null /\ r.row # Null
    /\ r.pc = "pick" /\ r.target = Null => r.row # Null
    /\ r.pc \in {"target", "old", "replace", "toggle_load", "toggle",
                 "delete_load", "delete_apps", "delete"} => r.target # Null
    /\ r.pc = "toggle" => r.row # Null
    /\ r.pc \in {"toggle", "delete_apps", "delete"} => r.target # r.id
    /\ r.pc \in {"app", "issue"} => r.app # Null
    /\ r.pc \in {"app", "issue", "card", "scope", "act"} => r.me # Null
    /\ r.pc \in {"card", "scope", "act"} => r.card # Null

AccountsInv == TypeOK /\ \A b \in Browsers : Carries(req[b])

\* The tables as TypeOK has them.
Tables == <<admins, grants, apps, cards>>

-----------------------------------------------------------------------------
(* Steps that go from one point of a request to the next                   *)

LEMMA IdleIsRequest == Idle \in Request /\ Carries(Idle)
BY AccountsAssumption DEF Idle, Request, Carries

\* A step that leaves the tables alone and gives one browser a request that
\* is in shape.
LEMMA Proceeds ==
    ASSUME AccountsInv, UNCHANGED Tables,
           cookie' \in [Browsers -> AdminIds \cup {Null}],
           NEW b \in Browsers, NEW r, r \in Request, Carries(r),
           req' = [req EXCEPT ![b] = r]
    PROVE  AccountsInv'
<1>1. req' \in [Browsers -> Request]
  BY DEF AccountsInv, TypeOK
<1>2. \A c \in Browsers : Carries(req'[c])
  <2> TAKE c \in Browsers
  <2>1. CASE c = b
    BY <2>1 DEF AccountsInv, TypeOK
  <2>2. CASE c # b
    BY <2>2 DEF AccountsInv, TypeOK
  <2> QED BY <2>1, <2>2
<1>3. TypeOK'
  BY <1>1 DEF AccountsInv, TypeOK, Tables, Used
<1> QED BY <1>2, <1>3 DEF AccountsInv

\* A request that is answered leaves nothing behind; what it committed is in
\* shape if the tables are.
LEMMA Answers ==
    ASSUME AccountsInv, NEW b \in Browsers, Answer(b),
           admins' \in [AdminIds -> AdminRow \cup {Null}],
           grants' \subseteq AdminIds \X AppIds, apps' \subseteq AppIds,
           cards' \in [CardIds -> CardRow \cup {Null}],
           \A c \in Used(cards)' : cards'[c].by = Null => cards'[c].app = Null,
           cookie' \in [Browsers -> AdminIds \cup {Null}]
    PROVE  AccountsInv'
<1>1. req' \in [Browsers -> Request]
  BY IdleIsRequest DEF AccountsInv, TypeOK, Answer
<1>2. \A c \in Browsers : Carries(req'[c])
  <2> TAKE c \in Browsers
  <2>1. CASE c = b
    BY <2>1, IdleIsRequest DEF AccountsInv, TypeOK, Answer
  <2>2. CASE c # b
    BY <2>2 DEF AccountsInv, TypeOK, Answer
  <2> QED BY <2>1, <2>2
<1>3. TypeOK'
  BY <1>1 DEF TypeOK
<1> QED BY <1>2, <1>3 DEF AccountsInv

-----------------------------------------------------------------------------
(* Sign-in and the head of every page                                      *)

\* A page that has passed the check goes on with the account it found.
LEMMA Enters ==
    ASSUME AccountsInv, NEW b \in Browsers, NEW r \in Request, Enter(b, r),
           r.pc \in {"name", "target", "toggle_load", "delete_load", "app", "card"},
           r.pc = "name" => r.target = Null /\ r.row # Null,
           r.pc \in {"target", "toggle_load", "delete_load"} => r.target # Null,
           r.pc = "app" => r.app # Null, r.pc = "card" => r.card # Null
    PROVE  AccountsInv'
<1> DEFINE e == [r EXCEPT !.id = cookie[b], !.me = admins[cookie[b]]]
<1>1. e \in Request
  BY DEF Request, Enter, Authenticated, AccountsInv, TypeOK
<1>2. Carries(e)
  <2>1. /\ e.pc = r.pc /\ e.target = r.target /\ e.row = r.row
        /\ e.app = r.app /\ e.card = r.card /\ e.me # Null
    BY DEF Request, Enter, Authenticated
  <2> QED BY <2>1 DEF Carries
<1>3. UNCHANGED Tables /\ cookie' = cookie /\ req' = [req EXCEPT ![b] = e]
  BY DEF Enter, Tables
<1> HIDE DEF e
<1> QED BY <1>1, <1>2, <1>3, Proceeds DEF AccountsInv, TypeOK

LEMMA SessionStep ==
    ASSUME AccountsInv, NEW b \in Browsers, Session(b)
    PROVE  AccountsInv'
<1>1. CASE LoginRead(b)
  <2>1. PICK i \in Used(admins) :
           req' = [req EXCEPT ![b] = [Idle EXCEPT !.pc = "login", !.id = i]]
    BY <1>1 DEF LoginRead
  <2> DEFINE r == [Idle EXCEPT !.pc = "login", !.id = i]
  <2>2. i \in AdminIds /\ i # Null
    BY AccountsAssumption DEF Used, AccountsInv, TypeOK
  <2>3. r \in Request /\ Carries(r)
    <3>1. r \in Request
      BY <2>2, IdleIsRequest DEF Request
    <3>2. r.pc = "login" /\ r.id = i
      BY DEF Idle
    <3> HIDE DEF r
    <3> QED BY <2>2, <3>1, <3>2 DEF Carries
  <2>4. UNCHANGED Tables /\ cookie' = cookie
    BY <1>1 DEF LoginRead, Tables
  <2> HIDE DEF r
  <2>5. req' = [req EXCEPT ![b] = r]
    BY <2>1 DEF r
  <2> QED BY <2>3, <2>4, <2>5, Proceeds DEF AccountsInv, TypeOK
<1>2. CASE LoginCommit(b)
  <2>1. cookie' \in [Browsers -> AdminIds \cup {Null}]
    BY <1>2 DEF LoginCommit, AccountsInv, TypeOK, Request
  <2> QED BY <1>2, <2>1, Answers DEF LoginCommit, AccountsInv, TypeOK, Used
<1>3. CASE Logout(b)
  BY <1>3 DEF Logout, AccountsInv, TypeOK, Used
<1>4. ASSUME NEW pc \in {"idle", "dashboard", "login_page"},
             req' = [req EXCEPT ![b].pc = pc], UNCHANGED Tables,
             cookie' \in [Browsers -> AdminIds \cup {Null}]
      PROVE  AccountsInv'
  <2> DEFINE r == [req[b] EXCEPT !.pc = pc]
  <2>1. r \in Request /\ Carries(r)
    <3>1. r \in Request /\ r.pc = pc
      BY DEF AccountsInv, TypeOK, Request
    <3> HIDE DEF r
    <3> QED BY <3>1 DEF Carries
  <2>2. req' = [req EXCEPT ![b] = r]
    BY <1>4
  <2> HIDE DEF r
  <2> QED BY <1>4, <2>1, <2>2, Proceeds
<1>5. CASE Open(b)
  BY <1>5, <1>4 DEF Open, Tables, AccountsInv, TypeOK
<1>6. CASE Bounce(b)
  BY <1>6, <1>4 DEF Bounce, Tables, AccountsInv, TypeOK
<1>7. CASE Dashboard(b)
  BY <1>7, Answers DEF Dashboard, AccountsInv, TypeOK, Used
<1>8. CASE LoginPage(b)
  BY <1>8, <1>4 DEF LoginPage, Tables, AccountsInv, TypeOK
<1> QED BY <1>1, <1>2, <1>3, <1>5, <1>6, <1>7, <1>8 DEF Session

-----------------------------------------------------------------------------
(* The pages of the administrators                                         *)

\* A request goes on with more in hand than it had.
LEMMA GoesOn ==
    ASSUME AccountsInv, UNCHANGED <<admins, grants, apps, cards, cookie>>,
           NEW b \in Browsers, NEW r \in Request, Carries(r),
           req' = [req EXCEPT ![b] = r]
    PROVE  AccountsInv'
BY Proceeds DEF AccountsInv, TypeOK, Tables

\* A request is answered without a commit.
LEMMA Refuses ==
    ASSUME AccountsInv, UNCHANGED <<admins, grants, apps, cards, cookie>>,
           NEW b \in Browsers, Answer(b)
    PROVE  AccountsInv'
BY Answers DEF AccountsInv, TypeOK, Used

LEMMA FindNameStep == ASSUME AccountsInv, NEW b \in Browsers, FindName(b) PROVE AccountsInv'
<1>1. CASE Answer(b)
  BY <1>1, Refuses DEF FindName
<1>2. CASE ~Answer(b)
  <2> DEFINE pc == IF req[b].picks = {} THEN "insert" ELSE "pick"
             r  == [req[b] EXCEPT !.pc = pc]
  <2>1. req[b] \in Request /\ Carries(req[b]) /\ req[b].pc = "name"
    BY DEF FindName, AccountsInv, TypeOK
  <2>2. r \in Request /\ r.pc = pc /\ r.target = req[b].target /\ r.row = req[b].row
    BY <2>1 DEF Request
  <2>3. req' = [req EXCEPT ![b] = r]
    BY <1>2 DEF FindName
  <2>4. pc \in {"insert", "pick"}
    OBVIOUS
  <2> HIDE DEF r, pc
  <2>5. Carries(r)
    BY <2>1, <2>2, <2>4 DEF Carries
  <2> QED BY <2>2, <2>3, <2>5, GoesOn DEF FindName
<1> QED BY <1>1, <1>2

LEMMA PickAppsStep == ASSUME AccountsInv, NEW b \in Browsers, PickApps(b) PROVE AccountsInv'
<1> DEFINE pc == IF req[b].target = Null THEN "insert" ELSE "old"
           picks == req[b].picks \cap apps
           r  == [req[b] EXCEPT !.picks = picks, !.pc = pc]
<1>1. req[b] \in Request /\ Carries(req[b]) /\ req[b].pc = "pick"
  BY DEF PickApps, AccountsInv, TypeOK
<1>2. req' = [req EXCEPT ![b] = r]
  BY DEF PickApps
<1>3. /\ pc \in {"insert", "old"} /\ (pc = "insert" <=> req[b].target = Null)
      /\ picks \in SUBSET AppIds
  BY DEF AccountsInv, TypeOK
<1> HIDE DEF pc, picks
<1>4. r \in Request /\ r.pc = pc /\ r.target = req[b].target /\ r.row = req[b].row
  BY <1>1, <1>3 DEF Request
<1> HIDE DEF r
<1>5. Carries(r)
  BY <1>1, <1>4, <1>3 DEF Carries
<1> QED BY <1>4, <1>2, <1>5, GoesOn DEF PickApps

LEMMA SetAppsTargetStep ==
    ASSUME AccountsInv, NEW b \in Browsers, SetAppsTarget(b) PROVE AccountsInv'
<1>1. CASE Answer(b)
  BY <1>1, Refuses DEF SetAppsTarget
<1>2. CASE ~Answer(b)
  <2> DEFINE pc == IF req[b].picks = {} THEN "old" ELSE "pick"
             r  == [req[b] EXCEPT !.pc = pc]
  <2>1. req[b] \in Request /\ Carries(req[b]) /\ req[b].pc = "target"
    BY DEF SetAppsTarget, AccountsInv, TypeOK
  <2>2. r \in Request /\ r.pc = pc /\ r.target = req[b].target
    BY <2>1 DEF Request
  <2>3. req' = [req EXCEPT ![b] = r]
    BY <1>2 DEF SetAppsTarget
  <2>4. pc \in {"old", "pick"}
    OBVIOUS
  <2> HIDE DEF r, pc
  <2>5. Carries(r)
    BY <2>1, <2>2, <2>4 DEF Carries
  <2> QED BY <2>2, <2>3, <2>5, GoesOn DEF SetAppsTarget
<1> QED BY <1>1, <1>2

LEMMA LoadOldStep == ASSUME AccountsInv, NEW b \in Browsers, LoadOld(b) PROVE AccountsInv'
<1> DEFINE r == [req[b] EXCEPT !.pc = "replace", !.held = GrantsOf(req[b].target)]
<1>1. req[b] \in Request /\ Carries(req[b]) /\ req[b].pc = "old"
  BY DEF LoadOld, AccountsInv, TypeOK
<1>2. r \in Request /\ r.pc = "replace" /\ r.target = req[b].target
  BY <1>1 DEF Request, GrantsOf
<1>3. req' = [req EXCEPT ![b] = r]
  BY DEF LoadOld
<1> HIDE DEF r
<1>4. Carries(r)
  BY <1>1, <1>2 DEF Carries
<1> QED BY <1>2, <1>3, <1>4, GoesOn DEF LoadOld

LEMMA LoadTargetStep ==
    ASSUME AccountsInv, NEW b \in Browsers, LoadTarget(b) PROVE AccountsInv'
<1>1. CASE Answer(b)
  BY <1>1, Refuses DEF LoadTarget
<1>2. CASE ~Answer(b)
  <2> DEFINE pc == IF req[b].pc = "toggle_load" THEN "toggle" ELSE "delete_apps"
             row == admins[req[b].target]
             r  == [req[b] EXCEPT !.row = row, !.pc = pc]
  <2>1. /\ req[b] \in Request /\ Carries(req[b])
        /\ req[b].pc \in {"toggle_load", "delete_load"}
        /\ OtherAccount(b)
    BY <1>2 DEF LoadTarget, AccountsInv, TypeOK
  <2>2. req[b].target \in AdminIds
    BY <2>1 DEF Request, Carries
  <2>3. req' = [req EXCEPT ![b] = r]
    BY <1>2 DEF LoadTarget
  <2>4. pc \in {"toggle", "delete_apps"} /\ row \in AdminRow /\ row # Null
    BY <2>1, <2>2, NullAssumption DEF OtherAccount, AccountsInv, TypeOK
  <2> HIDE DEF pc, row
  <2>5. /\ r \in Request /\ r.pc = pc /\ r.target = req[b].target /\ r.id = req[b].id
        /\ r.row = row
    BY <2>1, <2>2, <2>4 DEF Request
  <2> HIDE DEF r
  <2>6. Carries(r)
    BY <2>1, <2>2, <2>5, <2>4, AccountsAssumption DEF Carries, OtherAccount
  <2> QED BY <2>5, <2>3, <2>6, GoesOn DEF LoadTarget
<1> QED BY <1>1, <1>2

LEMMA LoadGrantsStep ==
    ASSUME AccountsInv, NEW b \in Browsers, LoadGrants(b) PROVE AccountsInv'
<1> DEFINE r == [req[b] EXCEPT !.pc = "delete", !.held = GrantsOf(req[b].target)]
<1>1. req[b] \in Request /\ Carries(req[b]) /\ req[b].pc = "delete_apps"
  BY DEF LoadGrants, AccountsInv, TypeOK
<1>2. /\ r \in Request /\ r.pc = "delete" /\ r.target = req[b].target
      /\ r.id = req[b].id
  BY <1>1 DEF Request, GrantsOf
<1>3. req' = [req EXCEPT ![b] = r]
  BY DEF LoadGrants
<1> HIDE DEF r
<1>4. Carries(r)
  BY <1>1, <1>2 DEF Carries
<1> QED BY <1>2, <1>3, <1>4, GoesOn DEF LoadGrants

-----------------------------------------------------------------------------
(* Commits                                                                 *)

LEMMA InsertStep == ASSUME AccountsInv, NEW b \in Browsers, Insert(b) PROVE AccountsInv'
<1>1. req[b] \in Request /\ Carries(req[b]) /\ req[b].pc = "insert"
  BY DEF Insert, AccountsInv, TypeOK
<1>2. req[b].row \in AdminRow /\ req[b].picks \subseteq AppIds
  BY <1>1 DEF Request, Carries
<1>3. /\ admins' \in [AdminIds -> AdminRow \cup {Null}]
      /\ grants' \subseteq AdminIds \X AppIds
  <2>1. CASE UNCHANGED <<admins, grants>>
    BY <2>1 DEF AccountsInv, TypeOK
  <2>2. CASE \E i \in NextId(AdminIds, Used(admins)) :
               /\ admins' = [admins EXCEPT ![i] = req[b].row]
               /\ grants' = grants \cup ({i} \X req[b].picks)
    BY <1>2, <2>2 DEF AccountsInv, TypeOK, NextId
  <2> QED BY <2>1, <2>2 DEF Insert
<1> QED BY <1>3, Answers DEF Insert, AccountsInv, TypeOK, Used

LEMMA ReplaceStep == ASSUME AccountsInv, NEW b \in Browsers, Replace(b) PROVE AccountsInv'
<1>1. req[b] \in Request /\ Carries(req[b]) /\ req[b].pc = "replace"
  BY DEF Replace, AccountsInv, TypeOK
<1>2. req[b].target \in AdminIds /\ req[b].picks \subseteq AppIds
  BY <1>1 DEF Request, Carries
<1>3. grants' \subseteq AdminIds \X AppIds
  BY <1>2 DEF Replace, AccountsInv, TypeOK
<1> QED BY <1>3, Answers DEF Replace, AccountsInv, TypeOK, Used

LEMMA ToggleStep == ASSUME AccountsInv, NEW b \in Browsers, Toggle(b) PROVE AccountsInv'
<1> DEFINE i == req[b].target
           on == ~req[b].row.active
<1>1. req[b] \in Request /\ Carries(req[b]) /\ req[b].pc = "toggle"
  BY DEF Toggle, AccountsInv, TypeOK
<1>2. i \in AdminIds /\ on \in BOOLEAN
  BY <1>1 DEF Request, Carries, AdminRow
<1>3. /\ admins \in [AdminIds -> AdminRow \cup {Null}]
      /\ admins' = IF admins[i] = Null THEN admins ELSE [admins EXCEPT ![i].active = on]
  BY DEF Toggle, AccountsInv, TypeOK
<1> HIDE DEF i, on
<1>4. admins' \in [AdminIds -> AdminRow \cup {Null}]
  <2>1. CASE admins[i] # Null
    <3>1. [admins[i] EXCEPT !.active = on] \in AdminRow
      BY <1>2, <1>3, <2>1 DEF AdminRow
    <3> QED BY <1>2, <1>3, <2>1, <3>1
  <2> QED BY <1>3, <2>1
<1> QED BY <1>4, Answers DEF Toggle, AccountsInv, TypeOK, Used

LEMMA DeleteStep == ASSUME AccountsInv, NEW b \in Browsers, Delete(b) PROVE AccountsInv'
<1>1. admins' \in [AdminIds -> AdminRow \cup {Null}] /\ grants' \subseteq AdminIds \X AppIds
  BY DEF Delete, AccountsInv, TypeOK
<1> QED BY <1>1, Answers DEF Delete, AccountsInv, TypeOK, Used

LEMMA IssueCardStep ==
    ASSUME AccountsInv, NEW b \in Browsers, IssueCard(b) PROVE AccountsInv'
<1>1. req[b] \in Request /\ Carries(req[b]) /\ req[b].pc = "issue"
  BY DEF IssueCard, AccountsInv, TypeOK
<1> DEFINE row == [app |-> req[b].app, by |-> Issuer(req[b].me)]
<1>2. row \in CardRow /\ row.by # Null
  BY <1>1, AccountsAssumption DEF Request, Carries, Issuer, AdminRow, CardRow
<1>3. CASE UNCHANGED cards
  BY <1>3, Answers DEF IssueCard, AccountsInv, TypeOK, Used
<1>4. CASE \E c \in NextId(CardIds, Used(cards)) : cards' = [cards EXCEPT ![c] = row]
  <2>1. PICK c \in CardIds : cards' = [cards EXCEPT ![c] = row]
    BY <1>4 DEF NextId
  <2> HIDE DEF row
  <2>2. cards' \in [CardIds -> CardRow \cup {Null}]
    BY <1>2, <2>1 DEF AccountsInv, TypeOK
  <2>3. \A d \in Used(cards)' : cards'[d].by = Null => cards'[d].app = Null
    BY <1>2, <2>1 DEF AccountsInv, TypeOK, Used
  <2> QED BY <2>2, <2>3, Answers DEF IssueCard, AccountsInv, TypeOK
<1> QED BY <1>3, <1>4 DEF IssueCard

LEMMA ActOnCardStep ==
    ASSUME AccountsInv, NEW b \in Browsers, ActOnCard(b) PROVE AccountsInv'
<1>1. cards' \in [CardIds -> CardRow \cup {Null}]
  BY DEF ActOnCard, AccountsInv, TypeOK
<1>2. \A d \in Used(cards)' : d \in Used(cards) /\ cards'[d] = cards[d]
  BY <1>1 DEF ActOnCard, AccountsInv, TypeOK, Used
<1>3. \A d \in Used(cards)' : cards'[d].by = Null => cards'[d].app = Null
  BY <1>2 DEF AccountsInv, TypeOK
<1> QED BY <1>1, <1>3, Answers DEF ActOnCard, AccountsInv, TypeOK

-----------------------------------------------------------------------------
(* Pages of cards, and what happens around the accounts                    *)

LEMMA IssueScopeStep ==
    ASSUME AccountsInv, NEW b \in Browsers, IssueScope(b) PROVE AccountsInv'
<1> DEFINE r == [req[b] EXCEPT !.pc = "issue"]
<1>1. req[b] \in Request /\ Carries(req[b]) /\ req[b].pc = "app"
  BY DEF IssueScope, AccountsInv, TypeOK
<1>2. r \in Request /\ r.pc = "issue" /\ r.app = req[b].app /\ r.me = req[b].me
  BY <1>1 DEF Request
<1>3. CASE Answer(b)
  BY <1>3, Refuses DEF IssueScope
<1>4. CASE req' = [req EXCEPT ![b] = r]
  <2> HIDE DEF r
  <2>1. Carries(r)
    BY <1>1, <1>2 DEF Carries
  <2> QED BY <1>2, <1>4, <2>1, GoesOn DEF IssueScope
<1> QED BY <1>3, <1>4 DEF IssueScope

LEMMA LoadCardStep ==
    ASSUME AccountsInv, NEW b \in Browsers, LoadCard(b) PROVE AccountsInv'
<1> DEFINE row == cards[req[b].card]
           r   == [req[b] EXCEPT !.pc = "scope", !.crow = row]
<1>1. req[b] \in Request /\ Carries(req[b]) /\ req[b].pc = "card"
  BY DEF LoadCard, AccountsInv, TypeOK
<1>2. CASE Answer(b)
  BY <1>2, Refuses DEF LoadCard
<1>3. CASE req' = [req EXCEPT ![b] = r]
  <2>1. row \in CardRow \cup {Null}
    BY <1>1 DEF Request, Carries, AccountsInv, TypeOK
  <2> HIDE DEF row
  <2>2. r \in Request /\ r.pc = "scope" /\ r.card = req[b].card /\ r.me = req[b].me
    BY <1>1, <2>1 DEF Request
  <2> HIDE DEF r
  <2>3. Carries(r)
    BY <1>1, <2>2 DEF Carries
  <2> QED BY <1>3, <2>2, <2>3, GoesOn DEF LoadCard
<1> QED BY <1>2, <1>3 DEF LoadCard

LEMMA ScopeCardStep ==
    ASSUME AccountsInv, NEW b \in Browsers, ScopeCard(b) PROVE AccountsInv'
<1> DEFINE r == [req[b] EXCEPT !.pc = "act"]
<1>1. req[b] \in Request /\ Carries(req[b]) /\ req[b].pc = "scope"
  BY DEF ScopeCard, AccountsInv, TypeOK
<1>2. r \in Request /\ r.pc = "act" /\ r.card = req[b].card /\ r.me = req[b].me
  BY <1>1 DEF Request
<1>3. CASE Answer(b)
  BY <1>3, Refuses DEF ScopeCard
<1>4. CASE req' = [req EXCEPT ![b] = r]
  <2> HIDE DEF r
  <2>1. Carries(r)
    BY <1>1, <1>2 DEF Carries
  <2> QED BY <1>2, <1>4, <2>1, GoesOn DEF ScopeCard
<1> QED BY <1>3, <1>4 DEF ScopeCard

LEMMA CreateStartStep ==
    ASSUME AccountsInv, NEW b \in Browsers, NEW row \in AdminRow,
           NEW picks \in SUBSET AppIds, CreateStart(b, row, picks)
    PROVE  AccountsInv'
<1> DEFINE p == IF row.role = "operator" THEN picks ELSE {}
           r == [Idle EXCEPT !.pc = "name", !.row = row, !.picks = p]
<1>1. p \in SUBSET AppIds
  OBVIOUS
<1>2. Enter(b, r)
  BY DEF CreateStart, EnterSuper
<1> HIDE DEF p
<1>3. r \in Request /\ r.pc = "name" /\ r.target = Null /\ r.row = row
  BY <1>1 DEF Request, Idle
<1> HIDE DEF r
<1> QED BY <1>2, <1>3, NullAssumption, Enters

LEMMA TargetStart ==
    ASSUME AccountsInv, NEW b \in Browsers, NEW i \in AdminIds,
           NEW picks \in SUBSET AppIds,
           \/ SetAppsStart(b, i, picks)
           \/ ToggleStart(b, i)
           \/ DeleteStart(b, i)
    PROVE  AccountsInv'
<1>1. i # Null
  BY AccountsAssumption
<1>2. CASE SetAppsStart(b, i, picks)
  <2> DEFINE r == [Idle EXCEPT !.pc = "target", !.target = i, !.picks = picks]
  <2>1. Enter(b, r)
    BY <1>2 DEF SetAppsStart, EnterSuper
  <2>2. r \in Request /\ r.pc = "target" /\ r.target = i
    BY DEF Request, Idle
  <2> HIDE DEF r
  <2> QED BY <1>1, <2>1, <2>2, Enters
<1>3. CASE ToggleStart(b, i)
  <2> DEFINE r == [Idle EXCEPT !.pc = "toggle_load", !.target = i]
  <2>1. Enter(b, r)
    BY <1>3 DEF ToggleStart, EnterSuper
  <2>2. r \in Request /\ r.pc = "toggle_load" /\ r.target = i
    BY DEF Request, Idle
  <2> HIDE DEF r
  <2> QED BY <1>1, <2>1, <2>2, Enters
<1>4. CASE DeleteStart(b, i)
  <2> DEFINE r == [Idle EXCEPT !.pc = "delete_load", !.target = i]
  <2>1. Enter(b, r)
    BY <1>4 DEF DeleteStart, EnterSuper
  <2>2. r \in Request /\ r.pc = "delete_load" /\ r.target = i
    BY DEF Request, Idle
  <2> HIDE DEF r
  <2> QED BY <1>1, <2>1, <2>2, Enters
<1> QED BY <1>2, <1>3, <1>4

LEMMA CardPageStart ==
    ASSUME AccountsInv, NEW b \in Browsers,
           \/ \E a \in AppIds : IssueStart(b, a)
           \/ \E c \in CardIds : CardStart(b, c)
    PROVE  AccountsInv'
<1>1. CASE \E a \in AppIds : IssueStart(b, a)
  <2>1. PICK a \in AppIds : IssueStart(b, a)
    BY <1>1
  <2> DEFINE r == [Idle EXCEPT !.pc = "app", !.app = a]
  <2>2. r \in Request /\ r.pc = "app" /\ r.app = a
    BY DEF Request, Idle
  <2>3. Enter(b, r) /\ a # Null
    BY <2>1, AccountsAssumption DEF IssueStart
  <2> HIDE DEF r
  <2> QED BY <2>2, <2>3, Enters
<1>2. CASE \E c \in CardIds : CardStart(b, c)
  <2>1. PICK c \in CardIds : CardStart(b, c)
    BY <1>2
  <2> DEFINE r == [Idle EXCEPT !.pc = "card", !.card = c]
  <2>2. r \in Request /\ r.pc = "card" /\ r.card = c
    BY DEF Request, Idle
  <2>3. Enter(b, r) /\ c # Null
    BY <2>1, AccountsAssumption DEF CardStart
  <2> HIDE DEF r
  <2> QED BY <2>2, <2>3, Enters
<1> QED BY <1>1, <1>2

LEMMA DeleteAppStep == ASSUME AccountsInv, NEW a \in AppIds, DeleteApp(a) PROVE AccountsInv'
<1>1. /\ cards' \in [CardIds -> CardRow \cup {Null}]
      /\ \A c \in Used(cards)' : cards'[c].by = Null => cards'[c].app = Null
  <2>1. \A c \in Used(cards) :
           /\ [cards[c] EXCEPT !.app = Null] \in CardRow
           /\ [cards[c] EXCEPT !.app = Null].by = cards[c].by
           /\ [cards[c] EXCEPT !.app = Null].app = Null
    BY DEF AccountsInv, TypeOK, Used, CardRow
  <2> QED BY <2>1, NullAssumption DEF DeleteApp, AccountsInv, TypeOK, Used
<1> QED BY <1>1 DEF DeleteApp, AccountsInv, TypeOK

LEMMA BootstrapTypes ==
    ASSUME NEW table \in [AdminIds -> AdminRow \cup {Null}]
    PROVE  Bootstrap(table) \in [AdminIds -> AdminRow \cup {Null}]
<1>1. FirstAdmin \in AdminRow
  BY AccountsAssumption DEF FirstAdmin, AdminRow
<1> QED BY <1>1, AccountsAssumption DEF Bootstrap

LEMMA RestartStep == ASSUME AccountsInv, Restart PROVE AccountsInv'
<1>1. admins' \in [AdminIds -> AdminRow \cup {Null}]
  BY BootstrapTypes DEF Restart, AccountsInv, TypeOK
<1>2. req' \in [Browsers -> Request] /\ \A b \in Browsers : Carries(req'[b])
  BY IdleIsRequest DEF Restart
<1> QED BY <1>1, <1>2 DEF Restart, AccountsInv, TypeOK, Used

-----------------------------------------------------------------------------
LEMMA InitInv == Init => AccountsInv
<1> SUFFICES ASSUME Init PROVE AccountsInv
  OBVIOUS
<1>1. admins \in [AdminIds -> AdminRow \cup {Null}]
  BY BootstrapTypes DEF Init
<1>2. /\ cards \in [CardIds -> CardRow \cup {Null}]
      /\ \A c \in Used(cards) : cards[c].by = Null => cards[c].app = Null
  <2>1. [app |-> Null, by |-> Null] \in CardRow
    BY DEF CardRow
  <2> QED BY <2>1, NullAssumption DEF Init, Used
<1> QED BY <1>1, <1>2, IdleIsRequest DEF Init, AccountsInv, TypeOK

LEMMA NextInv == AccountsInv /\ [Next]_vars => AccountsInv'
<1> SUFFICES ASSUME AccountsInv, [Next]_vars PROVE AccountsInv'
  OBVIOUS
<1>1. ASSUME NEW b \in Browsers, Manage(b) PROVE AccountsInv'
  BY <1>1, CreateStartStep, TargetStart, FindNameStep, PickAppsStep, InsertStep,
     SetAppsTargetStep, LoadOldStep, ReplaceStep, LoadTargetStep, ToggleStep,
     LoadGrantsStep, DeleteStep DEF Manage
<1>2. ASSUME NEW b \in Browsers, Work(b) PROVE AccountsInv'
  BY <1>2, CardPageStart, IssueScopeStep, IssueCardStep, LoadCardStep, ScopeCardStep,
     ActOnCardStep DEF Work
<1>3. ASSUME NEW b \in Browsers, Abort(b) PROVE AccountsInv'
  BY <1>3, Refuses DEF Abort
<1>4. CASE CreateApp
  BY <1>4 DEF CreateApp, NextId, AccountsInv, TypeOK, Used
<1>5. CASE UNCHANGED vars
  BY <1>5 DEF vars, AccountsInv, TypeOK, Used
<1> QED BY <1>1, <1>2, <1>3, <1>4, <1>5, SessionStep, DeleteAppStep, RestartStep DEF Next

\* The actions that write the accounts.
LEMMA OnlyTheseWriteAdmins ==
    ASSUME [Next]_vars
    PROVE  \/ UNCHANGED admins
           \/ Restart
           \/ \E b \in Browsers : Insert(b) \/ Toggle(b) \/ Delete(b)
<1>1. ASSUME NEW b \in Browsers, Session(b) PROVE UNCHANGED admins
  BY <1>1 DEF Session, LoginRead, LoginCommit, Logout, Open, Bounce, Dashboard, LoginPage
<1>2. ASSUME NEW b \in Browsers, Manage(b)
      PROVE  UNCHANGED admins \/ Insert(b) \/ Toggle(b) \/ Delete(b)
  BY <1>2 DEF Manage, CreateStart, FindName, PickApps, SetAppsStart, SetAppsTarget, LoadOld,
     Replace, ToggleStart, DeleteStart, LoadTarget, LoadGrants, EnterSuper, Enter
<1>3. ASSUME NEW b \in Browsers, Work(b) \/ Abort(b) PROVE UNCHANGED admins
  BY <1>3 DEF Work, IssueStart, IssueScope, IssueCard, CardStart, LoadCard, ScopeCard,
     ActOnCard, Abort, Enter
<1>4. CASE CreateApp \/ (\E a \in AppIds : DeleteApp(a)) \/ UNCHANGED vars
  BY <1>4 DEF CreateApp, DeleteApp, vars
<1> QED BY <1>1, <1>2, <1>3, <1>4 DEF Next

\* Accounts, grants, cards and requests keep their shape, and only cards
\* from before the columns were there lack an issuer.
THEOREM AccountTypes == Spec => []TypeOK
<1>1. AccountsInv => TypeOK
  BY DEF AccountsInv
<1> QED BY InitInv, NextInv, <1>1, PTL DEF Spec

\* The lists show what the pages open: NULL, an empty set of grants and the
\* two spellings of the rules make no difference.
THEOREM ListsFollowScope == Spec => []ListsAgree
<1>1. AccountsInv => ListsAgree
  <2> SUFFICES ASSUME AccountsInv, NEW i \in Used(admins)
               PROVE  /\ \A c \in Used(cards) :
                            Listed(admins[i], GrantsOf(i), cards[c]) <=>
                               CanAccessCard(admins[i], GrantsOf(i), cards[c])
                      /\ VisibleApps(admins[i], GrantsOf(i)) =
                            {a \in apps : CanAccessApp(admins[i], GrantsOf(i), a)}
    BY DEF ListsAgree
  <2>1. Null \notin GrantsOf(i)
    BY AccountsAssumption DEF GrantsOf
  <2> QED BY <2>1 DEF Listed, CanAccessCard, CanAccessApp, VisibleApps
<1> QED BY InitInv, NextInv, <1>1, PTL DEF Spec

-----------------------------------------------------------------------------
(* Names                                                                   *)

\* No two accounts share a name, over deletions and ids given again.
THEOREM NamesAreUnique == Spec => []NamesDiffer
<1>1. Init => NamesDiffer
  BY DEF Init, Bootstrap, Used, NamesDiffer
<1>2. AccountsInv /\ NamesDiffer /\ [Next]_vars => NamesDiffer'
  <2> SUFFICES ASSUME AccountsInv, NamesDiffer, [Next]_vars PROVE NamesDiffer'
    OBVIOUS
  <2>1. CASE UNCHANGED admins
    BY <2>1 DEF NamesDiffer, Used
  <2>2. ASSUME NEW b \in Browsers, Insert(b), ~UNCHANGED admins PROVE NamesDiffer'
    <3>1. PICK i \in NextId(AdminIds, Used(admins)) :
             admins' = [admins EXCEPT ![i] = req[b].row]
      BY <2>2 DEF Insert
    <3>2. NameIsNew(req[b].row.name)
      BY <2>2 DEF Insert
    <3> QED BY <3>1, <3>2 DEF NamesDiffer, NameIsNew, Used, AccountsInv, TypeOK
  <2>3. ASSUME NEW b \in Browsers, Toggle(b) PROVE NamesDiffer'
    <3>1. \A i \in Used(admins)' : i \in Used(admins) /\ admins'[i].name = admins[i].name
      BY <2>3 DEF Toggle, Used, AccountsInv, TypeOK, AdminRow
    <3> QED BY <3>1 DEF NamesDiffer
  <2>4. ASSUME NEW b \in Browsers, Delete(b) PROVE NamesDiffer'
    BY <2>4 DEF Delete, NamesDiffer, Used, AccountsInv, TypeOK
  <2>5. CASE Restart
    BY <2>5 DEF Restart, Bootstrap, NamesDiffer, Used, AccountsInv, TypeOK
  <2>6. \/ UNCHANGED admins
        \/ Restart
        \/ \E b \in Browsers : Insert(b) \/ Toggle(b) \/ Delete(b)
    BY OnlyTheseWriteAdmins
  <2> QED BY <2>1, <2>2, <2>3, <2>4, <2>5, <2>6
<1> QED BY InitInv, NextInv, <1>1, <1>2, PTL DEF Spec

-----------------------------------------------------------------------------
(* Grants                                                                  *)

\* The actions that write the accounts, the grants or the applications.
LEMMA OnlyTheseWriteGrants ==
    ASSUME [Next]_vars
    PROVE  \/ UNCHANGED <<admins, grants, apps>>
           \/ Restart \/ CreateApp \/ \E a \in AppIds : DeleteApp(a)
           \/ \E b \in Browsers : Insert(b) \/ Replace(b) \/ Toggle(b) \/ Delete(b)
<1>1. ASSUME NEW b \in Browsers, Session(b) PROVE UNCHANGED <<admins, grants, apps>>
  BY <1>1 DEF Session, LoginRead, LoginCommit, Logout, Open, Bounce, Dashboard, LoginPage
<1>2. ASSUME NEW b \in Browsers, Manage(b)
      PROVE  \/ UNCHANGED <<admins, grants, apps>>
             \/ Insert(b) \/ Replace(b) \/ Toggle(b) \/ Delete(b)
  BY <1>2 DEF Manage, CreateStart, FindName, PickApps, SetAppsStart, SetAppsTarget, LoadOld,
     ToggleStart, DeleteStart, LoadTarget, LoadGrants, EnterSuper, Enter
<1>3. ASSUME NEW b \in Browsers, Work(b) \/ Abort(b)
      PROVE  UNCHANGED <<admins, grants, apps>>
  BY <1>3 DEF Work, IssueStart, IssueScope, IssueCard, CardStart, LoadCard, ScopeCard,
     ActOnCard, Abort, Enter
<1>4. CASE UNCHANGED vars
  BY <1>4 DEF vars
<1> QED BY <1>1, <1>2, <1>3, <1>4 DEF Next

\* An account that is switched on or off is still there.
LEMMA ToggleKeepsAccounts ==
    ASSUME AccountsInv, NEW b \in Browsers, Toggle(b)
    PROVE  /\ Used(admins)' = Used(admins)
           /\ \A i \in AdminIds \ {req[b].target} : admins'[i] = admins[i]
<1> DEFINE t  == req[b].target
           on == ~req[b].row.active
<1>1. /\ req[b] \in Request /\ Carries(req[b]) /\ req[b].pc = "toggle"
      /\ admins \in [AdminIds -> AdminRow \cup {Null}]
  BY DEF Toggle, AccountsInv, TypeOK
<1>2. t \in AdminIds /\ on \in BOOLEAN
  BY <1>1 DEF Request, Carries, AdminRow
<1>3. admins' = IF admins[t] = Null THEN admins ELSE [admins EXCEPT ![t].active = on]
  BY DEF Toggle
<1> HIDE DEF t, on
<1>4. \A i \in AdminIds \ {t} : admins'[i] = admins[i]
  BY <1>1, <1>2, <1>3
<1>5. DOMAIN admins' = AdminIds /\ (admins'[t] = Null <=> admins[t] = Null)
  <2>1. CASE admins[t] # Null
    <3>1. [admins[t] EXCEPT !.active = on] \in AdminRow
      BY <1>1, <1>2, <2>1 DEF AdminRow
    <3> QED BY <1>1, <1>2, <1>3, <2>1, <3>1, NullAssumption
  <2> QED BY <1>1, <1>3, <2>1
<1> QED BY <1>1, <1>4, <1>5 DEF Used, t

LEMMA InsertBelongs ==
    ASSUME AccountsInv, GrantsBelong, NEW b \in Browsers, Insert(b)
    PROVE  GrantsBelong'
<1>1. req[b] \in Request /\ Carries(req[b]) /\ req[b].pc = "insert"
  BY DEF Insert, AccountsInv, TypeOK
<1>2. req[b].row \in AdminRow /\ req[b].row # Null
  BY <1>1, NullAssumption DEF Request, Carries
<1>3. CASE UNCHANGED <<admins, grants>>
  BY <1>3 DEF Insert, GrantsBelong
<1>4. CASE \E i \in NextId(AdminIds, Used(admins)) :
              /\ admins' = [admins EXCEPT ![i] = req[b].row]
              /\ grants' = grants \cup ({i} \X req[b].picks)
              /\ req[b].picks \subseteq apps
  <2>1. PICK i \in AdminIds : /\ admins' = [admins EXCEPT ![i] = req[b].row]
                              /\ grants' = grants \cup ({i} \X req[b].picks)
                              /\ req[b].picks \subseteq apps
    BY <1>4 DEF NextId
  <2>2. \A j \in AdminIds : admins[j] # Null => admins'[j] # Null
    BY <1>2, <2>1 DEF AccountsInv, TypeOK
  <2>3. admins'[i] # Null /\ apps' = apps
    BY <1>2, <2>1 DEF Insert, AccountsInv, TypeOK
  <2> QED BY <2>1, <2>2, <2>3 DEF GrantsBelong, AccountsInv, TypeOK
<1> QED BY <1>3, <1>4 DEF Insert

LEMMA ReplaceBelongs ==
    ASSUME AccountsInv, GrantsBelong, NEW b \in Browsers, Replace(b)
    PROVE  GrantsBelong'
<1> DEFINE new == req[b].picks \ req[b].held
<1>1. CASE ~CanReplace(b)
  BY <1>1 DEF Replace, GrantsBelong
<1>2. CASE CanReplace(b)
  <2>1. grants' \subseteq grants \cup ({req[b].target} \X new)
    BY <1>2 DEF Replace
  <2>2. \A a \in new : admins[req[b].target] # Null /\ a \in apps
    BY <1>2 DEF CanReplace
  <2> QED BY <2>1, <2>2 DEF Replace, GrantsBelong
<1> QED BY <1>1, <1>2

\* No grant outlives its account or its application, whatever overlaps and
\* whichever id is given again.
THEOREM GrantsHaveBothEnds == Spec => []GrantsBelong
<1>1. Init => GrantsBelong
  BY DEF Init, GrantsBelong
<1>2. AccountsInv /\ GrantsBelong /\ [Next]_vars => GrantsBelong'
  <2> SUFFICES ASSUME AccountsInv, GrantsBelong, [Next]_vars PROVE GrantsBelong'
    OBVIOUS
  <2>1. CASE UNCHANGED <<admins, grants, apps>>
    BY <2>1 DEF GrantsBelong
  <2>2. CASE Restart
    BY <2>2 DEF Restart, Bootstrap, Used, GrantsBelong, AccountsInv, TypeOK
  <2>3. CASE CreateApp
    BY <2>3 DEF CreateApp, GrantsBelong
  <2>4. ASSUME NEW a \in AppIds, DeleteApp(a) PROVE GrantsBelong'
    BY <2>4 DEF DeleteApp, GrantsBelong, AccountsInv, TypeOK
  <2>5. ASSUME NEW b \in Browsers, Toggle(b) PROVE GrantsBelong'
    <3>1. UNCHANGED <<grants, apps>> /\ \A i \in Used(admins) : i \in Used(admins)'
      BY <2>5, ToggleKeepsAccounts DEF Toggle
    <3> QED BY <3>1 DEF GrantsBelong, Used, AccountsInv, TypeOK
  <2>6. ASSUME NEW b \in Browsers, Delete(b) PROVE GrantsBelong'
    BY <2>6 DEF Delete, GrantsToDelete, GrantsBelong, AccountsInv, TypeOK
  <2> QED BY <2>1, <2>2, <2>3, <2>4, <2>5, <2>6, InsertBelongs, ReplaceBelongs,
             OnlyTheseWriteGrants
<1> QED BY InitInv, NextInv, <1>1, <1>2, PTL DEF Spec

-----------------------------------------------------------------------------
(* The last super account                                                  *)

\* Only a request of an account that has itself been disabled or deleted can
\* take the last working super account.
THEOREM LastSuperGoesByOverlap == Spec => LastSuperByOverlap
<1> DEFINE Lost == ActiveSupers(admins) # {} /\ ActiveSupers(admins)' = {}
           Overtaken == \E b \in Browsers : /\ req[b].pc \in {"toggle", "delete"}
                                            /\ req[b].id \notin ActiveSupers(admins)
<1>1. AccountsInv /\ [Next]_vars => [Lost => Overtaken]_vars
  <2> SUFFICES ASSUME AccountsInv, [Next]_vars, Lost PROVE Overtaken
    OBVIOUS
  <2> PICK s \in ActiveSupers(admins) : TRUE
    OBVIOUS
  <2>1. s \in AdminIds /\ admins[s] # Null /\ DOMAIN admins = AdminIds
    BY DEF ActiveSupers, Used, AccountsInv, TypeOK
  <2>2. \A i \in ActiveSupers(admins) :
           ~(DOMAIN admins' = AdminIds /\ admins'[i] = admins[i])
    BY <2>1 DEF ActiveSupers, Used
  <2>3. CASE UNCHANGED admins \/ Restart
    <3>1. admins' = admins
      BY <2>1, <2>3 DEF Restart, Bootstrap, Used
    <3> QED BY <3>1, <2>1, <2>2
  <2>4. ASSUME NEW b \in Browsers, Insert(b) PROVE FALSE
    <3>1. CASE UNCHANGED admins
      BY <3>1, <2>1, <2>2
    <3>2. CASE \E i \in NextId(AdminIds, Used(admins)) :
                  admins' = [admins EXCEPT ![i] = req[b].row]
      <4>1. PICK i \in NextId(AdminIds, Used(admins)) :
               admins' = [admins EXCEPT ![i] = req[b].row]
        BY <3>2
      <4>2. i # s
        BY <2>1, <4>1, AccountsAssumption DEF NextId, Used
      <4> QED BY <2>1, <2>2, <4>1, <4>2
    <3> QED BY <2>4, <3>1, <3>2 DEF Insert
  <2>5. ASSUME NEW b \in Browsers, Toggle(b) \/ Delete(b) PROVE Overtaken
    <3>1. /\ req[b].pc \in {"toggle", "delete"} /\ req[b].target # req[b].id
      BY <2>5 DEF Toggle, Delete, AccountsInv, Carries
    <3>2. \A i \in AdminIds \ {req[b].target} : admins'[i] = admins[i]
      BY <2>5, <2>1, ToggleKeepsAccounts DEF Delete
    <3>3. DOMAIN admins' = AdminIds
      BY NextInv DEF AccountsInv, TypeOK
    <3>4. req[b].id \notin ActiveSupers(admins)
      BY <2>1, <2>2, <3>1, <3>2, <3>3 DEF ActiveSupers, Used
    <3> QED BY <3>1, <3>4
  <2> QED BY <2>3, <2>4, <2>5, OnlyTheseWriteAdmins
<1> QED BY <1>1, InitInv, NextInv, PTL DEF Spec, LastSuperByOverlap

LEMMA AccountsInvHolds == Spec => []AccountsInv
BY InitInv, NextInv, PTL DEF Spec

-----------------------------------------------------------------------------
(* The overlaps that matter to forms and to operators.  Each of the two     *)
(* claims holds however many requests overlap, if the steps named before    *)
(* it do not come between.                                                 *)

Serve(b) == Session(b) \/ Manage(b) \/ Work(b) \/ Abort(b)

\* A step for one browser leaves the requests of the others, and none of
\* those that change an application or the process serves a browser.
LEMMA ServesOne ==
    ASSUME AccountsInv, NEW b \in Browsers, Serve(b), NEW c \in Browsers, c # b
    PROVE  req'[c] = req[c]
<1>0. req \in [Browsers -> Request]
  BY DEF AccountsInv, TypeOK
<1>1. CASE Session(b)
  BY <1>0, <1>1 DEF Session, LoginRead, LoginCommit, Logout, Open, Bounce, Dashboard,
     LoginPage, Answer
<1>2. CASE Manage(b)
  <2>1. CASE \/ \E row \in AdminRow, picks \in SUBSET AppIds :
                   row.active /\ CreateStart(b, row, picks)
             \/ \E i \in AdminIds, picks \in SUBSET AppIds : SetAppsStart(b, i, picks)
             \/ \E i \in AdminIds : ToggleStart(b, i) \/ DeleteStart(b, i)
    BY <1>0, <2>1 DEF CreateStart, SetAppsStart, ToggleStart, DeleteStart, EnterSuper, Enter
  <2>2. CASE \/ FindName(b) \/ PickApps(b) \/ SetAppsTarget(b) \/ LoadOld(b)
             \/ LoadTarget(b) \/ LoadGrants(b)
    BY <1>0, <2>2 DEF FindName, PickApps, SetAppsTarget, LoadOld, LoadTarget, LoadGrants, Answer
  <2>3. CASE Insert(b) \/ Replace(b) \/ Toggle(b) \/ Delete(b)
    BY <1>0, <2>3 DEF Insert, Replace, Toggle, Delete, Answer
  <2> QED BY <1>2, <2>1, <2>2, <2>3 DEF Manage
<1>3. CASE Work(b) \/ Abort(b)
  BY <1>0, <1>3 DEF Work, IssueStart, IssueScope, IssueCard, CardStart, LoadCard,
     ScopeCard, ActOnCard, Abort, Enter, Answer
<1> QED BY <1>1, <1>2, <1>3 DEF Serve

\* A request changes by a step of its own, or ends with the process.
LEMMA RequestMoves ==
    ASSUME AccountsInv, [Next]_vars, NEW b \in Browsers
    PROVE  req'[b] = req[b] \/ Serve(b) \/ req'[b].pc = "idle"
<1>1. CASE UNCHANGED vars \/ CreateApp \/ \E a \in AppIds : DeleteApp(a)
  BY <1>1 DEF vars, CreateApp, DeleteApp
<1>2. CASE Restart
  BY <1>2 DEF Restart, Idle
<1>3. ASSUME NEW c \in Browsers, Serve(c) PROVE req'[b] = req[b] \/ Serve(b)
  BY <1>3, ServesOne
<1> QED BY <1>1, <1>2, <1>3 DEF Next, Serve

\* Points of a request at which it relies on what it has read.
Relying == {"app", "issue", "card", "scope", "act", "pick", "old", "replace"}

\* How a request comes to such a point.
LEMMA ManageArrives ==
    ASSUME AccountsInv, NEW b \in Browsers, Manage(b), req'[b].pc \in Relying
    PROVE  FindName(b) \/ SetAppsTarget(b) \/ PickApps(b) \/ LoadOld(b)
<1> DEFINE r == req[b]
<1>0. r \in Request /\ req \in [Browsers -> Request]
  BY DEF AccountsInv, TypeOK
<1>1. CASE \E row \in AdminRow, picks \in SUBSET AppIds : CreateStart(b, row, picks)
  BY <1>0, <1>1 DEF CreateStart, EnterSuper, Enter, Idle, Relying
<1>2. CASE \E i \in AdminIds, picks \in SUBSET AppIds : SetAppsStart(b, i, picks)
  BY <1>0, <1>2 DEF SetAppsStart, EnterSuper, Enter, Idle, Relying
<1>3. CASE \E i \in AdminIds : ToggleStart(b, i)
  BY <1>0, <1>3 DEF ToggleStart, EnterSuper, Enter, Idle, Relying
<1>4. CASE \E i \in AdminIds : DeleteStart(b, i)
  BY <1>0, <1>4 DEF DeleteStart, EnterSuper, Enter, Idle, Relying
<1>5. CASE LoadTarget(b) \/ LoadGrants(b)
  BY <1>0, <1>5 DEF LoadTarget, LoadGrants, Answer, Idle, Request, Relying
<1>6. CASE Insert(b) \/ Replace(b) \/ Toggle(b) \/ Delete(b)
  BY <1>0, <1>6 DEF Insert, Replace, Toggle, Delete, Answer, Idle, Relying
<1> QED BY <1>1, <1>2, <1>3, <1>4, <1>5, <1>6 DEF Manage

LEMMA Arrives ==
    ASSUME AccountsInv, NEW b \in Browsers, Serve(b), req'[b].pc \in Relying
    PROVE  \/ FindName(b) \/ SetAppsTarget(b) \/ PickApps(b) \/ LoadOld(b)
           \/ \E a \in AppIds : IssueStart(b, a)
           \/ \E c \in CardIds : CardStart(b, c)
           \/ IssueScope(b) \/ LoadCard(b) \/ ScopeCard(b)
           \/ req'[b] = req[b] /\ UNCHANGED Tables
<1>0. req[b] \in Request /\ req \in [Browsers -> Request]
  BY DEF AccountsInv, TypeOK
<1>1. CASE Session(b)
  <2>1. CASE LoginRead(b)
    BY <1>0, <2>1 DEF LoginRead, Idle, Relying
  <2>2. CASE LoginCommit(b) \/ Dashboard(b)
    BY <1>0, <2>2 DEF LoginCommit, Dashboard, Answer, Idle, Relying
  <2>3. CASE Logout(b)
    BY <2>3 DEF Logout, Tables
  <2>4. CASE Open(b) \/ Bounce(b) \/ LoginPage(b)
    BY <1>0, <2>4 DEF Open, Bounce, LoginPage, Request, Relying
  <2> QED BY <1>1, <2>1, <2>2, <2>3, <2>4 DEF Session
<1>2. CASE IssueCard(b) \/ ActOnCard(b) \/ Abort(b)
  BY <1>0, <1>2 DEF IssueCard, ActOnCard, Abort, Answer, Idle, Relying
<1> QED BY <1>1, <1>2, ManageArrives DEF Serve, Work

\* A page of an operator's starts with the account that is there.
LEMMA Entered ==
    ASSUME AccountsInv, NEW b \in Browsers, NEW r \in Request, Enter(b, r)
    PROVE  /\ req'[b].pc = r.pc /\ req'[b].id = cookie[b]
           /\ req'[b].me = admins[cookie[b]] /\ admins[cookie[b]] # Null
           /\ cookie[b] \in AdminIds /\ UNCHANGED Tables
<1> DEFINE e == [r EXCEPT !.id = cookie[b], !.me = admins[cookie[b]]]
<1>1. req'[b] = e /\ admins[cookie[b]] # Null /\ cookie[b] \in AdminIds /\ UNCHANGED Tables
  BY DEF Enter, Authenticated, AccountsInv, TypeOK, Tables
<1>2. e.pc = r.pc /\ e.id = cookie[b] /\ e.me = admins[cookie[b]]
  BY DEF Request
<1> HIDE DEF e
<1> QED BY <1>1, <1>2

-----------------------------------------------------------------------------
(* Forms that replace the applications of an operator                      *)

\* While a form is on its way, nobody else deletes its operator; once it has
\* loaded the collection it replaces, nobody else replaces that, and no
\* application is given the id of one in it that was deleted.
FormsApart ==
    \A b \in Browsers :
        /\ req[b].pc \in {"pick", "old", "replace"} =>
              \A c \in Browsers : c # b /\ Delete(c) => req[c].target # req[b].target
        /\ req[b].pc = "replace" =>
              /\ \A c \in Browsers : c # b /\ Replace(c) => req[c].target # req[b].target
              /\ CreateApp => apps' \cap req[b].held \subseteq apps

\* The operator of a form is there, and of the collection the form loaded its
\* grants lack the applications that were deleted since, nothing else.
Replacing(r) ==
    /\ r.pc \in {"pick", "old", "replace"} /\ r.target # Null => admins[r.target] # Null
    /\ r.pc = "replace" => r.held \cap apps = GrantsOf(r.target)

FormsInv == \A b \in Browsers : Replacing(req[b])

\* What others do.
LEMMA FormWaits ==
    ASSUME AccountsInv, FormsInv, [Next]_vars, [FormsApart]_vars,
           NEW b \in Browsers, req'[b] = req[b],
           req[b].pc \in {"pick", "old", "replace"}, req[b].target # Null
    PROVE  /\ admins'[req[b].target] # Null
           /\ req[b].pc = "replace" =>
                 req[b].held \cap apps' = {a \in AppIds : <<req[b].target, a>> \in grants'}
<1> DEFINE r == req[b]
           i == r.target
           Kept == /\ admins'[i] # Null
                   /\ r.pc = "replace" =>
                         \A a \in AppIds : a \in r.held \cap apps' <=> <<i, a>> \in grants'
<1>0. /\ r \in Request /\ i \in AdminIds /\ admins[i] # Null
      /\ \A a \in AppIds : r.pc = "replace" => (a \in r.held \cap apps <=> <<i, a>> \in grants)
      /\ admins \in [AdminIds -> AdminRow \cup {Null}] /\ apps \subseteq AppIds
      /\ grants \subseteq AdminIds \X AppIds
  BY DEF AccountsInv, TypeOK, Request, FormsInv, Replacing, GrantsOf
<1>1. SUFFICES Kept
  <2>1. apps' \subseteq AppIds
    BY NextInv DEF AccountsInv, TypeOK
  <2> QED BY <1>0, <2>1
<1>2. CASE UNCHANGED <<admins, grants, apps>>
  BY <1>0, <1>2
<1>3. CASE Restart
  BY <1>3 DEF Restart, Idle
<1>4. CASE CreateApp
  <2>1. PICK n \in NextId(AppIds, apps) : apps' = apps \cup {n}
    BY <1>4 DEF CreateApp
  <2>2. n \notin apps
    BY <2>1, AccountsAssumption DEF NextId
  <2>3. r.pc = "replace" => apps' \cap r.held \subseteq apps
    BY <1>4, <2>1, <2>2 DEF FormsApart, vars
  <2> QED BY <1>0, <1>4, <2>1, <2>3 DEF CreateApp
<1>5. ASSUME NEW d \in AppIds, DeleteApp(d) PROVE Kept
  BY <1>0, <1>5 DEF DeleteApp
<1>6. ASSUME NEW c \in Browsers, Insert(c) PROVE Kept
  <2>1. CASE UNCHANGED <<admins, grants, apps>>
    BY <1>0, <2>1
  <2>2. CASE \E n \in NextId(AdminIds, Used(admins)) :
                /\ admins' = [admins EXCEPT ![n] = req[c].row]
                /\ grants' = grants \cup ({n} \X req[c].picks)
    <3>1. PICK n \in NextId(AdminIds, Used(admins)) :
                /\ admins' = [admins EXCEPT ![n] = req[c].row]
                /\ grants' = grants \cup ({n} \X req[c].picks)
      BY <2>2
    <3>2. n # i
      BY <1>0, <3>1, AccountsAssumption DEF NextId, Used
    <3>3. admins'[i] = admins[i] /\ UNCHANGED apps
      BY <1>0, <1>6, <3>1, <3>2 DEF Insert
    <3>4. \A a \in AppIds : <<i, a>> \in grants' <=> <<i, a>> \in grants
      BY <3>1, <3>2
    <3> QED BY <1>0, <3>3, <3>4
  <2> QED BY <1>6, <2>1, <2>2 DEF Insert
<1>7. ASSUME NEW c \in Browsers, Toggle(c) PROVE Kept
  <2>1. i \in Used(admins) /\ Used(admins)' = Used(admins) /\ UNCHANGED <<grants, apps>>
    BY <1>0, <1>7, ToggleKeepsAccounts DEF Toggle, Used
  <2> QED BY <1>0, <2>1 DEF Used
<1>8. ASSUME NEW c \in Browsers, Replace(c) \/ Delete(c) PROVE Kept
  <2>1. req'[c] # req[c]
    <3>1. req'[c].pc = "idle" /\ req[c].pc # "idle"
      BY <1>8 DEF Replace, Delete, Answer, Idle, AccountsInv, TypeOK
    <3> QED BY <3>1
  <2>2. c # b /\ FormsApart /\ UNCHANGED apps
    BY <1>8, <2>1 DEF vars, Replace, Delete
  <2>3. /\ Delete(c) => req[c].target # i
        /\ r.pc = "replace" /\ Replace(c) => req[c].target # i
    BY <2>2 DEF FormsApart
  <2>4. admins'[i] # Null
    BY <1>0, <1>8, <2>3 DEF Replace, Delete
  <2>5. r.pc = "replace" => \A a \in AppIds : <<i, a>> \in grants' <=> <<i, a>> \in grants
    BY <1>8, <2>3 DEF Replace, Delete, GrantsToDelete
  <2> QED BY <1>0, <2>2, <2>4, <2>5
<1> QED BY <1>2, <1>3, <1>4, <1>5, <1>6, <1>7, <1>8, OnlyTheseWriteGrants

\* The steps of the form itself.
LEMMA FormMoves ==
    ASSUME AccountsInv, FormsInv, GrantsBelong, NEW b \in Browsers,
           FindName(b) \/ SetAppsTarget(b) \/ PickApps(b) \/ LoadOld(b)
    PROVE  Replacing(req[b])'
<1> DEFINE r == req[b]
<1>0. /\ r \in Request /\ req \in [Browsers -> Request] /\ Carries(r) /\ Replacing(r)
      /\ UNCHANGED <<admins, grants, apps>>
  BY DEF AccountsInv, TypeOK, FormsInv, FindName, SetAppsTarget, PickApps, LoadOld
<1>1. CASE FindName(b)
  <2>1. /\ req'[b].pc \in {"idle", "insert", "pick"}
        /\ req'[b].target = Null
    BY <1>0, <1>1 DEF FindName, Answer, Idle, Carries, Request
  <2> QED BY <2>1 DEF Replacing
<1>2. CASE SetAppsTarget(b)
  <2>1. \/ req'[b].pc = "idle"
        \/ /\ req'[b].pc \in {"old", "pick"} /\ req'[b].target = r.target
           /\ admins[r.target] # Null
    BY <1>0, <1>2 DEF SetAppsTarget, Answer, Idle, IsOperator, Request
  <2> QED BY <1>0, <2>1 DEF Replacing
<1>3. CASE PickApps(b)
  <2>1. /\ req'[b].pc \in {"insert", "old"} /\ req'[b].target = r.target
        /\ r.pc = "pick"
    BY <1>0, <1>3 DEF PickApps, Request
  <2> QED BY <1>0, <2>1 DEF Replacing
<1>4. CASE LoadOld(b)
  <2>1. /\ req'[b].pc = "replace" /\ req'[b].held = GrantsOf(r.target)
        /\ req'[b].target = r.target /\ r.pc = "old"
    BY <1>0, <1>4 DEF LoadOld, Request
  <2>2. GrantsOf(r.target) \subseteq apps
    BY DEF GrantsOf, GrantsBelong
  <2>3. GrantsOf(req[b].target)' = GrantsOf(r.target)
    BY <1>0, <2>1 DEF GrantsOf
  <2> QED BY <1>0, <2>1, <2>2, <2>3 DEF Replacing
<1> QED BY <1>1, <1>2, <1>3, <1>4

LEMMA FormsStep ==
    ASSUME AccountsInv, FormsInv, GrantsBelong, [Next]_vars, [FormsApart]_vars
    PROVE  FormsInv'
<1> SUFFICES ASSUME NEW b \in Browsers PROVE Replacing(req[b])'
  BY DEF FormsInv
<1>1. CASE req'[b].pc \notin {"pick", "old", "replace"}
  BY <1>1 DEF Replacing
<1>2. CASE req'[b] = req[b] /\ req[b].pc \in {"pick", "old", "replace"}
  <2>1. CASE req[b].target = Null
    <3>1. req[b].pc = "pick"
      BY <1>2, <2>1 DEF AccountsInv, Carries
    <3> QED BY <1>2, <2>1, <3>1 DEF Replacing
  <2>2. CASE req[b].target # Null
    BY <1>2, <2>2, FormWaits DEF Replacing, GrantsOf
  <2> QED BY <2>1, <2>2
<1>3. CASE req'[b] # req[b] /\ req'[b].pc \in {"pick", "old", "replace"}
  <2>1. Serve(b) /\ req'[b].pc \in Relying
    BY <1>3, RequestMoves DEF Relying
  <2>2. \/ FindName(b) \/ SetAppsTarget(b) \/ PickApps(b) \/ LoadOld(b)
        \/ req'[b].pc \in {"idle", "app", "card", "issue", "scope", "act"}
    <3>1. ASSUME NEW a \in AppIds, IssueStart(b, a) PROVE req'[b].pc = "app"
      BY <3>1 DEF IssueStart, Enter, Idle, AccountsInv, TypeOK
    <3>2. ASSUME NEW c \in CardIds, CardStart(b, c) PROVE req'[b].pc = "card"
      BY <3>2 DEF CardStart, Enter, Idle, AccountsInv, TypeOK
    <3>3. ASSUME IssueScope(b) \/ LoadCard(b) \/ ScopeCard(b)
          PROVE  req'[b].pc \in {"idle", "issue", "scope", "act"}
      BY <3>3 DEF IssueScope, LoadCard, ScopeCard, Answer, Idle, AccountsInv, TypeOK, Request
    <3> QED BY <1>3, <2>1, <3>1, <3>2, <3>3, Arrives
  <2> QED BY <1>3, <2>2, FormMoves
<1> QED BY <1>1, <1>2, <1>3

\* "Replace the set of applications an operator may work with": an answered
\* form leaves the operator with the ticked applications that are there,
\* unless another form for the operator was committed after this one loaded
\* the old set (or the operator was deleted, or an id given again, meanwhile).
\* An application that is deleted meanwhile does no harm.
THEOREM FormsReplace == Spec /\ [][FormsApart]_vars => SetAppsReplaces
<1>1. Init => FormsInv
  BY DEF Init, Idle, FormsInv, Replacing
<1>2. AccountsInv /\ FormsInv /\ GrantsBelong /\ [Next]_vars /\ [FormsApart]_vars => FormsInv'
  BY FormsStep
<1>3. ASSUME AccountsInv, FormsInv, NEW b \in Browsers, Replace(b), CanReplace(b)
      PROVE  req[b].picks \cap apps = {a \in AppIds : <<req[b].target, a>> \in grants'}
  <2> DEFINE r == req[b]
             i == r.target
  <2>1. /\ r.held \cap apps = GrantsOf(i) /\ r.target \in AdminIds
        /\ r.picks \subseteq AppIds /\ r.held \subseteq AppIds
    BY <1>3 DEF FormsInv, Replacing, Replace, AccountsInv, TypeOK, Request, Carries
  <2>2. r.picks \ r.held \subseteq apps
    BY <1>3 DEF CanReplace
  <2>3. grants' = (grants \ ({i} \X (r.held \ r.picks))) \cup ({i} \X (r.picks \ r.held))
    BY <1>3 DEF Replace
  <2>4. \A a \in AppIds :
           <<i, a>> \in grants' <=>
              (a \in GrantsOf(i) /\ a \notin r.held \ r.picks) \/ a \in r.picks \ r.held
    BY <2>3 DEF GrantsOf
  <2>5. \A a \in AppIds : <<i, a>> \in grants' <=> a \in r.picks \cap apps
    <3> HIDE DEF r, i
    <3> QED BY <2>1, <2>2, <2>4
  <2> QED BY <2>1, <2>5
<1>4. AccountsInv /\ FormsInv => [Replaces]_vars
  BY <1>3 DEF Replaces
<1> QED BY <1>1, <1>2, <1>4, AccountsInvHolds, GrantsHaveBothEnds, PTL
        DEF Spec, SetAppsReplaces

-----------------------------------------------------------------------------
(* The scope of an operator                                                *)

AtWork == {"app", "issue", "card", "scope", "act"}

\* While an operator works, nobody deletes its account; once it was found to
\* be in its rights, nobody replaces its grants; from the time it has read a
\* card nobody else works on that; and nobody deletes the application of its
\* card, or of the batch it may issue.
ScopeStands ==
    \A b \in Browsers :
        LET r == req[b] IN
        r.pc \in AtWork /\ ~IsSuper(r.me) =>
            /\ \A c \in Browsers : c # b /\ Delete(c) => req[c].target # r.id
            /\ r.pc \in {"issue", "act"} =>
                  \A c \in Browsers : c # b /\ Replace(c) => req[c].target # r.id
            /\ r.pc \in {"scope", "act"} =>
                  \A c \in Browsers : c # b /\ ActOnCard(c) => req[c].card # r.card
            /\ \A a \in AppIds : DeleteApp(a) =>
                  /\ r.pc = "issue" => a # r.app
                  /\ r.pc \in {"scope", "act"} => a # r.crow.app

\* An operator's account has the name under which it was read, its rights are
\* those it was found in, and the card is the one it read.
InRights(r) ==
    r.pc \in AtWork /\ ~IsSuper(r.me) =>
        /\ r.id # Null /\ admins[r.id] # Null /\ admins[r.id].name = r.me.name
        /\ r.pc = "issue" => r.app \in GrantsOf(r.id)
        /\ r.pc \in {"scope", "act"} => r.crow # Null /\ r.crow = cards[r.card]
        /\ r.pc = "act" => r.crow.app \in GrantsOf(r.id) /\ r.crow.by = r.me.name

RightsInv == \A b \in Browsers : InRights(req[b])

\* The actions that write cards.
LEMMA OnlyTheseWriteCards ==
    ASSUME [Next]_vars
    PROVE  \/ UNCHANGED cards
           \/ \E b \in Browsers : IssueCard(b) \/ ActOnCard(b)
           \/ \E a \in AppIds : DeleteApp(a)
<1>1. ASSUME NEW b \in Browsers, Session(b) \/ Abort(b) PROVE UNCHANGED cards
  BY <1>1 DEF Session, LoginRead, LoginCommit, Logout, Open, Bounce, Dashboard, LoginPage, Abort
<1>2. ASSUME NEW b \in Browsers, Manage(b) PROVE UNCHANGED cards
  BY <1>2 DEF Manage, CreateStart, FindName, PickApps, Insert, SetAppsStart, SetAppsTarget,
     LoadOld, Replace, ToggleStart, DeleteStart, LoadTarget, Toggle, LoadGrants, Delete,
     EnterSuper, Enter
<1>3. ASSUME NEW b \in Browsers, Work(b)
      PROVE  UNCHANGED cards \/ IssueCard(b) \/ ActOnCard(b)
  BY <1>3 DEF Work, IssueStart, IssueScope, CardStart, LoadCard, ScopeCard, Enter
<1>4. CASE UNCHANGED vars \/ CreateApp \/ Restart
  BY <1>4 DEF vars, CreateApp, Restart
<1> QED BY <1>1, <1>2, <1>3, <1>4 DEF Next

\* A commit answers its request.
LEMMA CommitAnswers ==
    ASSUME AccountsInv, NEW c \in Browsers, Replace(c) \/ Delete(c) \/ ActOnCard(c)
    PROVE  req'[c] # req[c]
<1>1. req'[c].pc = "idle" /\ req[c].pc # "idle"
  BY DEF Replace, Delete, ActOnCard, Answer, Idle, AccountsInv, TypeOK
<1> QED BY <1>1

\* Accounts keep their names.
LEMMA AccountStays ==
    ASSUME AccountsInv, [Next]_vars, NEW i \in AdminIds, admins[i] # Null,
           \A c \in Browsers : Delete(c) => req[c].target # i
    PROVE  admins'[i] # Null /\ admins'[i].name = admins[i].name
<1>0. admins \in [AdminIds -> AdminRow \cup {Null}]
  BY DEF AccountsInv, TypeOK
<1>1. CASE UNCHANGED admins
  BY <1>1
<1>2. CASE Restart
  BY <1>0, <1>2 DEF Restart, Bootstrap, Used
<1>3. ASSUME NEW c \in Browsers, Insert(c) PROVE admins'[i] = admins[i]
  BY <1>0, <1>3, AccountsAssumption DEF Insert, NextId, Used
<1>4. ASSUME NEW c \in Browsers, Toggle(c)
      PROVE  admins'[i] # Null /\ admins'[i].name = admins[i].name
  <2>1. i \in Used(admins) /\ Used(admins)' = Used(admins)
    BY <1>0, <1>4, ToggleKeepsAccounts DEF Used
  <2>2. admins'[i] # Null
    BY <2>1 DEF Used
  <2>3. admins'[i].name = admins[i].name
    BY <1>0, <1>4 DEF Toggle, AdminRow
  <2> QED BY <2>2, <2>3
<1>5. ASSUME NEW c \in Browsers, Delete(c) PROVE admins'[i] = admins[i]
  BY <1>0, <1>5 DEF Delete
<1> QED BY <1>1, <1>2, <1>3, <1>4, <1>5, OnlyTheseWriteAdmins

\* A grant lasts.
LEMMA GrantStays ==
    ASSUME AccountsInv, [Next]_vars, NEW i \in AdminIds, NEW a \in GrantsOf(i),
           \A c \in Browsers : Delete(c) \/ Replace(c) => req[c].target # i,
           ~DeleteApp(a)
    PROVE  a \in GrantsOf(i)'
<1>0. a \in AppIds /\ <<i, a>> \in grants
  BY DEF GrantsOf
<1>1. CASE UNCHANGED <<admins, grants, apps>> \/ Restart \/ CreateApp
  BY <1>0, <1>1 DEF Restart, CreateApp, GrantsOf
<1>2. ASSUME NEW d \in AppIds, DeleteApp(d) PROVE a \in GrantsOf(i)'
  BY <1>0, <1>2 DEF DeleteApp, GrantsOf
<1>3. ASSUME NEW c \in Browsers, Insert(c) \/ Toggle(c) PROVE a \in GrantsOf(i)'
  BY <1>0, <1>3 DEF Insert, Toggle, GrantsOf
<1>4. ASSUME NEW c \in Browsers, Replace(c) \/ Delete(c) PROVE a \in GrantsOf(i)'
  BY <1>0, <1>4 DEF Replace, Delete, GrantsToDelete, GrantsOf
<1> QED BY <1>1, <1>2, <1>3, <1>4, OnlyTheseWriteGrants

\* A card is what it was.
LEMMA CardStays ==
    ASSUME AccountsInv, [Next]_vars, NEW k \in CardIds, cards[k] # Null,
           \A c \in Browsers : ActOnCard(c) => req[c].card # k,
           \A a \in AppIds : DeleteApp(a) => a # cards[k].app
    PROVE  cards'[k] = cards[k]
<1>0. cards \in [CardIds -> CardRow \cup {Null}] /\ k \in Used(cards)
  BY DEF AccountsInv, TypeOK, Used
<1>1. ASSUME NEW c \in Browsers, IssueCard(c) PROVE cards'[k] = cards[k]
  <2>1. \A n \in NextId(CardIds, Used(cards)) : n # k
    BY <1>0, AccountsAssumption DEF NextId
  <2> QED BY <1>0, <1>1, <2>1 DEF IssueCard
<1>2. ASSUME NEW c \in Browsers, ActOnCard(c) PROVE cards'[k] = cards[k]
  BY <1>0, <1>2 DEF ActOnCard
<1>3. ASSUME NEW a \in AppIds, DeleteApp(a) PROVE cards'[k] = cards[k]
  BY <1>0, <1>3 DEF DeleteApp
<1> QED BY <1>1, <1>2, <1>3, OnlyTheseWriteCards

LEMMA OperatorWaits ==
    ASSUME AccountsInv, RightsInv, [Next]_vars, [ScopeStands]_vars,
           NEW b \in Browsers, req'[b] = req[b]
    PROVE  InRights(req[b])'
<1> DEFINE r == req[b]
<1>1. SUFFICES ASSUME r.pc \in AtWork, ~IsSuper(r.me) PROVE InRights(req[b])'
  BY DEF InRights, IsSuper
<1>2. r \in Request /\ Carries(r) /\ InRights(r)
  BY DEF AccountsInv, TypeOK, RightsInv
<1>3. r.id \in AdminIds /\ admins[r.id] # Null /\ admins[r.id].name = r.me.name
  BY <1>1, <1>2 DEF InRights, Request
<1>4. /\ \A c \in Browsers : Delete(c) => req[c].target # r.id
      /\ r.pc \in {"issue", "act"} => \A c \in Browsers : Replace(c) => req[c].target # r.id
      /\ r.pc \in {"scope", "act"} => \A c \in Browsers : ActOnCard(c) => req[c].card # r.card
      /\ r.pc = "issue" => ~DeleteApp(r.app)
      /\ r.pc \in {"scope", "act"} => \A a \in AppIds : DeleteApp(a) => a # r.crow.app
  <2>1. CASE UNCHANGED vars
    <3>1. \A c \in Browsers : ~Delete(c) /\ ~Replace(c) /\ ~ActOnCard(c)
      BY <2>1, CommitAnswers DEF vars
    <3>2. \A a : ~DeleteApp(a)
      BY <2>1 DEF vars, DeleteApp
    <3> QED BY <3>1, <3>2
  <2>2. CASE ScopeStands
    <3>1. \A c \in Browsers : Delete(c) \/ Replace(c) \/ ActOnCard(c) => c # b
      BY CommitAnswers
    <3>2. r.pc = "issue" => r.app \in AppIds
      BY <1>2 DEF Request, Carries
    <3> QED BY <1>1, <2>2, <3>1, <3>2 DEF ScopeStands
  <2> QED BY <2>1, <2>2
<1>5. admins'[r.id] # Null /\ admins'[r.id].name = r.me.name
  BY <1>3, <1>4, AccountStays
<1>6. r.pc = "issue" => r.app \in GrantsOf(r.id)'
  <2> SUFFICES ASSUME r.pc = "issue" PROVE r.app \in GrantsOf(r.id)'
    OBVIOUS
  <2>1. r.app \in GrantsOf(r.id)
    BY <1>1, <1>2 DEF InRights
  <2> QED BY <1>3, <1>4, <2>1, GrantStays
<1>7. r.pc \in {"scope", "act"} => r.crow # Null /\ r.crow = cards[r.card]
  BY <1>1, <1>2 DEF InRights
<1>8. r.pc \in {"scope", "act"} => cards'[r.card] = cards[r.card]
  <2> SUFFICES ASSUME r.pc \in {"scope", "act"} PROVE cards'[r.card] = cards[r.card]
    OBVIOUS
  <2>1. r.card \in CardIds
    BY <1>2 DEF Request, Carries
  <2> QED BY <1>4, <1>7, <2>1, CardStays
<1>9. r.pc = "act" => r.crow.app \in GrantsOf(r.id)' /\ r.crow.by = r.me.name
  <2> SUFFICES ASSUME r.pc = "act" PROVE r.crow.app \in GrantsOf(r.id)' /\ r.crow.by = r.me.name
    OBVIOUS
  <2>1. r.crow.app \in GrantsOf(r.id) /\ r.crow.by = r.me.name
    BY <1>1, <1>2 DEF InRights
  <2>2. ~DeleteApp(r.crow.app)
    BY <1>4, <2>1 DEF GrantsOf
  <2> QED BY <1>3, <1>4, <2>1, <2>2, GrantStays
<1>10. SUFFICES ASSUME NEW q, q = req'[b], q.pc \in AtWork, ~IsSuper(q.me)
       PROVE  /\ q.id # Null /\ admins'[q.id] # Null /\ admins'[q.id].name = q.me.name
              /\ q.pc = "issue" => <<q.id, q.app>> \in grants' /\ q.app \in AppIds
              /\ q.pc \in {"scope", "act"} => q.crow # Null /\ q.crow = cards'[q.card]
              /\ q.pc = "act" => /\ <<q.id, q.crow.app>> \in grants' /\ q.crow.app \in AppIds
                                 /\ q.crow.by = q.me.name
  BY DEF InRights, IsSuper, GrantsOf
<1>11. q = r
  BY <1>10
<1>12. q.id # Null /\ admins'[q.id] # Null /\ admins'[q.id].name = q.me.name
  BY <1>2, <1>3, <1>5, <1>11, AccountsAssumption
<1>13. q.pc = "issue" => <<q.id, q.app>> \in grants' /\ q.app \in AppIds
  BY <1>6, <1>10, <1>11 DEF GrantsOf
<1>14. q.pc \in {"scope", "act"} => q.crow # Null /\ q.crow = cards'[q.card]
  BY <1>7, <1>8, <1>11
<1>15. q.pc = "act" => /\ <<q.id, q.crow.app>> \in grants' /\ q.crow.app \in AppIds
                       /\ q.crow.by = q.me.name
  BY <1>9, <1>10, <1>11 DEF GrantsOf
<1> QED BY <1>12, <1>13, <1>14, <1>15

LEMMA OperatorMoves ==
    ASSUME AccountsInv, RightsInv, NEW b \in Browsers,
           \/ \E a \in AppIds : IssueStart(b, a)
           \/ \E c \in CardIds : CardStart(b, c)
           \/ IssueScope(b) \/ LoadCard(b) \/ ScopeCard(b)
    PROVE  InRights(req[b])'
<1> DEFINE r == req[b]
<1>0. /\ r \in Request /\ req \in [Browsers -> Request] /\ Carries(r) /\ InRights(r)
      /\ admins \in [AdminIds -> AdminRow \cup {Null}]
  BY DEF AccountsInv, TypeOK, RightsInv
<1>a. ASSUME req'[b].pc = "idle" PROVE InRights(req[b])'
  BY <1>a DEF InRights, AtWork
<1>b. \A i : GrantsOf(i) = {a \in AppIds : <<i, a>> \in grants}
  BY DEF GrantsOf
<1>1. ASSUME NEW e \in Request, e.pc \in {"app", "card"}, Enter(b, e) PROVE InRights(req[b])'
  <2>1. /\ req'[b].pc = e.pc /\ req'[b].id \in AdminIds /\ req'[b].id # Null
        /\ req'[b].me = admins[req'[b].id] /\ admins[req'[b].id] # Null /\ UNCHANGED admins
    BY <1>1, Entered, AccountsAssumption DEF Tables
  <2> QED BY <1>1, <2>1 DEF InRights
<1>2. CASE \E a \in AppIds : IssueStart(b, a)
  <2>1. PICK a \in AppIds : Enter(b, [Idle EXCEPT !.pc = "app", !.app = a])
    BY <1>2 DEF IssueStart
  <2> DEFINE e == [Idle EXCEPT !.pc = "app", !.app = a]
  <2>2. e \in Request /\ e.pc = "app"
    BY IdleIsRequest DEF Request, Idle
  <2> HIDE DEF e
  <2> QED BY <1>1, <2>1, <2>2 DEF e
<1>3. CASE \E c \in CardIds : CardStart(b, c)
  <2>1. PICK c \in CardIds : Enter(b, [Idle EXCEPT !.pc = "card", !.card = c])
    BY <1>3 DEF CardStart
  <2> DEFINE e == [Idle EXCEPT !.pc = "card", !.card = c]
  <2>2. e \in Request /\ e.pc = "card"
    BY IdleIsRequest DEF Request, Idle
  <2> HIDE DEF e
  <2> QED BY <1>1, <2>1, <2>2 DEF e
<1>4. CASE IssueScope(b)
  <2>1. CASE Answer(b)
    BY <1>0, <1>a, <2>1 DEF Answer, Idle
  <2>2. CASE /\ CanAccessApp(r.me, GrantsOf(r.id), r.app)
             /\ req' = [req EXCEPT ![b].pc = "issue"]
    <3>1. /\ req'[b].pc = "issue" /\ req'[b].me = r.me /\ req'[b].id = r.id
          /\ req'[b].app = r.app
      BY <1>0, <2>2 DEF Request
    <3>2. r.pc = "app" /\ UNCHANGED <<admins, grants>>
      BY <1>4 DEF IssueScope
    <3> QED BY <1>0, <2>2, <3>1, <3>2 DEF InRights, AtWork, CanAccessApp, IsSuper, GrantsOf
  <2> QED BY <1>4, <2>1, <2>2 DEF IssueScope
<1>5. CASE LoadCard(b)
  <2>1. CASE Answer(b)
    BY <1>0, <1>a, <2>1 DEF Answer, Idle
  <2>2. CASE /\ cards[r.card] # Null
             /\ req' = [req EXCEPT ![b].pc = "scope", ![b].crow = cards[r.card]]
    <3>1. /\ req'[b].pc = "scope" /\ req'[b].me = r.me /\ req'[b].id = r.id
          /\ req'[b].card = r.card /\ req'[b].crow = cards[r.card]
      BY <1>0, <2>2 DEF Request
    <3>2. r.pc = "card" /\ UNCHANGED <<admins, cards>>
      BY <1>5 DEF LoadCard
    <3> QED BY <1>0, <2>2, <3>1, <3>2 DEF InRights, AtWork, IsSuper
  <2> QED BY <1>5, <2>1, <2>2 DEF LoadCard
<1>6. CASE ScopeCard(b)
  <2>1. CASE Answer(b)
    BY <1>0, <1>a, <2>1 DEF Answer, Idle
  <2>2. CASE /\ CanAccessCard(r.me, GrantsOf(r.id), r.crow)
             /\ req' = [req EXCEPT ![b].pc = "act"]
    <3>1. /\ req'[b].pc = "act" /\ req'[b].me = r.me /\ req'[b].id = r.id
          /\ req'[b].card = r.card /\ req'[b].crow = r.crow
      BY <1>0, <2>2 DEF Request
    <3>2. r.pc = "scope" /\ UNCHANGED <<admins, grants, cards>>
      BY <1>6 DEF ScopeCard
    <3> QED BY <1>0, <2>2, <3>1, <3>2
            DEF InRights, AtWork, CanAccessCard, CanAccessApp, IsSuper, GrantsOf
  <2> QED BY <1>6, <2>1, <2>2 DEF ScopeCard
<1> QED BY <1>2, <1>3, <1>4, <1>5, <1>6

LEMMA RightsStep ==
    ASSUME AccountsInv, RightsInv, [Next]_vars, [ScopeStands]_vars
    PROVE  RightsInv'
<1> SUFFICES ASSUME NEW b \in Browsers PROVE InRights(req[b])'
  BY DEF RightsInv
<1>1. CASE req'[b] = req[b]
  BY <1>1, OperatorWaits
<1>2. CASE req'[b].pc \notin AtWork
  BY <1>2 DEF InRights
<1>3. CASE req'[b] # req[b] /\ req'[b].pc \in AtWork
  <2>1. Serve(b) /\ req'[b].pc \in Relying
    BY <1>3, RequestMoves DEF AtWork, Relying
  <2>2. ~(FindName(b) \/ SetAppsTarget(b) \/ PickApps(b) \/ LoadOld(b))
    <3>1. req \in [Browsers -> Request]
      BY DEF AccountsInv, TypeOK
    <3> QED BY <1>3, <3>1 DEF FindName, SetAppsTarget, PickApps, LoadOld, Answer, Idle, AtWork,
               Request
  <2> QED BY <1>3, <2>1, <2>2, Arrives, OperatorMoves
<1> QED BY <1>1, <1>2, <1>3

\* "Only cards it issued, inside its applications": what an operator commits
\* to is in its rights at that moment, unless one of four commits of others
\* came between the check and its own: the deletion of its account, a form
\* for its grants, work on the same card, the deletion of the application.
THEOREM OperatorsKeepScope == Spec /\ [][ScopeStands]_vars => KeepsScope
<1>1. Init => RightsInv
  BY DEF Init, Idle, RightsInv, InRights, AtWork
<1>2. AccountsInv /\ RightsInv /\ [Next]_vars /\ [ScopeStands]_vars => RightsInv'
  BY RightsStep
<1>3. ASSUME AccountsInv, RightsInv PROVE InScope
  <2> SUFFICES ASSUME NEW b \in Browsers, req[b].pc \in {"act", "issue"}, ~IsSuper(req[b].me)
               PROVE  /\ ActOnCard(b) =>
                            \E row \in {cards[req[b].card]} :
                               /\ row # Null /\ row.app \in GrantsOf(req[b].id)
                               /\ row.by = admins[req[b].id].name
                      /\ IssueCard(b) => req[b].app \in GrantsOf(req[b].id)
    BY DEF InScope
  <2>1. InRights(req[b])
    BY <1>3 DEF RightsInv
  <2> QED BY <2>1 DEF InRights, AtWork, ActOnCard, IssueCard
<1>4. AccountsInv /\ RightsInv => [InScope]_vars
  BY <1>3
<1> QED BY <1>1, <1>2, <1>4, AccountsInvHolds, PTL DEF Spec, KeepsScope

-----------------------------------------------------------------------------
(* Requests one at a time, the scene `alone' of the run                     *)

\* At most one request is being served.
OneRuns == \A b, c \in Browsers : ~Free(b) /\ ~Free(c) => b = c

LEMMA AccountsSceneIsSpec == MCSpec => Spec
<1>1. MCInit => Init
  BY DEF MCInit
<1>2. [MCNext]_<<vars, scene>> => [Next]_vars
  BY DEF MCNext
<1> QED BY <1>1, <1>2, PTL DEF MCSpec, Spec

\* Nothing comes between the steps of a request then.
LEMMA AloneIsApart ==
    ASSUME Alone, OneRuns, [MCNext]_<<vars, scene>>
    PROVE  [FormsApart /\ ScopeStands]_vars
<1> SUFFICES ASSUME Quiet PROVE FormsApart /\ ScopeStands
  BY DEF MCNext, InScene, Alone, vars
<1>1. ASSUME NEW b \in Browsers, NEW c \in Browsers, c # b, ~Free(b) PROVE req[c].pc = "idle"
  BY <1>1 DEF OneRuns, Free
<1>2. \A c \in Browsers : Delete(c) \/ Replace(c) \/ ActOnCard(c) => req[c].pc # "idle"
  BY DEF Delete, Replace, ActOnCard
<1>3. CreateApp => apps' \subseteq apps \/ \A b \in Browsers : Free(b)
  BY DEF Quiet
<1>4. \A a \in AppIds : DeleteApp(a) => \A b \in Browsers : Free(b)
  BY DEF Quiet, DeleteApp
<1>5. FormsApart
  BY <1>1, <1>2, <1>3 DEF FormsApart, Free
<1>6. ScopeStands
  BY <1>1, <1>2, <1>4 DEF ScopeStands, AtWork, Free
<1> QED BY <1>5, <1>6

LEMMA OneRunsAlone ==
    MCSpec => ([]Alone /\ [][FormsApart /\ ScopeStands]_vars) \/ []~Alone
<1>1. MCInit => OneRuns
  BY DEF MCInit, Init, Idle, OneRuns, Free
<1>2. Alone /\ OneRuns /\ [MCNext]_<<vars, scene>> => Alone' /\ OneRuns'
  BY DEF MCNext, InScene, Quiet, Alone, OneRuns, Free, vars
<1>3. ~Alone /\ [MCNext]_<<vars, scene>> => ~Alone'
  BY DEF MCNext, Alone
<1>4. Alone /\ OneRuns /\ [MCNext]_<<vars, scene>> => [FormsApart /\ ScopeStands]_vars
  BY AloneIsApart
<1> QED BY <1>1, <1>2, <1>3, <1>4, PTL DEF MCSpec

\* A form alone leaves an operator with the ticked applications that are
\* there.
THEOREM FormsAloneReplace == MCSpec => AloneSetAppsReplaces
<1>1. [FormsApart /\ ScopeStands]_vars => [FormsApart]_vars
  OBVIOUS
<1>2. ~Alone \/ [Replaces]_vars => [Alone => Replaces]_vars
  OBVIOUS
<1> QED
  BY <1>1, <1>2, OneRunsAlone, AccountsSceneIsSpec, FormsReplace, PTL
     DEF SetAppsReplaces, AloneSetAppsReplaces

\* An operator alone commits to cards it issued itself, in applications it is
\* granted at that moment.
THEOREM OperatorsAloneKeepScope == MCSpec => AloneKeepsScope
<1>1. [FormsApart /\ ScopeStands]_vars => [ScopeStands]_vars
  OBVIOUS
<1>2. ~Alone \/ [InScope]_vars => [Alone => InScope]_vars
  OBVIOUS
<1> QED
  BY <1>1, <1>2, OneRunsAlone, AccountsSceneIsSpec, OperatorsKeepScope, PTL
     DEF KeepsScope, AloneKeepsScope
=============================================================================
