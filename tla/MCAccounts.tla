----------------------------- MODULE MCAccounts -----------------------------
(* Two accounts at a time, with two names, two applications and one card,   *)
(* in four scenes: requests one at a time; overlapping requests that create *)
(* accounts; that manage them; of which some work on cards.                 *)
EXTENDS Accounts

CONSTANTS n1, n2, b1, b2

VARIABLE scene

OneId    == {1}
TwoIds   == {1, 2}
ThreeIds == {1, 2, 3}

Alone == scene = "alone"

\* At most one request is being served, and applications change between them.
Quiet ==
    /\ \A b, c \in Browsers : b # c /\ ~Free(b)' => Free(c)'
    /\ apps' # apps => cards' = cards /\ \A b \in Browsers : Free(b)

NoPages == \A b \in Browsers : Free(b) => req'[b].pc \notin {"dashboard", "login_page"}

Creating == {"idle", "login", "name", "pick", "insert"}
Working  == {"idle", "app", "issue", "card", "scope", "act"}

InScene ==
    CASE scene = "alone"  -> Quiet /\ Used(admins)' \subseteq TwoIds
      [] scene = "create" -> /\ \A b \in Browsers : req'[b].pc \in Creating
                             /\ cards' = cards /\ apps' \subseteq OneId
      [] scene = "manage" -> /\ Used(admins)' \subseteq TwoIds /\ NoPages
                             /\ cards' = cards /\ apps' \subseteq OneId
      [] scene = "work"   -> /\ Used(admins)' \subseteq TwoIds /\ NoPages
                             /\ apps' \subseteq OneId
                             /\ \E b \in Browsers : req'[b].pc \in Working

MCInit == /\ Init /\ scene \in {"alone", "create", "manage", "work"}
          /\ scene \in {"create", "manage"} => Used(cards) = {}
MCNext == Next /\ InScene /\ UNCHANGED scene
MCSpec == MCInit /\ [][MCNext]_<<vars, scene>> /\ \A b \in Browsers : WF_vars(Follow(b))

\* One request at a time replaces the grants of an operator ...
AloneSetAppsReplaces == [][Alone => Replaces]_vars

\* ... and one at a time stays within them.
AloneKeepsScope == [][Alone => InScope]_vars

\* For the violation: the first account has made an operator and two
\* applications and, from two browsers, sent two forms, which are about to
\* load the operator's grants.  They overlap, and nothing else changes.
Form(picks) ==
    [Idle EXCEPT !.pc = "old", !.id = 1, !.me = admins[1], !.target = 2, !.picks = picks]

FormsInit ==
    /\ admins \in [AdminIds -> [name: Names, role: {"super", "operator"}, active: {TRUE}]]
    /\ admins[1].name = DefaultName /\ admins[1].role = "super"
    /\ admins[2].name # DefaultName /\ admins[2].role = "operator"
    /\ grants = {} /\ apps = AppIds /\ cards = [c \in CardIds |-> Null]
    /\ cookie = [b \in Browsers |-> 1]
    /\ \E picks \in [Browsers -> SUBSET AppIds] : req = [b \in Browsers |-> Form(picks[b])]

FormsNext == Next /\ admins' = admins /\ apps' = apps /\ cards' = cards
FormsSpec == FormsInit /\ scene = "manage" /\ [][FormsNext /\ UNCHANGED scene]_<<vars, scene>>
============================================================================
