-------------------------- MODULE CardOverlapProofs --------------------------
(* Requests that overlap on one card.  Each claim of CardClaims is kept by    *)
(* every interleaving but one kind: a theorem names that overlap in a premise *)
(* on the steps, for any number of cards, machines and threads.               *)
EXTENDS CardClaimsProofs

-----------------------------------------------------------------------------
(* What requests in flight are up to                                       *)

\* An activation of card c is in flight at thread u.
Activating(u, c) ==
    req[u].pc \notin Answers /\ req[u].op = "activate" /\ req[u].card = c

\* What an operation means to write, judged from the row it loaded alone.
Meant(r) ==
    /\ r.op = "activate" =>
          IF r.seen.status = "unused"
          THEN /\ r.want.status = "active" /\ r.want.activated # Null
               /\ Kind[r.card] = "time" /\ Duration[r.card] > 0 => r.want.expires # Null
          ELSE r.want = r.seen
    /\ r.op = "ban" => r.want.status = "banned"
    /\ r.op = "unban" => r.want.status = StatusBefore(r.seen)
    /\ r.op = "reset" => r.want.status = "unused" /\ r.want.activated = Null
    /\ r.op = "edit" => r.want.expires = r.seen.expires \/ r.want.expires # Null

Judged(r) ==
    r.pc \notin Answers /\ r.op \notin DeviceOps =>
       /\ r.op = "activate" => r.seen.status # "banned"
       /\ r.pc # "commit" => r.want = r.seen
       /\ r.pc = "commit" => Meant(r)

JudgedInv == \A t \in Threads : Judged(req[t])

\* The steps of an activation before its commit: it loads a card that is not
\* banned, or goes on with the row it has.
LEMMA ActivationMoves ==
    ASSUME TypeInv, NEW u \in Threads, Step(u),
           req'[u].pc \notin Answers, req'[u].op = "activate"
    PROVE  LET r == req[u]
               q == req'[u] IN
           /\ UNCHANGED Tables
           /\ \/ /\ q.pc = "find" /\ q.card \in Cards /\ cards[q.card] # Null
                 /\ q.seen = cards[q.card] /\ q.want = q.seen /\ q.seen.status # "banned"
              \/ /\ r.pc \in {"find", "list"} /\ r.op = "activate"
                 /\ q.card = r.card /\ q.machine = r.machine /\ q.seen = r.seen
                 /\ \/ /\ q.pc = "commit" /\ q.want = Activated(r.card, r.seen)
                       /\ \E i \in BoundTo(r.card, r.machine) : q.rows = {i}
                    \/ /\ q.pc = "list" /\ q.want = r.want
                       /\ BoundTo(r.card, r.machine) = {}
                    \/ /\ q.pc = "commit" /\ q.want = Activated(r.card, r.seen)
                       /\ r.pc = "list" /\ q.rows = {} /\ ~LimitReached(r)
<1> DEFINE r == req[u]
           q == req'[u]
<1>0. r \in Request /\ req \in [Threads -> Request]
  BY DEF TypeInv
<1>1. ASSUME NEW a \in Answers, Answer(u, a) PROVE FALSE
  BY <1>0, <1>1 DEF Answer
<1>2. ASSUME NEW op, NEW c, NEW m, NEW want, NEW pc, Load(u, op, c, m, want, pc)
      PROVE  /\ q.pc = pc /\ q.op = op /\ q.card = c /\ q.machine = m
             /\ q.seen = cards[c] /\ q.want = want /\ q.rows = {}
  BY <1>0, <1>2 DEF Load
<1>3. ASSUME NEW want, NEW rows, ToCommit(u, want, rows)
      PROVE  /\ q.pc = "commit" /\ q.op = r.op /\ q.card = r.card /\ q.machine = r.machine
             /\ q.seen = r.seen /\ q.want = want /\ q.rows = rows
  BY <1>0, <1>3 DEF ToCommit, Request
<1>4. ASSUME NEW c \in Cards, NEW m \in Machines, ActivateLoad(u, c, m)
      PROVE  /\ UNCHANGED Tables
             /\ q.pc = "find" /\ q.card \in Cards /\ cards[q.card] # Null
             /\ q.seen = cards[q.card] /\ q.want = q.seen /\ q.seen.status # "banned"
  <2>1. CASE Answer(u, "refused")
    BY <1>1, <2>1 DEF Answers
  <2>2. CASE /\ cards[c] # Null /\ MayActivate(c, cards[c])
             /\ Load(u, "activate", c, m, cards[c], "find")
    <3>1. cards[c].status # "banned"
      BY <2>2 DEF MayActivate, EffectiveStatus
    <3>2. q.pc = "find" /\ q.card = c /\ q.seen = cards[c] /\ q.want = cards[c]
      BY <1>2, <2>2
    <3> QED BY <1>4, <2>2, <3>1, <3>2 DEF ActivateLoad
  <2> QED BY <1>4, <2>1, <2>2 DEF ActivateLoad
<1>5. ASSUME NEW c \in Cards, NEW m \in Machines,
             VerifyLoad(u, c, m) \/ SelfUnbindLoad(u, c, m)
      PROVE  FALSE
  BY <1>1, <1>2, <1>5 DEF VerifyLoad, SelfUnbindLoad, Answers
<1>6. CASE ActivateFind(u)
  <2>1. r.pc = "find" /\ r.op = "activate" /\ UNCHANGED Tables
    BY <1>6 DEF ActivateFind
  <2>2. ASSUME NEW i \in BoundTo(r.card, r.machine),
               ToCommit(u, Activated(r.card, r.seen), {i})
        PROVE  /\ q.pc = "commit" /\ q.want = Activated(r.card, r.seen) /\ q.rows = {i}
               /\ q.card = r.card /\ q.machine = r.machine /\ q.seen = r.seen
    BY <1>3, <2>2
  <2>3. ASSUME req' = [req EXCEPT ![u].pc = "list"]
        PROVE  /\ q.pc = "list" /\ q.want = r.want
               /\ q.card = r.card /\ q.machine = r.machine /\ q.seen = r.seen
    BY <1>0, <2>3 DEF Request
  <2> QED BY <1>1, <1>6, <2>1, <2>2, <2>3 DEF ActivateFind, Answers
<1>7. CASE ActivateCount(u)
  <2>1. r.pc = "list" /\ r.op = "activate" /\ UNCHANGED Tables
    BY <1>7 DEF ActivateCount
  <2>2. ~LimitReached(r) /\ ToCommit(u, Activated(r.card, r.seen), {})
    BY <1>1, <1>7 DEF ActivateCount, Answers
  <2>3. /\ q.pc = "commit" /\ q.want = Activated(r.card, r.seen) /\ q.rows = {}
        /\ q.card = r.card /\ q.machine = r.machine /\ q.seen = r.seen
    BY <1>3, <2>2
  <2> QED BY <2>1, <2>2, <2>3
<1>8. CASE FindBinding(u)
  BY <1>1, <1>3, <1>8 DEF FindBinding, Answers
<1>9. CASE CardPage(u)
  <2>1. ASSUME NEW c, CardGone(u, c) PROVE FALSE
    BY <1>1, <2>1 DEF CardGone, Answers
  <2>2. CASE \E c \in Cards :
                \/ Ban(u, c)
                \/ Unban(u, c)
                \/ \E limit \in 0..MaxLimit, minutes \in Extensions : Edit(u, c, limit, minutes)
    BY <1>2, <2>1, <2>2 DEF Ban, Unban, Edit
  <2>3. CASE \E c \in Cards : ResetLoad(u, c) \/ UnbindAllLoad(u, c) \/ DeleteLoad(u, c)
    BY <1>2, <2>1, <2>3 DEF ResetLoad, UnbindAllLoad, DeleteLoad, LoadForDevices
  <2>4. CASE ResetList(u) \/ UnbindAllList(u) \/ DeleteList(u)
    BY <1>1, <1>3, <2>4 DEF ResetList, UnbindAllList, DeleteList, Answers
  <2> QED BY <1>9, <2>2, <2>3, <2>4 DEF CardPage
<1>10. CASE DevicePage(u)
  <2>1. ASSUME NEW op, NEW i, NEW m, DeviceLoad(u, op, i, m) PROVE q.op = op
    BY <1>0, <2>1 DEF DeviceLoad
  <2> QED BY <1>1, <1>10, <2>1
          DEF DevicePage, DeviceGone, DeviceEdit, DeviceUnbind, DeviceDelete, Answers
<1>11. CASE Commit(u) \/ Abort(u)
  BY <1>1, <1>11 DEF Commit, Abort, Answers
<1> QED BY <1>4, <1>5, <1>6, <1>7, <1>8, <1>9, <1>10, <1>11 DEF Step, ClientRequest

LEMMA JudgedAsLoaded ==
    ASSUME NEW q, q.pc # "commit", q.want = q.seen, q.op # "activate" \/ q.seen.status # "banned"
    PROVE  Judged(q)
BY DEF Judged

\* Of the operations that write the card, all but activate load and commit in
\* two steps at most; the others have nothing to mean.
LEMMA JudgedStep ==
    ASSUME TypeInv, JudgedInv, NEW t \in Threads, Step(t)
    PROVE  Judged(req'[t])
<1> DEFINE r == req[t]
           q == req'[t]
<1>0. /\ r \in Request /\ req \in [Threads -> Request] /\ Judged(r) /\ WellFormed(r)
      /\ now \in Nat /\ now # Null
  BY ConstantsAssumption, NullAssumption DEF TypeInv, JudgedInv
<1>1. ASSUME NEW a \in Answers, Answer(t, a) PROVE Judged(q)
  BY <1>0, <1>1 DEF Answer, Judged, Answers
<1>2. ASSUME NEW op, NEW c, NEW m, NEW want, NEW pc, Load(t, op, c, m, want, pc)
      PROVE  /\ q.pc = pc /\ q.op = op /\ q.card = c
             /\ q.seen = cards[c] /\ q.want = want
  BY <1>0, <1>2 DEF Load
<1>3. ASSUME NEW want, NEW rows, ToCommit(t, want, rows)
      PROVE  /\ q.pc = "commit" /\ q.op = r.op /\ q.card = r.card
             /\ q.seen = r.seen /\ q.want = want
  BY <1>0, <1>3 DEF ToCommit, Request
<1>4. ASSUME q.pc \notin Answers, q.op = "activate" PROVE Judged(q)
  <2>1. CASE q.pc = "find" /\ q.want = q.seen /\ q.seen.status # "banned"
    BY <2>1, JudgedAsLoaded
  <2>2. CASE /\ r.pc \in {"find", "list"} /\ r.op = "activate" /\ q.card = r.card
             /\ q.seen = r.seen /\ q.pc = "list" /\ q.want = r.want
    BY <1>0, <2>2 DEF Judged, Answers, DeviceOps
  <2>3. CASE /\ r.pc \in {"find", "list"} /\ r.op = "activate" /\ q.card = r.card
             /\ q.seen = r.seen /\ q.pc = "commit" /\ q.want = Activated(r.card, r.seen)
    <3>1. r.seen \in CardRow /\ r.card \in Cards /\ r.seen.status # "banned"
      BY <1>0, <2>3 DEF WellFormed, Judged, Answers, DeviceOps
    <3>2. CASE r.seen.status # "unused"
      BY <1>4, <2>3, <3>1, <3>2 DEF Activated, Judged, Meant
    <3>3. CASE r.seen.status = "unused"
      <4> DEFINE e == ComputeExpiry(r.card)
      <4>1. Kind[r.card] = "time" /\ Duration[r.card] > 0 => e # Null
        BY <1>0, <3>1, ConstantsAssumption, NullAssumption DEF ComputeExpiry
      <4> HIDE DEF e
      <4>2. q.want = [r.seen EXCEPT !.status = "active", !.activated = now, !.expires = e]
        BY <2>3, <3>3 DEF Activated, e
      <4>3. q.want.status = "active" /\ q.want.activated = now /\ q.want.expires = e
        BY <3>1, <4>2 DEF CardRow
      <4> QED BY <1>0, <1>4, <2>3, <3>1, <3>3, <4>1, <4>3 DEF Judged, Meant
    <3> QED BY <3>2, <3>3
  <2> QED BY <1>4, <2>1, <2>2, <2>3, ActivationMoves
<1>5. ASSUME q.op # "activate", ClientRequest(t) PROVE Judged(q)
  <2>1. ASSUME NEW c \in Cards, NEW m \in Machines, ActivateLoad(t, c, m) PROVE Judged(q)
    BY <1>1, <1>2, <1>5, <2>1 DEF ActivateLoad, Answers
  <2>2. ASSUME NEW c \in Cards, NEW m \in Machines,
               VerifyLoad(t, c, m) \/ SelfUnbindLoad(t, c, m)
        PROVE  Judged(q)
    BY <1>1, <1>2, <1>5, <2>2, JudgedAsLoaded DEF VerifyLoad, SelfUnbindLoad, Answers
  <2>3. CASE ActivateFind(t) \/ ActivateCount(t)
    BY <1>0, <1>1, <1>3, <1>5, <2>3 DEF ActivateFind, ActivateCount, Answers, Request
  <2>4. CASE FindBinding(t)
    BY <1>1, <1>3, <2>4 DEF FindBinding, Answers, Judged, Meant
  <2> QED BY <1>5, <2>1, <2>2, <2>3, <2>4 DEF ClientRequest
<1>6. ASSUME CardPage(t) PROVE Judged(q)
  <2>1. ASSUME NEW c \in Cards, cards[c] # Null PROVE cards[c] \in CardRow
    BY <2>1 DEF TypeInv
  <2>2. ASSUME NEW c \in Cards, Ban(t, c) \/ Unban(t, c) PROVE Judged(q)
    BY <1>1, <1>2, <2>1, <2>2 DEF Ban, Unban, CardGone, Answers, Judged, Meant, CardRow
  <2>3. ASSUME NEW c \in Cards, NEW limit \in 0..MaxLimit, NEW minutes \in Extensions,
               Edit(t, c, limit, minutes)
        PROVE  Judged(q)
    <3> DEFINE l == AtLeastOne(limit)
               e == Extended(cards[c], minutes)
               want == [cards[c] EXCEPT !.limit = l, !.expires = e]
    <3>1. CASE cards[c] # Null /\ Load(t, "edit", c, Null, want, "commit")
      <4>1. e # cards[c].expires => e # Null
        <5>1. SUFFICES ASSUME minutes # 0 PROVE e # Null
          BY DEF Extended
        <5>2. minutes \in Int /\ cards[c].expires \in Times \cup {Null}
          BY <2>1, <3>1, ConstantsAssumption DEF CardRow
        <5>3. e \in Int
          BY <1>0, <5>1, <5>2 DEF Extended, Times
        <5> QED BY <5>3, NullAssumption
      <4> HIDE DEF l, e
      <4>2. want.expires = e
        BY <2>1, <3>1 DEF CardRow
      <4>3. q.pc = "commit" /\ q.op = "edit" /\ q.seen = cards[c] /\ q.want = want
        BY <1>2, <3>1
      <4> QED BY <4>1, <4>2, <4>3 DEF Judged, Meant
    <3> QED BY <1>1, <2>3, <3>1 DEF Edit, CardGone, Answers
  <2>4. ASSUME NEW c \in Cards, ResetLoad(t, c) \/ UnbindAllLoad(t, c) \/ DeleteLoad(t, c)
        PROVE  Judged(q)
    BY <1>1, <1>2, <2>4, JudgedAsLoaded
       DEF ResetLoad, UnbindAllLoad, DeleteLoad, LoadForDevices, CardGone, Answers
  <2>5. CASE ResetList(t)
    <3> DEFINE want == [r.seen EXCEPT !.status = "unused", !.activated = Null, !.expires = Null]
    <3>1. r.op = "reset" /\ r.seen \in CardRow
      BY <1>0, <2>5 DEF ResetList, WellFormed, Answers, DeviceOps
    <3>2. want.status = "unused" /\ want.activated = Null
      BY <3>1 DEF CardRow
    <3>3. ToCommit(t, want, Bindings(r.card))
      BY <2>5 DEF ResetList
    <3> HIDE DEF want
    <3> QED BY <1>3, <3>1, <3>2, <3>3 DEF Judged, Meant
  <2>6. CASE UnbindAllList(t) \/ DeleteList(t)
    BY <1>1, <1>3, <2>6 DEF UnbindAllList, DeleteList, Answers, Judged, Meant
  <2> QED BY <1>6, <2>2, <2>3, <2>4, <2>5, <2>6 DEF CardPage
<1>7. CASE DevicePage(t)
  <2>1. ASSUME NEW op \in DeviceOps, NEW i, NEW m, DeviceLoad(t, op, i, m) PROVE Judged(q)
    BY <1>0, <2>1 DEF DeviceLoad, Judged
  <2> QED BY <1>1, <1>7, <2>1 DEF DevicePage, DeviceGone, DeviceEdit, DeviceUnbind,
             DeviceDelete, Answers, DeviceOps
<1>8. CASE Commit(t) \/ Abort(t)
  BY <1>1, <1>8 DEF Commit, Abort, Answers
<1>9. q.pc \in Answers => Judged(q)
  BY DEF Judged
<1> QED BY <1>4, <1>5, <1>6, <1>7, <1>8, <1>9 DEF Step

LEMMA JudgedHolds == Spec => []JudgedInv
<1>1. Init => JudgedInv
  BY DEF Init, Idle, JudgedInv, Judged, Answers
<1>2. TypeInv /\ JudgedInv /\ [Next]_vars => JudgedInv'
  <2> SUFFICES ASSUME TypeInv, JudgedInv, [Next]_vars, NEW s \in Threads
               PROVE  Judged(req[s])'
    BY DEF JudgedInv
  <2>0. Judged(req[s])' <=> Judged(req'[s])
    BY DEF Judged, Meant, StatusBefore
  <2>1. CASE req' = req
    BY <2>0, <2>1 DEF JudgedInv
  <2>2. ASSUME NEW t \in Threads, Step(t) PROVE Judged(req'[s])
    BY <2>2, JudgedStep, StepChangesOneRequest DEF JudgedInv
  <2> QED BY <2>0, <2>1, <2>2 DEF Next, Tick, vars
<1> QED BY <1>1, <1>2, TypeInvHolds, PTL DEF Spec

\* A commit writes the columns it changed over the row of its card as it is by
\* now; it does not bring a deleted card back.
LEMMA FlushedColumns ==
    ASSUME TypeInv, NEW t \in Threads, Commit(t), NEW c \in Cards, cards'[c] # Null
    PROVE  LET r == req[t] IN
           /\ cards[c] # Null /\ cards[c] \in CardRow
           /\ \/ cards'[c] = cards[c]
              \/ /\ r.pc = "commit" /\ r.card = c /\ r.op \in AllOps \ DeviceOps
                 /\ r.op # "delete" /\ WritesCard(r)
                 /\ r.seen \in CardRow /\ r.want \in CardRow
                 /\ cards'[c] = FlushedCard(r, cards[c])
<1> DEFINE r == req[t]
<1>1. /\ r.pc = "commit" /\ r.pc \notin Answers /\ WellFormed(r) /\ UpdatesFindTheirRows(r)
      /\ cards' = [cards EXCEPT ![r.card] = CardAfter(r, cards[r.card])]
      /\ cards \in [Cards -> CardRow \cup {Null}]
  BY DEF Commit, TypeInv, Answers
<1>2. CASE c # r.card
  BY <1>1, <1>2
<1>3. CASE c = r.card
  <2>1. cards'[c] = CardAfter(r, cards[c]) /\ r.op # "delete"
    BY <1>1, <1>3 DEF CardAfter
  <2>2. CASE ~WritesCard(r)
    BY <1>1, <2>1, <2>2 DEF CardAfter
  <2>3. CASE WritesCard(r)
    <3>1. cards[c] # Null /\ cards'[c] = FlushedCard(r, cards[c])
      BY <1>1, <1>3, <2>1, <2>3 DEF CardAfter, UpdatesFindTheirRows
    <3>2. r.op \in AllOps \ DeviceOps /\ r.seen \in CardRow /\ r.want \in CardRow
      BY <1>1, <2>3 DEF WellFormed, WritesCard
    <3> QED BY <1>1, <1>3, <2>1, <2>3, <3>1, <3>2
  <2> QED BY <2>2, <2>3
<1> QED BY <1>2, <1>3

-----------------------------------------------------------------------------
(* Bans                                                                    *)

\* No ban is committed between an activation's loading the card, unused, and
\* its commit.
NoBanMeanwhile ==
    \A t, u \in Threads : Commit(t) /\ req[t].op = "ban" /\ Activating(u, req[t].card) =>
        req[u].seen.status # "unused"

\* An activation that will write the status finds the card not banned.
UnbannedInv ==
    \A u \in Threads :
        req[u].pc \notin Answers /\ req[u].op = "activate" /\ req[u].seen.status = "unused" =>
           cards[req[u].card] = Null \/ cards[req[u].card].status # "banned"

\* Only a ban bans.
LEMMA BannedByBan ==
    ASSUME TypeInv, OwnedInv, JudgedInv, NEW t \in Threads, Commit(t), NEW c \in Cards,
           cards'[c] # Null, cards'[c].status # cards[c].status
    PROVE  LET r == req[t] IN
           /\ r.pc = "commit" /\ r.card = c /\ cards'[c].status = r.want.status
           /\ r.want.status # r.seen.status
           /\ \/ r.op = "ban" /\ r.want.status = "banned"
              \/ /\ r.want.status # "banned"
                 /\ \/ r.op = "activate" /\ r.seen.status = "unused"
                    \/ r.op \in {"unban", "reset"}
<1> DEFINE r == req[t]
<1>1. /\ r.pc = "commit" /\ r.card = c /\ r.op \notin DeviceOps
      /\ cards'[c] = FlushedCard(r, cards[c])
  BY FlushedColumns
<1>2. cards'[c].status = r.want.status /\ r.want.status # r.seen.status
  BY <1>1 DEF FlushedCard, Column
<1>3. Meant(r) /\ r.op \in {"activate", "ban", "unban", "reset"}
  BY <1>1, <1>2 DEF JudgedInv, Judged, OwnedInv, Owned, Answers
<1> QED BY <1>1, <1>2, <1>3 DEF Meant, StatusBefore

LEMMA UnbannedStep ==
    ASSUME TypeInv, OwnedInv, JudgedInv, UnbannedInv, [Next]_vars, [NoBanMeanwhile]_vars
    PROVE  UnbannedInv'
<1> SUFFICES ASSUME NEW u \in Threads, req'[u].pc \notin Answers, req'[u].op = "activate",
                    req'[u].seen.status = "unused", cards'[req'[u].card] # Null
             PROVE  cards'[req'[u].card].status # "banned"
  BY DEF UnbannedInv
<1>1. CASE UNCHANGED <<cards, req>>
  BY <1>1 DEF UnbannedInv
<1>2. CASE Step(u)
  <2>1. UNCHANGED cards
    BY <1>2, ActivationMoves DEF Tables
  <2>2. CASE req'[u].seen = cards[req'[u].card] /\ req'[u].seen.status # "banned"
    BY <2>1, <2>2
  <2>3. CASE /\ req[u].pc \in {"find", "list"} /\ req[u].op = "activate"
             /\ req'[u].card = req[u].card /\ req'[u].seen = req[u].seen
    BY <2>1, <2>3 DEF UnbannedInv, Answers
  <2> QED BY <1>2, <2>2, <2>3, ActivationMoves
<1>3. ASSUME NEW t \in Threads, t # u, Step(t)
      PROVE  cards'[req'[u].card].status # "banned"
  <2>1. req'[u] = req[u] /\ req[u].card \in Cards
    BY <1>3, StepChangesOneRequest DEF TypeInv, WellFormed
  <2> DEFINE c == req[u].card
  <2>2. CASE cards'[c] = cards[c]
    BY <2>1, <2>2 DEF UnbannedInv
  <2>3. CASE cards'[c] # cards[c]
    <3>1. PICK s \in Threads : Commit(s)
      BY <2>1, <2>3, OnlyCommitsWrite
    <3>2. cards[c] # Null /\ cards[c].status # "banned"
      BY <2>1, <3>1, FlushedColumns DEF UnbannedInv
    <3>3. req'[s] # req[s]
      BY <3>1 DEF Commit, Answer, Idle, TypeInv
    <3>4. NoBanMeanwhile
      BY <3>3 DEF vars
    <3>5. ASSUME cards'[c].status = "banned" PROVE FALSE
      <4>1. req[s].op = "ban" /\ req[s].card = c
        BY <2>1, <3>1, <3>2, <3>5, BannedByBan
      <4>2. Activating(u, c) /\ req[u].seen.status = "unused"
        BY <2>1 DEF Activating
      <4> QED BY <3>1, <3>4, <4>1, <4>2 DEF NoBanMeanwhile
    <3> QED BY <2>1, <3>5
  <2> QED BY <2>1, <2>2, <2>3
<1> QED BY <1>1, <1>2, <1>3 DEF Next, Tick, vars

\* A banned card stays banned until an administrator ends the ban.  Of all
\* overlaps one alone can end it: an activation that loaded the card unused
\* commits over the ban.  A renewed activation, a heartbeat or a changed limit
\* that loaded the card before the ban does not write the status.
THEOREM BansOutlastRequests == Spec /\ [][NoBanMeanwhile]_vars => BanIsSticky
<1>1. Init => UnbannedInv
  BY DEF Init, Idle, UnbannedInv, Answers
<1>2. TypeInv /\ OwnedInv /\ JudgedInv /\ UnbannedInv /\ [Next]_vars /\ [NoBanMeanwhile]_vars
        => UnbannedInv'
  BY UnbannedStep
<1>3. ASSUME TypeInv, OwnedInv, JudgedInv, UnbannedInv, [Next]_vars, NEW c \in Cards,
             cards[c] # Null, cards[c].status = "banned",
             cards'[c] # Null, cards'[c].status # "banned"
      PROVE  \E t \in Committing(c) : req[t].op \in {"unban", "reset"}
  <2>1. PICK t \in Threads : Commit(t)
    BY <1>3, OnlyCommitsWrite
  <2>2. /\ req[t].pc = "commit" /\ req[t].card = c
        /\ \/ req[t].op = "activate" /\ req[t].seen.status = "unused"
           \/ req[t].op \in {"unban", "reset"}
    BY <1>3, <2>1, BannedByBan
  <2>3. ~(req[t].op = "activate" /\ req[t].seen.status = "unused")
    BY <1>3, <2>2 DEF UnbannedInv, Answers
  <2>4. t \in Committing(c)
    BY <1>3, <2>1, <2>2 DEF Committing, Commit, Answer, Idle, TypeInv
  <2> QED BY <2>2, <2>3, <2>4
<1>4. TypeInv /\ OwnedInv /\ JudgedInv /\ UnbannedInv /\ [Next]_vars =>
        [\A c \in Cards :
           cards[c] # Null /\ cards[c].status = "banned" =>
              \/ cards'[c] = Null
              \/ cards'[c].status = "banned"
              \/ \E t \in Committing(c) : req[t].op \in {"unban", "reset"}]_vars
  BY <1>3
<1> QED BY <1>1, <1>2, <1>4, TypeInvHolds, OwnedHolds, JudgedHolds, PTL DEF Spec, BanIsSticky

-----------------------------------------------------------------------------
(* The device limit                                                        *)

\* While an activation is in flight nobody lowers the limit it has read, and
\* once it has counted the bindings and found none of its machine, nobody
\* adds one.
CountStands ==
    \A t, u \in Threads : Commit(t) /\ u # t /\ Activating(u, req[t].card) =>
        LET c == req[t].card IN
        /\ cards'[c] # Null => cards'[c].limit >= cards[c].limit
        /\ Inserts(req[t]) => u \notin Binding(c)

\* What an activation has read of the limit is no more than the limit, and if
\* it has counted, there is still room.
RoomInv ==
    \A u \in Threads, c \in Cards : Activating(u, c) /\ cards[c] # Null =>
        /\ req[u].seen.limit <= cards[c].limit
        /\ u \in Binding(c) => Cardinality(Bindings(c)) < cards[c].limit

LEMMA RoomStep ==
    ASSUME TypeInv, RoomInv, [Next]_vars, [CountStands]_vars
    PROVE  RoomInv'
<1> SUFFICES ASSUME NEW u \in Threads, NEW c \in Cards,
                    Activating(u, c)', cards'[c] # Null
             PROVE  /\ req'[u].seen.limit <= cards'[c].limit
                    /\ u \in Binding(c)' => Cardinality(Bindings(c)') < cards'[c].limit
  BY DEF RoomInv
<1>0. /\ req'[u].pc \notin Answers /\ req'[u].op = "activate" /\ req'[u].card = c
      /\ u \in Binding(c)' <=> req'[u].pc = "commit" /\ req'[u].rows = {}
  BY DEF Activating, Binding, Inserts
<1>1. CASE req'[u] = req[u] /\ UNCHANGED <<cards, devices>>
  <2>1. Bindings(c)' = Bindings(c)
    BY <1>1 DEF Bindings, RowsOf
  <2>2. Activating(u, c) /\ (u \in Binding(c)' => u \in Binding(c))
    BY <1>0, <1>1 DEF Activating, Binding, Inserts
  <2> QED BY <1>1, <2>1, <2>2 DEF RoomInv
<1>2. CASE Step(u)
  <2>1. UNCHANGED <<cards, devices>> /\ Bindings(c)' = Bindings(c)
    <3>1. UNCHANGED <<cards, devices>>
      BY <1>0, <1>2, ActivationMoves DEF Tables
    <3> QED BY <3>1 DEF Bindings, RowsOf
  <2>2. cards[c] \in CardRow /\ cards[c].limit \in Nat /\ Cardinality(Bindings(c)) \in Nat
    BY <2>1, SetsAreFinite, ConstantsAssumption DEF TypeInv, CardRow
  <2>3. CASE req'[u].pc = "find" /\ req'[u].seen = cards[c]
    BY <1>0, <2>1, <2>2, <2>3
  <2>4. CASE /\ req[u].pc \in {"find", "list"} /\ req[u].op = "activate"
             /\ req[u].card = c /\ req'[u].seen = req[u].seen
             /\ req'[u].rows = {} /\ req'[u].pc = "commit" => ~LimitReached(req[u])
    <3>1. req[u].seen.limit <= cards[c].limit
      BY <2>1, <2>4 DEF RoomInv, Activating, Answers
    <3>2. req[u].seen.limit \in Nat
      BY <2>4, ConstantsAssumption DEF TypeInv, WellFormed, Answers, DeviceOps, CardRow
    <3>3. u \in Binding(c)' => Cardinality(Bindings(c)) < req[u].seen.limit
      BY <1>0, <2>2, <2>4, <3>2 DEF LimitReached
    <3> QED BY <2>1, <2>2, <2>4, <3>1, <3>2, <3>3
  <2>5. \A i : {i} # {}
    OBVIOUS
  <2> QED BY <1>0, <1>2, <2>3, <2>4, <2>5, ActivationMoves
<1>3. ASSUME NEW t \in Threads, t # u, Commit(t)
      PROVE  /\ req'[u].seen.limit <= cards'[c].limit
             /\ u \in Binding(c)' => Cardinality(Bindings(c)') < cards'[c].limit
  <2>1. req'[u] = req[u]
    BY <1>3, StepChangesOneRequest DEF Step
  <2>2. Activating(u, c) /\ (u \in Binding(c)' => u \in Binding(c))
    BY <1>0, <2>1 DEF Activating, Binding, Inserts
  <2>3. CountStands
    <3>1. req'[t] # req[t]
      BY <1>3 DEF Commit, Answer, Idle, TypeInv
    <3> QED BY <3>1 DEF vars
  <2>4. /\ cards[c] # Null /\ cards[c] \in CardRow /\ cards[c].limit \in Nat
        /\ cards'[c] \in CardRow /\ cards'[c].limit \in Nat
    <3>1. cards[c] # Null /\ cards[c] \in CardRow
      BY <1>3, FlushedColumns
    <3>2. cards'[c] \in CardRow
      BY <1>3, CommitStep DEF TypeInv
    <3> QED BY <3>1, <3>2, ConstantsAssumption DEF CardRow
  <2>5. cards'[c].limit >= cards[c].limit
    <3>1. CASE req[t].card = c
      BY <1>3, <2>2, <2>3, <3>1 DEF CountStands
    <3>2. CASE req[t].card # c
      BY <1>3, <2>4, <3>2, FlushedColumns
    <3> QED BY <3>1, <3>2
  <2>6. req[u].seen.limit <= cards[c].limit /\ req[u].seen.limit \in Nat
    BY <2>2, <2>4, ConstantsAssumption
       DEF RoomInv, TypeInv, WellFormed, Activating, DeviceOps, CardRow
  <2>7. ASSUME u \in Binding(c) PROVE Cardinality(Bindings(c)') < cards'[c].limit
    <3>1. IsFiniteSet(Bindings(c)) /\ Cardinality(Bindings(c)) \in Nat
          /\ Cardinality(Bindings(c)) < cards[c].limit
      BY <2>2, <2>4, <2>7, SetsAreFinite DEF RoomInv
    <3>2. Bindings(c)' \subseteq Bindings(c)
      <4>1. ASSUME t \in Binding(c) PROVE FALSE
        BY <1>3, <2>2, <2>3, <2>7, <4>1 DEF CountStands, Binding
      <4> QED BY <1>3, <4>1, BindingsGrowByInsertion
    <3>3. /\ Cardinality(Bindings(c)') \in Nat
          /\ Cardinality(Bindings(c)') <= Cardinality(Bindings(c))
      BY <3>1, <3>2, FS_Subset, FS_CardinalityType
    <3> QED BY <2>4, <2>5, <3>1, <3>3
  <2> QED BY <2>1, <2>2, <2>4, <2>5, <2>6, <2>7
<1>4. ASSUME NEW t \in Threads, t # u, Step(t), ~Commit(t)
      PROVE  req'[u] = req[u] /\ UNCHANGED <<cards, devices>>
  <2>1. req'[u] = req[u]
    BY <1>4, StepChangesOneRequest
  <2>2. UNCHANGED <<cards, devices>>
    BY <1>4 DEF Step, Abort, Tables, ClientRequest, ActivateLoad, VerifyLoad, SelfUnbindLoad,
       ActivateFind, ActivateCount, FindBinding, CardPage, Ban, Unban, Edit, ResetLoad,
       UnbindAllLoad, DeleteLoad, LoadForDevices, ResetList, UnbindAllList, DeleteList,
       DevicePage, DeviceEdit, DeviceUnbind, DeviceDelete
  <2> QED BY <2>1, <2>2
<1> QED BY <1>1, <1>2, <1>3, <1>4 DEF Next, Tick, vars

\* "Once the limit is reached, activation on a new device is refused".  The
\* limit is exceeded only if two activations that both counted commit one
\* after the other, or if an edit lowers it under an activation in flight.
THEOREM LimitNeedsStableCount == Spec /\ [][CountStands]_vars => NewBindingWithinLimit
<1>1. Init => RoomInv
  BY DEF Init, Idle, RoomInv, Activating, Answers
<1>2. TypeInv /\ RoomInv /\ [Next]_vars /\ [CountStands]_vars => RoomInv'
  BY RoomStep
<1>3. ASSUME TypeInv, OwnedInv, RoomInv, [Next]_vars, NEW c \in Cards, cards'[c] # Null,
             Cardinality(Bindings(c)') > Cardinality(Bindings(c))
      PROVE  Cardinality(Bindings(c)') <= cards'[c].limit
  <2> DEFINE B == Bindings(c)
  <2>0. IsFiniteSet(B) /\ Cardinality(B) \in Nat
    BY SetsAreFinite
  <2>1. PICK t \in Threads : Commit(t)
    <3>1. ASSUME UNCHANGED <<cards, devices>> PROVE FALSE
      <4>1. B' = B
        BY <3>1 DEF Bindings, RowsOf
      <4> QED BY <1>3, <2>0, <4>1
    <3> QED BY <1>3, <3>1, OnlyCommitsWrite
  <2>2. ~(B' \subseteq B)
    <3>1. ASSUME B' \subseteq B PROVE FALSE
      <4>1. Cardinality(B') \in Nat /\ Cardinality(B') <= Cardinality(B)
        BY <2>0, <3>1, FS_Subset, FS_CardinalityType
      <4> QED BY <1>3, <2>0, <4>1
    <3> QED BY <3>1
  <2>3. PICK k \in RowIds : B' \subseteq B \cup {k}
    BY <1>3, <2>1, <2>2, BindingsGrowByInsertion
  <2>4. t \in Binding(c)
    BY <1>3, <2>1, <2>2, BindingsGrowByInsertion
  <2>5. Cardinality(B') \in Nat /\ Cardinality(B') <= Cardinality(B) + 1
    <3>1. k \notin B
      BY <2>2, <2>3
    <3>2. IsFiniteSet(B \cup {k}) /\ Cardinality(B \cup {k}) = Cardinality(B) + 1
      BY <2>0, <3>1, FS_AddElement
    <3> HIDE DEF B
    <3>3. Cardinality(Bindings(c)') \in Nat
          /\ Cardinality(Bindings(c)') <= Cardinality(B \cup {k})
      BY <2>3, <3>2, FS_Subset, FS_CardinalityType DEF B
    <3> QED BY <3>2, <3>3 DEF B
  <2>6. cards[c] # Null /\ cards[c] \in CardRow /\ cards'[c].limit = cards[c].limit
    <3>1. req[t].op = "activate" /\ req[t].pc = "commit" /\ req[t].op \notin DeviceOps
      BY <2>4 DEF Binding, Inserts, DeviceOps
    <3>2. req[t].want.limit = req[t].seen.limit
      BY <1>3, <3>1 DEF OwnedInv, Owned, Answers
    <3>3. /\ cards[c] # Null /\ cards[c] \in CardRow
          /\ cards'[c] = cards[c] \/ cards'[c] = FlushedCard(req[t], cards[c])
      BY <1>3, <2>1, FlushedColumns
    <3>4. FlushedCard(req[t], cards[c]).limit = cards[c].limit
      BY <3>2 DEF FlushedCard, Column
    <3> QED BY <3>3, <3>4
  <2>7. Cardinality(B) < cards[c].limit
    BY <1>3, <2>4, <2>6 DEF RoomInv, Binding, Activating, Inserts, Answers
  <2>8. cards[c].limit \in Nat
    BY <2>6, ConstantsAssumption DEF CardRow
  <2> QED BY <2>0, <2>5, <2>6, <2>7, <2>8
<1>4. TypeInv /\ OwnedInv /\ RoomInv /\ [Next]_vars =>
        [\A c \in Cards :
           cards'[c] # Null /\ Cardinality(Bindings(c)') > Cardinality(Bindings(c)) =>
              Cardinality(Bindings(c)') <= cards'[c].limit]_vars
  BY <1>3
<1> QED BY <1>1, <1>2, <1>4, TypeInvHolds, OwnedHolds, PTL DEF Spec, NewBindingWithinLimit

-----------------------------------------------------------------------------
(* How far the limit is overshot                                           *)

\* No edit lowers a limit.
LimitsStand ==
    \A c \in Cards : cards[c] # Null /\ cards'[c] # Null =>
        cards'[c].limit >= cards[c].limit

\* What an activation has read of the limit is no more than the limit.
ReadLimitInv ==
    \A u \in Threads, c \in Cards : Activating(u, c) /\ cards[c] # Null =>
        req[u].seen.limit <= cards[c].limit

LEMMA LimitGrows ==
    ASSUME TypeInv, [Next]_vars, [LimitsStand]_vars, NEW c \in Cards, cards'[c] # Null
    PROVE  /\ cards[c] # Null /\ cards[c].limit \in Nat /\ cards'[c].limit \in Nat
           /\ cards[c].limit <= cards'[c].limit
<1>1. CASE UNCHANGED <<cards, devices>>
  BY <1>1, ConstantsAssumption DEF TypeInv, CardRow
<1>2. ASSUME NEW t \in Threads, Commit(t)
      PROVE  /\ cards[c] # Null /\ cards[c].limit \in Nat /\ cards'[c].limit \in Nat
             /\ cards[c].limit <= cards'[c].limit
  <2>1. cards[c] # Null /\ cards[c] \in CardRow
    BY <1>2, FlushedColumns
  <2>2. cards'[c] \in CardRow
    BY <1>2, CommitStep DEF TypeInv
  <2>3. LimitsStand
    <3>1. req'[t] # req[t]
      BY <1>2 DEF Commit, Answer, Idle, TypeInv
    <3> QED BY <3>1 DEF vars
  <2> QED BY <2>1, <2>2, <2>3, ConstantsAssumption DEF LimitsStand, CardRow
<1> QED BY <1>1, <1>2, OnlyCommitsWrite

LEMMA ReadLimitStep ==
    ASSUME TypeInv, ReadLimitInv, [Next]_vars, [LimitsStand]_vars
    PROVE  ReadLimitInv'
<1> SUFFICES ASSUME NEW u \in Threads, NEW c \in Cards,
                    Activating(u, c)', cards'[c] # Null
             PROVE  req'[u].seen.limit <= cards'[c].limit
  BY DEF ReadLimitInv
<1>0. /\ req'[u].pc \notin Answers /\ req'[u].op = "activate" /\ req'[u].card = c
      /\ cards[c] # Null /\ cards[c].limit \in Nat /\ cards'[c].limit \in Nat
      /\ cards[c].limit <= cards'[c].limit
  BY LimitGrows DEF Activating
<1>1. CASE req'[u] = req[u]
  <2>1. Activating(u, c) /\ req[u].seen \in CardRow
    BY <1>0, <1>1 DEF Activating, TypeInv, WellFormed, DeviceOps
  <2>2. req[u].seen.limit \in Nat
    BY <2>1, ConstantsAssumption DEF CardRow
  <2> QED BY <1>0, <1>1, <2>1, <2>2 DEF ReadLimitInv
<1>2. CASE Step(u)
  <2>1. cards' = cards
    BY <1>0, <1>2, ActivationMoves DEF Tables
  <2>2. CASE req'[u].seen = cards[c]
    BY <1>0, <2>2
  <2>3. CASE /\ req[u].pc \in {"find", "list"} /\ req[u].op = "activate"
             /\ req[u].card = c /\ req'[u].seen = req[u].seen
    BY <1>0, <2>1, <2>3 DEF ReadLimitInv, Activating, Answers
  <2> QED BY <1>0, <1>2, <2>2, <2>3, ActivationMoves
<1>3. ASSUME NEW t \in Threads, t # u, Step(t) PROVE req'[u] = req[u]
  BY <1>3, StepChangesOneRequest
<1> QED BY <1>1, <1>2, <1>3 DEF Next, Tick, vars

\* The devices bound to a card and about to be.
LEMMA OvershootStep ==
    ASSUME TypeInv, ReadLimitInv, OvershootBounded, [Next]_vars, [LimitsStand]_vars,
           NEW c \in Cards, cards'[c] # Null
    PROVE  Cardinality(Bindings(c)') + Cardinality(Binding(c)')
               <= cards'[c].limit + Cardinality(Threads) - 1
<1> DEFINE B == Bindings(c)
           P == Binding(c)
           N == Cardinality(Threads)
           L == cards[c].limit
           M == cards'[c].limit
<1>0. /\ IsFiniteSet(B) /\ Cardinality(B) \in Nat
      /\ IsFiniteSet(P) /\ Cardinality(P) \in Nat
      /\ N \in Nat /\ L \in Nat /\ M \in Nat /\ L <= M /\ cards[c] # Null
      /\ Cardinality(B) + Cardinality(P) <= L + N - 1
  BY SetsAreFinite, LimitGrows DEF OvershootBounded
<1>1. /\ IsFiniteSet(B') /\ Cardinality(B') \in Nat
      /\ IsFiniteSet(P') /\ Cardinality(P') \in Nat /\ Cardinality(P') <= N
  <2>1. B' \subseteq RowIds /\ IsFiniteSet(RowIds)
    <3>1. B' \subseteq RowIds
      BY DEF Bindings, RowsOf
    <3>2. IsFiniteSet(RowIds)
      BY FS_Interval, ConstantsAssumption DEF RowIds
    <3> QED
      BY <3>1, <3>2
  <2>2. P' \subseteq Threads /\ IsFiniteSet(Threads)
    BY ConstantsAssumption DEF Binding
  <2> QED
    BY <2>1, <2>2, FS_Subset, FS_CardinalityType
<1>2. ASSUME B' \subseteq B, P' \subseteq P
      PROVE  Cardinality(B') + Cardinality(P') <= M + N - 1
  <2>1. Cardinality(B') <= Cardinality(B) /\ Cardinality(P') <= Cardinality(P)
    BY <1>0, <1>2, FS_Subset
  <2> HIDE DEF B, P, N, L, M
  <2> QED
    BY <1>0, <1>1, <2>1
<1>3. CASE UNCHANGED <<cards, devices, req>>
  BY <1>2, <1>3 DEF Bindings, RowsOf, Binding
<1>4. ASSUME NEW t \in Threads, Step(t)
      PROVE  Cardinality(B') + Cardinality(P') <= M + N - 1
  <2>1. \A s \in Threads \ {t} : s \in P' <=> s \in P
    BY <1>4, StepChangesOneRequest DEF Binding, Inserts
  <2>2. P' \subseteq Threads /\ P \subseteq Threads
    BY DEF Binding
  <2>3. CASE t \in P'
    <3>1. ActivateCount(t) /\ ~LimitReached(req[t]) /\ req[t].card = c
      BY <1>4, <2>3, OnlyCountLeadsToBinding DEF Binding
    <3>2. req[t].seen \in CardRow
      BY <3>1 DEF ActivateCount, TypeInv, WellFormed, Answers, DeviceOps
    <3>3. B' = B
      BY <3>1 DEF ActivateCount, Tables, Bindings, RowsOf
    <3>4. /\ Cardinality(B) < req[t].seen.limit /\ req[t].seen.limit \in Nat
          /\ req[t].seen.limit <= L
      <4>1. Activating(t, c)
        BY <3>1 DEF ActivateCount, Activating, Answers
      <4>2. req[t].seen.limit \in Nat
        BY <3>2, ConstantsAssumption DEF CardRow
      <4> QED BY <1>0, <3>1, <4>1, <4>2 DEF LimitReached, ReadLimitInv
    <3> HIDE DEF B, P, N, L, M
    <3> QED
      BY <1>0, <1>1, <3>3, <3>4
  <2>4. CASE t \notin P'
    <3>1. P' \subseteq P
      BY <2>1, <2>2, <2>4
    <3>2. CASE B' \subseteq B
      BY <1>2, <3>1, <3>2
    <3>3. CASE ~(B' \subseteq B)
      <4>1. PICK s \in Threads : Commit(s)
        BY <3>3, OnlyCommitsWrite DEF Bindings, RowsOf
      <4>2. s \in P /\ \E k \in RowIds : B' \subseteq B \cup {k}
        BY <3>3, <4>1, BindingsGrowByInsertion
      <4>3. PICK k \in RowIds : B' \subseteq B \cup {k}
        BY <4>2
      <4>4. s \notin P'
        BY <4>1 DEF Commit, Answer, Idle, Binding, TypeInv, Answers
      <4>5. P' \subseteq P \ {s}
        BY <3>1, <4>4
      <4>6. /\ IsFiniteSet(B \cup {k}) /\ Cardinality(B \cup {k}) <= Cardinality(B) + 1
            /\ IsFiniteSet(P \ {s}) /\ Cardinality(P \ {s}) = Cardinality(P) - 1
        <5> HIDE DEF B, P
        <5>1. IsFiniteSet(B \cup {k}) /\ Cardinality(B \cup {k}) =
                 IF k \in B THEN Cardinality(B) ELSE Cardinality(B) + 1
          BY <1>0, FS_AddElement
        <5>2. IsFiniteSet(P \ {s}) /\ Cardinality(P \ {s}) =
                 IF s \in P THEN Cardinality(P) - 1 ELSE Cardinality(P)
          BY <1>0, FS_RemoveElement
        <5> QED
          BY <1>0, <4>2, <5>1, <5>2
      <4>7. /\ Cardinality(B') <= Cardinality(B) + 1
            /\ Cardinality(P') <= Cardinality(P) - 1
        <5>1. /\ Cardinality(B') <= Cardinality(B \cup {k})
              /\ Cardinality(P') <= Cardinality(P \ {s})
          BY <4>3, <4>5, <4>6, FS_Subset
        <5>2. Cardinality(B \cup {k}) \in Nat
          BY <4>6, FS_CardinalityType
        <5> HIDE DEF B, P
        <5> QED
          BY <1>0, <1>1, <4>6, <5>1, <5>2
      <4> HIDE DEF B, P, N, L, M
      <4> QED
        BY <1>0, <1>1, <4>7
    <3> QED
      BY <3>2, <3>3
  <2> QED
    BY <2>3, <2>4
<1> QED
  BY <1>3, <1>4 DEF Next, Tick, vars

\* However many machines activate one card at the same time, the devices
\* bound and about to be bound exceed the limit of the card by at most one less
\* than the number of concurrent requests, as long as no edit lowers a limit
\* (one that does may leave any number of bindings above it).
THEOREM OvershootIsBounded == Spec /\ [][LimitsStand]_vars => []OvershootBounded
<1>1. Init => ReadLimitInv
  BY DEF Init, Idle, ReadLimitInv, Activating, Answers
<1>2. Init => OvershootBounded
  <2> SUFFICES ASSUME Init, NEW c \in Cards
               PROVE  Cardinality(Bindings(c)) + Cardinality(Binding(c))
                          <= cards[c].limit + Cardinality(Threads) - 1
    BY DEF OvershootBounded
  <2>1. Bindings(c) = {} /\ Binding(c) = {}
    BY DEF Init, Bindings, RowsOf, Binding, Idle
  <2>2. Cardinality(Threads) \in Nat /\ cards[c].limit \in Nat /\ cards[c].limit >= 1
    <3>1. cards[c].limit \in 1..MaxLimit
      BY DEF Init
    <3>2. MaxLimit \in Nat
      BY ConstantsAssumption
    <3>3. Cardinality(Threads) \in Nat
      BY SetsAreFinite
    <3> QED BY <3>1, <3>2, <3>3
  <2> QED BY <2>1, <2>2, FS_EmptySet
<1>3. TypeInv /\ ReadLimitInv /\ [Next]_vars /\ [LimitsStand]_vars => ReadLimitInv'
  BY ReadLimitStep
<1>4. TypeInv /\ ReadLimitInv /\ OvershootBounded /\ [Next]_vars /\ [LimitsStand]_vars =>
        OvershootBounded'
  BY OvershootStep DEF OvershootBounded
<1> QED BY <1>1, <1>2, <1>3, <1>4, TypeInvHolds, PTL DEF Spec

-----------------------------------------------------------------------------
(* Status and dates                                                        *)

\* An unban and a reset commit over the start they read, an activation over
\* the expiry it read; the other columns may have changed.
DatesStand ==
    \A t \in Threads : Commit(t) /\ WritesCard(req[t]) =>
        LET row == cards[req[t].card] IN
        /\ req[t].op \in {"unban", "reset"} => row.activated = req[t].seen.activated
        /\ req[t].op = "activate" => row.expires = req[t].seen.expires

\* The columns of a card agree, in the table and as a request loaded them.
AgreeInv ==
    /\ \A c \in Cards : cards[c] # Null => Coherent(c, cards[c])
    /\ \A t \in Threads : req[t].pc \notin Answers /\ req[t].op \notin DeviceOps =>
          Coherent(req[t].card, req[t].seen)

\* A request has its row from the table.
LEMMA SeenComesFromTable ==
    ASSUME TypeInv, NEW t \in Threads, Step(t),
           req'[t].pc \notin Answers, req'[t].op \notin DeviceOps
    PROVE  LET r == req[t]
               q == req'[t] IN
           \/ q.card \in Cards /\ cards[q.card] # Null /\ q.seen = cards[q.card]
           \/ /\ r.pc \notin Answers /\ r.op \notin DeviceOps
              /\ q.card = r.card /\ q.seen = r.seen
<1> DEFINE r == req[t]
           q == req'[t]
<1>0. r \in Request /\ req \in [Threads -> Request]
  BY DEF TypeInv
<1>1. ASSUME NEW a \in Answers, Answer(t, a) PROVE FALSE
  BY <1>0, <1>1 DEF Answer
<1>2. ASSUME NEW op, NEW c, NEW m, NEW want, NEW pc, Load(t, op, c, m, want, pc)
      PROVE  q.card = c /\ q.seen = cards[c]
  BY <1>0, <1>2 DEF Load
<1>3. ASSUME NEW want, NEW rows, ToCommit(t, want, rows)
      PROVE  q.op = r.op /\ q.card = r.card /\ q.seen = r.seen
  BY <1>0, <1>3 DEF ToCommit, Request
<1>4. CASE ClientRequest(t)
  <2>1. CASE \E c \in Cards, m \in Machines :
                ActivateLoad(t, c, m) \/ VerifyLoad(t, c, m) \/ SelfUnbindLoad(t, c, m)
    BY <1>1, <1>2, <2>1 DEF ActivateLoad, VerifyLoad, SelfUnbindLoad, Answers
  <2>2. CASE ActivateFind(t) \/ ActivateCount(t) \/ FindBinding(t)
    <3>1. r.pc \notin Answers /\ r.op \notin DeviceOps
      BY <2>2 DEF ActivateFind, ActivateCount, FindBinding, Answers, DeviceOps
    <3>2. ASSUME req' = [req EXCEPT ![t].pc = "list"]
          PROVE  q.card = r.card /\ q.seen = r.seen
      BY <1>0, <3>2 DEF Request
    <3> QED BY <1>1, <1>3, <2>2, <3>1, <3>2 DEF ActivateFind, ActivateCount, FindBinding, Answers
  <2> QED BY <1>4, <2>1, <2>2 DEF ClientRequest
<1>5. CASE CardPage(t)
  <2>1. ASSUME NEW c, CardGone(t, c) PROVE FALSE
    BY <1>1, <2>1 DEF CardGone, Answers
  <2>2. CASE \E c \in Cards :
                \/ Ban(t, c)
                \/ Unban(t, c)
                \/ \E limit \in 0..MaxLimit, minutes \in Extensions : Edit(t, c, limit, minutes)
    BY <1>2, <2>1, <2>2 DEF Ban, Unban, Edit
  <2>3. CASE \E c \in Cards : ResetLoad(t, c) \/ UnbindAllLoad(t, c) \/ DeleteLoad(t, c)
    BY <1>2, <2>1, <2>3 DEF ResetLoad, UnbindAllLoad, DeleteLoad, LoadForDevices
  <2>4. CASE ResetList(t) \/ UnbindAllList(t) \/ DeleteList(t)
    <3>1. r.pc \notin Answers /\ r.op \notin DeviceOps
      BY <2>4 DEF ResetList, UnbindAllList, DeleteList, Answers, DeviceOps
    <3> QED BY <1>1, <1>3, <2>4, <3>1 DEF ResetList, UnbindAllList, DeleteList, Answers
  <2> QED BY <1>5, <2>2, <2>3, <2>4 DEF CardPage
<1>6. CASE DevicePage(t)
  <2>1. ASSUME NEW op \in DeviceOps, NEW i, NEW m, DeviceLoad(t, op, i, m) PROVE FALSE
    BY <1>0, <2>1 DEF DeviceLoad
  <2> QED BY <1>1, <1>6, <2>1 DEF DevicePage, DeviceGone, DeviceEdit, DeviceUnbind,
             DeviceDelete, Answers, DeviceOps
<1>7. CASE Commit(t) \/ Abort(t)
  BY <1>1, <1>7 DEF Commit, Abort, Answers
<1> QED BY <1>4, <1>5, <1>6, <1>7 DEF Step

\* Columns that agree still do after a flush: by those it writes, and by those
\* it leaves as they are.
LEMMA FlushAgrees ==
    ASSUME NEW r, NEW row, r.pc = "commit", r.op \in AllOps \ DeviceOps, WritesCard(r),
           Owned(r), Meant(r), Coherent(r.card, r.seen), Coherent(r.card, row),
           r.op \in {"unban", "reset"} => row.activated = r.seen.activated,
           r.op = "activate" => row.expires = r.seen.expires
    PROVE  Coherent(r.card, FlushedCard(r, row))
<1> DEFINE c == r.card
           new == FlushedCard(r, row)
<1>1. /\ new.status = Column(r.seen.status, r.want.status, row.status)
      /\ new.activated = Column(r.seen.activated, r.want.activated, row.activated)
      /\ new.expires = Column(r.seen.expires, r.want.expires, row.expires)
  BY DEF FlushedCard
<1>2. r.pc \notin Answers
  BY DEF Answers
<1>3. Coherent(c, row) /\ Coherent(c, r.seen)
  OBVIOUS
<1> HIDE DEF new
<1>4. ASSUME r.op = "activate" PROVE Coherent(c, new)
  <2>1. /\ r.seen.status = "unused" /\ r.want.status = "active" /\ r.want.activated # Null
        /\ Kind[c] = "time" /\ Duration[c] > 0 => r.want.expires # Null
    BY <1>2, <1>4 DEF Meant, WritesCard
  <2>2. r.seen.activated = Null
    BY <1>2, <2>1 DEF Coherent
  <2>3. new.status = "active" /\ new.activated = r.want.activated
    BY <1>1, <2>1, <2>2 DEF Column
  <2>4. new.expires = r.want.expires
    BY <1>1, <1>4 DEF Column
  <2> QED BY <2>1, <2>3, <2>4 DEF Coherent
<1>5. ASSUME r.op = "ban" PROVE Coherent(c, new)
  <2>1. new.activated = row.activated /\ new.expires = row.expires
    BY <1>1, <1>2, <1>5 DEF Owned, Column
  <2>2. new.status \in {row.status, "banned"}
    BY <1>1, <1>2, <1>5 DEF Meant, Column
  <2> QED BY <2>1, <2>2 DEF Coherent
<1>6. ASSUME r.op = "unban" PROVE Coherent(c, new)
  <2>1. new.activated = row.activated /\ new.expires = row.expires
    BY <1>1, <1>2, <1>6 DEF Owned, Column
  <2>2. new.status \in {row.status, StatusBefore(r.seen)}
    BY <1>1, <1>2, <1>6 DEF Meant, Column
  <2>3. StatusBefore(r.seen) = IF row.activated = Null THEN "unused" ELSE "active"
    BY <1>6 DEF StatusBefore
  <2> QED BY <2>1, <2>2, <2>3 DEF Coherent
<1>7. ASSUME r.op = "reset" PROVE Coherent(c, new)
  <2>1. new.activated = Null
    BY <1>1, <1>2, <1>7 DEF Meant, Column
  <2>2. \/ new.status = "unused"
        \/ new.status = row.status /\ r.seen.status = "unused"
    BY <1>1, <1>2, <1>7 DEF Meant, Column
  <2>3. CASE new.status = "unused"
    BY <2>1, <2>3 DEF Coherent
  <2>4. CASE new.status = row.status /\ r.seen.status = "unused"
    <3>1. row.activated = Null
      BY <1>2, <1>7, <2>4 DEF Coherent
    <3> QED BY <2>1, <2>4, <3>1 DEF Coherent
  <2> QED BY <2>2, <2>3, <2>4
<1>8. ASSUME r.op = "edit" PROVE Coherent(c, new)
  <2>1. new.status = row.status /\ new.activated = row.activated
    BY <1>1, <1>2, <1>8 DEF Owned, Column
  <2>2. new.expires = row.expires \/ new.expires # Null
    BY <1>1, <1>2, <1>8 DEF Meant, Column
  <2> QED BY <2>1, <2>2 DEF Coherent
<1>9. ASSUME r.op \notin {"activate", "ban", "unban", "reset", "edit"} PROVE Coherent(c, new)
  <2>1. /\ new.status = row.status /\ new.activated = row.activated
        /\ new.expires = row.expires
    BY <1>1, <1>2, <1>9 DEF Owned, Column
  <2> QED BY <2>1 DEF Coherent
<1> QED BY <1>4, <1>5, <1>6, <1>7, <1>8, <1>9 DEF new

LEMMA CommitAgrees ==
    ASSUME TypeInv, OwnedInv, JudgedInv, AgreeInv, DatesStand,
           NEW t \in Threads, Commit(t), NEW c \in Cards, cards'[c] # Null
    PROVE  Coherent(c, cards'[c])
<1> DEFINE r == req[t]
           row == cards[c]
<1>1. row # Null /\ Coherent(c, row)
  BY FlushedColumns DEF AgreeInv
<1>2. CASE cards'[c] = row
  BY <1>1, <1>2
<1>3. CASE /\ r.pc = "commit" /\ r.card = c /\ r.op \in AllOps \ DeviceOps
           /\ r.op # "delete" /\ WritesCard(r)
           /\ cards'[c] = FlushedCard(r, row)
  <2>1. Owned(r) /\ Meant(r) /\ Coherent(r.card, r.seen)
    BY <1>3 DEF OwnedInv, JudgedInv, Judged, AgreeInv, Answers
  <2>2. /\ r.op \in {"unban", "reset"} => row.activated = r.seen.activated
        /\ r.op = "activate" => row.expires = r.seen.expires
    BY <1>3 DEF DatesStand
  <2> QED BY <1>1, <1>3, <2>1, <2>2, FlushAgrees
<1> QED BY <1>2, <1>3, FlushedColumns

LEMMA AgreeStep ==
    ASSUME TypeInv, OwnedInv, JudgedInv, AgreeInv, [Next]_vars, [DatesStand]_vars
    PROVE  AgreeInv'
<1>1. ASSUME NEW c \in Cards, cards'[c] # Null PROVE Coherent(c, cards'[c])
  <2>1. CASE cards' = cards
    BY <1>1, <2>1 DEF AgreeInv
  <2>2. ASSUME NEW t \in Threads, Commit(t) PROVE Coherent(c, cards'[c])
    <3>1. req'[t] # req[t]
      BY <2>2 DEF Commit, Answer, Idle, TypeInv
    <3>2. DatesStand
      BY <3>1 DEF vars
    <3> QED BY <1>1, <2>2, <3>2, CommitAgrees
  <2> QED BY <2>1, <2>2, OnlyCommitsWrite
<1>2. ASSUME NEW s \in Threads, req'[s].pc \notin Answers, req'[s].op \notin DeviceOps
      PROVE  Coherent(req'[s].card, req'[s].seen)
  <2>1. CASE req'[s] = req[s]
    BY <1>2, <2>1 DEF AgreeInv
  <2>2. CASE Step(s)
    BY <1>2, <2>2, SeenComesFromTable DEF AgreeInv
  <2>3. ASSUME NEW t \in Threads, t # s, Step(t) PROVE req'[s] = req[s]
    BY <2>3, StepChangesOneRequest
  <2> QED BY <2>1, <2>2, <2>3 DEF Next, Tick, vars
<1> QED BY <1>1, <1>2 DEF AgreeInv, Coherent

\* No card is active without a start and no started time card without an end,
\* unless an unban or a reset commits over a start it has not read, or an
\* activation over an expiry it has not read.  Bans, edits, heartbeats and the
\* pages of devices may overlap with anything.
THEOREM LifecycleNeedsFreshDates == Spec /\ [][DatesStand]_vars => []LifecycleCoherent
<1>1. Init => AgreeInv
  BY NullAssumption DEF Init, Idle, AgreeInv, Coherent, Answers
<1>2. TypeInv /\ OwnedInv /\ JudgedInv /\ AgreeInv /\ [Next]_vars /\ [DatesStand]_vars
        => AgreeInv'
  BY AgreeStep
<1>3. AgreeInv => LifecycleCoherent
  BY DEF AgreeInv, Coherent, LifecycleCoherent, ComputeExpiry
<1> QED BY <1>1, <1>2, <1>3, TypeInvHolds, OwnedHolds, JudgedHolds, PTL DEF Spec

-----------------------------------------------------------------------------
(* One active row of a machine                                             *)

\* A request that is to bind a machine because it found no row of it.
AboutToBind(r) == r.op = "activate" /\ (r.pc = "list" \/ (r.pc = "commit" /\ r.rows = {}))

\* Meanwhile no other request binds the machine to the card, by insertion or
\* by re-pointing a row.
MachineStands ==
    \A t, u \in Threads : Commit(t) /\ u # t /\ AboutToBind(req[u]) =>
        LET c == req[u].card
            m == req[u].machine IN
        \A i \in RowIds : /\ devices'[i] # Null /\ devices'[i].card = c
                          /\ devices'[i].status = "active" /\ devices'[i].machine = m
                          => i \in BoundTo(c, m)

LEMMA LookedUnderOverlap ==
    ASSUME TypeInv, LookedInv, [Next]_vars, [MachineStands]_vars
    PROVE  LookedInv'
<1> SUFFICES ASSUME NEW u \in Threads, AboutToBind(req'[u]),
                    NEW i \in RowIds, devices'[i] # Null, devices'[i].card = req'[u].card,
                    devices'[i].status = "active", devices'[i].machine = req'[u].machine
             PROVE  FALSE
  BY DEF LookedInv, Looked, AboutToBind, BoundTo, Bindings, RowsOf
<1>0. req'[u].pc \notin Answers /\ req'[u].op = "activate"
  BY DEF AboutToBind, Answers
<1>1. ASSUME devices' = devices, AboutToBind(req[u]), req'[u].card = req[u].card,
             req'[u].machine = req[u].machine
      PROVE  FALSE
  BY <1>1 DEF LookedInv, Looked, AboutToBind, BoundTo, Bindings, RowsOf
<1>2. CASE Step(u)
  <2>1. devices' = devices
    BY <1>0, <1>2, ActivationMoves DEF Tables
  <2>2. CASE req'[u].pc = "list" /\ BoundTo(req'[u].card, req'[u].machine) = {}
    BY <2>1, <2>2 DEF BoundTo, Bindings, RowsOf
  <2>3. CASE /\ req[u].pc = "list" /\ req[u].op = "activate"
             /\ req'[u].card = req[u].card /\ req'[u].machine = req[u].machine
    BY <1>1, <2>1, <2>3 DEF AboutToBind
  <2>4. /\ req'[u].pc # "find"
        /\ \A k : ~(req'[u].pc = "commit" /\ req'[u].rows = {k})
    BY DEF AboutToBind
  <2> QED BY <1>0, <1>2, <2>2, <2>3, <2>4, ActivationMoves
<1>3. ASSUME NEW t \in Threads, t # u, Commit(t) PROVE FALSE
  <2>1. req'[u] = req[u]
    BY <1>3, StepChangesOneRequest DEF Step
  <2>2. req'[t] # req[t]
    BY <1>3 DEF Commit, Answer, Idle, TypeInv
  <2>3. MachineStands
    BY <2>2 DEF vars
  <2>4. i \in BoundTo(req[u].card, req[u].machine)
    BY <1>3, <2>1, <2>3 DEF MachineStands
  <2> QED BY <2>1, <2>4 DEF LookedInv, Looked, AboutToBind
<1>4. CASE \A t \in Threads : ~Commit(t)
  <2>1. devices' = devices
    BY <1>4, OnlyCommitsWrite
  <2>2. CASE req'[u] = req[u]
    BY <1>1, <2>1, <2>2
  <2>3. ASSUME NEW t \in Threads, t # u, Step(t) PROVE req'[u] = req[u]
    BY <2>3, StepChangesOneRequest
  <2> QED BY <1>2, <2>2, <2>3 DEF Next, Tick, vars
<1>5. ASSUME Commit(u) PROVE Step(u)
  BY <1>5 DEF Step
<1> QED BY <1>2, <1>3, <1>4, <1>5

\* A machine gets a second active row of a card by an administrator's hand
\* only, unless another request binds it between an activation's query and
\* its insertion, or a device page re-points a row whose id was given to
\* another card's binding since it was loaded.
THEOREM DoublesNeedRace ==
    Spec /\ [][MachineStands]_vars /\ [][RowsStand]_vars => OnlyRepointingDoubles
<1>1. Init => LookedInv
  BY NullAssumption DEF Init, LookedInv, Looked, Idle, AllOps
<1>2. TypeInv /\ LookedInv /\ [Next]_vars /\ [MachineStands]_vars => LookedInv'
  BY LookedUnderOverlap
<1>3. TypeInv /\ LookedInv /\ [Next]_vars /\ [RowsStand]_vars =>
        [\A c \in Cards, m \in Machines :
           Cardinality(BoundTo(c, m)') > 1 /\ Cardinality(BoundTo(c, m)) <= 1 =>
              \E t \in Committing(c) : req[t].op = "device_edit"]_vars
  BY DoublesByRepointing
<1> QED BY <1>1, <1>2, <1>3, TypeInvHolds, PTL DEF Spec, OnlyRepointingDoubles
=============================================================================
