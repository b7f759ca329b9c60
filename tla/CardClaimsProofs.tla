-------------------------- MODULE CardClaimsProofs --------------------------
(* What the service claims of a card holds, for any number of cards,        *)
(* machines and threads, as long as requests that overlap work on different *)
(* cards.                                                                   *)
EXTENDS CardClaims, CardRequestsProofs

\* The requests in flight work on different cards; requests for one card are
\* served one after another.
OnePerCard ==
    \A s, t \in Threads : ~Free(s) /\ ~Free(t) /\ req[s].card = req[t].card => s = t

\* With a single thread that is so.
LEMMA OneThreadIsEnough ==
    ASSUME \A s, t \in Threads : s = t
    PROVE  Spec => []OnePerCard
<1>1. OnePerCard
  BY DEF OnePerCard
<1> QED BY <1>1, PTL

\* LifecycleCoherent of one row.
Coherent(c, row) ==
    /\ row.status = "unused" => row.activated = Null
    /\ row.status = "active" => row.activated # Null
    /\ row.activated # Null /\ Kind[c] = "time" /\ Duration[c] > 0 => row.expires # Null

\* A request alone on its card decides from rows that are still those of the tables.
Current(r) == r.pc \notin Answers /\ r.op \notin DeviceOps => r.seen = cards[r.card]

Decided(r) ==
    /\ r.pc \notin Answers /\ r.op = "activate" => r.seen.status # "banned"
    /\ r.pc \notin Answers \cup {"commit"} => r.want = r.seen
    /\ r.pc = "commit" =>
          /\ r.op \notin DeviceOps => Coherent(r.card, r.want)
          /\ r.rows \subseteq RowsOf(r.card)
          /\ r.op = "activate" =>
                /\ r.want.status = "active" /\ r.rows \subseteq Bindings(r.card)
                /\ r.rows = {} => Cardinality(Bindings(r.card)) < r.seen.limit
          /\ r.op = "ban" => r.want.status = "banned"
          /\ r.op = "unban" => r.want.status = StatusBefore(r.seen)
          /\ r.op = "reset" => /\ r.want.status = "unused" /\ r.want.activated = Null
                               /\ r.rows = Bindings(r.card)
          /\ r.op = "delete" => r.rows = RowsOf(r.card)

Fine(r) == Current(r) /\ Decided(r)

SerialInv ==
    /\ \A c \in Cards : cards[c] # Null => Coherent(c, cards[c])
    /\ \A t \in Threads : Fine(req[t])

-----------------------------------------------------------------------------
(* Steps of a request before its commit                                    *)

LEMMA AnswerFine ==
    ASSUME TypeInv, NEW t \in Threads, NEW a \in Answers, Answer(t, a)
    PROVE  Fine(req'[t])
BY DEF Answer, Idle, TypeInv, Fine, Current, Decided, Answers

LEMMA LoadFine ==
    ASSUME TypeInv, NEW t \in Threads, NEW c \in Cards, cards[c] # Null,
           NEW op \in AllOps \ DeviceOps, NEW m, NEW pc \in {"find", "list"},
           Load(t, op, c, m, cards[c], pc),
           op = "activate" => cards[c].status # "banned"
    PROVE  Fine(req'[t])
<1>1. /\ req'[t].pc = pc /\ req'[t].op = op /\ req'[t].card = c
      /\ req'[t].seen = cards[c] /\ req'[t].want = cards[c]
  BY DEF Load, TypeInv
<1> QED BY <1>1 DEF Fine, Current, Decided, Answers

\* A page that needs no device rows goes to its commit at once.
LEMMA LoadToCommitFine ==
    ASSUME TypeInv, NEW t \in Threads, NEW c \in Cards, cards[c] # Null,
           NEW op \in {"ban", "unban", "edit"}, NEW want \in CardRow,
           Load(t, op, c, Null, want, "commit"), Coherent(c, want),
           op = "ban" => want.status = "banned",
           op = "unban" => want.status = StatusBefore(cards[c])
    PROVE  Fine(req'[t])
<1>1. /\ req'[t].pc = "commit" /\ req'[t].op = op /\ req'[t].card = c
      /\ req'[t].seen = cards[c] /\ req'[t].want = want /\ req'[t].rows = {}
  BY DEF Load, TypeInv
<1> QED BY <1>1 DEF Fine, Current, Decided, Answers

LEMMA ToCommitFine ==
    ASSUME TypeInv, NEW t \in Threads, req[t].pc \notin Answers,
           req[t].op \notin DeviceOps \cup {"ban", "unban"}, Fine(req[t]),
           NEW want \in CardRow, NEW rows, ToCommit(t, want, rows),
           Coherent(req[t].card, want), rows \subseteq RowsOf(req[t].card),
           req[t].op = "activate" =>
              /\ want.status = "active" /\ rows \subseteq Bindings(req[t].card)
              /\ rows = {} => Cardinality(Bindings(req[t].card)) < req[t].seen.limit,
           req[t].op = "reset" => /\ want.status = "unused" /\ want.activated = Null
                                  /\ rows = Bindings(req[t].card),
           req[t].op = "delete" => rows = RowsOf(req[t].card)
    PROVE  Fine(req'[t])
<1>1. /\ req'[t].pc = "commit" /\ req'[t].op = req[t].op /\ req'[t].card = req[t].card
      /\ req'[t].seen = req[t].seen /\ req'[t].want = want /\ req'[t].rows = rows
  BY DEF ToCommit, TypeInv, Request
<1> QED BY <1>1 DEF Fine, Current, Decided, Answers

\* The row activate() makes of one that is not banned.
LEMMA ActivatedIsActive ==
    ASSUME TypeInv, NEW c \in Cards, NEW row \in CardRow,
           Coherent(c, row), row.status # "banned"
    PROVE  LET a == Activated(c, row) IN
           a \in CardRow /\ Coherent(c, a) /\ a.status = "active"
<1>1. Activated(c, row) \in CardRow
  BY ActivatedTyped
<1>2. now \in Nat /\ now # Null /\ (Duration[c] > 0 => now + Duration[c] # Null)
  BY ConstantsAssumption, NullAssumption DEF TypeInv
<1>3. CASE row.status # "unused"
  BY <1>1, <1>3 DEF Activated, CardRow
<1>4. CASE row.status = "unused"
  <2> DEFINE e == ComputeExpiry(c)
  <2>1. Kind[c] = "time" /\ Duration[c] > 0 => e # Null
    BY <1>2 DEF ComputeExpiry
  <2> HIDE DEF e
  <2>2. Activated(c, row) = [row EXCEPT !.status = "active", !.activated = now, !.expires = e]
    BY <1>4 DEF Activated, e
  <2>3. /\ Activated(c, row).status = "active" /\ Activated(c, row).activated = now
        /\ Activated(c, row).expires = e
    BY <2>2 DEF CardRow
  <2> QED BY <1>1, <1>2, <2>1, <2>3 DEF Coherent
<1> QED BY <1>3, <1>4

\* What the request of a client carries before its commit.
LEMMA InFlight ==
    ASSUME TypeInv, SerialInv, NEW t \in Threads, req[t].pc \notin Answers,
           req[t].op \notin DeviceOps
    PROVE  /\ req[t].card \in Cards /\ req[t].seen \in CardRow
           /\ req[t].seen = cards[req[t].card] /\ Coherent(req[t].card, req[t].seen)
           /\ Fine(req[t])
BY NullAssumption DEF TypeInv, WellFormed, SerialInv, Fine, Current

LEMMA ClientFine ==
    ASSUME TypeInv, SerialInv, NEW t \in Threads, ClientRequest(t)
    PROVE  Fine(req'[t])
<1>1. ASSUME NEW a \in Answers, Answer(t, a) PROVE Fine(req'[t])
  BY <1>1, AnswerFine
<1>2. ASSUME NEW c \in Cards, NEW m \in Machines, ActivateLoad(t, c, m) PROVE Fine(req'[t])
  <2>1. CASE Answer(t, "refused")
    BY <1>1, <2>1 DEF Answers
  <2>2. CASE /\ cards[c] # Null /\ MayActivate(c, cards[c])
             /\ Load(t, "activate", c, m, cards[c], "find")
    <3>1. cards[c].status # "banned"
      BY <2>2 DEF MayActivate, EffectiveStatus
    <3> QED BY <2>2, <3>1, LoadFine DEF AllOps, DeviceOps
  <2> QED BY <1>2, <2>1, <2>2 DEF ActivateLoad
<1>3. ASSUME NEW c \in Cards, NEW m \in Machines, VerifyLoad(t, c, m) \/ SelfUnbindLoad(t, c, m)
      PROVE  Fine(req'[t])
  BY <1>1, <1>3, LoadFine DEF VerifyLoad, SelfUnbindLoad, Answers, AllOps, DeviceOps
<1>4. CASE ActivateFind(t)
  <2>1. /\ req[t].pc = "find" /\ req[t].op = "activate" /\ req[t].pc \notin Answers
        /\ req[t].op \notin DeviceOps \cup {"ban", "unban"}
    BY <1>4 DEF ActivateFind, Answers, DeviceOps
  <2>2. /\ req[t].card \in Cards /\ req[t].seen \in CardRow /\ Fine(req[t])
        /\ Coherent(req[t].card, req[t].seen) /\ req[t].seen.status # "banned"
    BY <2>1, InFlight DEF Fine, Decided
  <2>3. ASSUME NEW i \in BoundTo(req[t].card, req[t].machine),
               ToCommit(t, Activated(req[t].card, req[t].seen), {i})
        PROVE  Fine(req'[t])
    <3>1. {i} \subseteq Bindings(req[t].card) /\ {i} \subseteq RowsOf(req[t].card) /\ {i} # {}
      BY DEF BoundTo, Bindings
    <3>2. /\ Activated(req[t].card, req[t].seen) \in CardRow
          /\ Coherent(req[t].card, Activated(req[t].card, req[t].seen))
          /\ Activated(req[t].card, req[t].seen).status = "active"
      BY <2>2, ActivatedIsActive
    <3> QED BY <2>1, <2>2, <2>3, <3>1, <3>2, ToCommitFine
  <2>4. CASE req' = [req EXCEPT ![t].pc = "list"]
    <3>1. /\ req'[t].pc = "list" /\ req'[t].op = req[t].op /\ req'[t].card = req[t].card
          /\ req'[t].seen = req[t].seen /\ req'[t].want = req[t].want
      BY <2>4 DEF TypeInv, Request
    <3> QED BY <2>1, <2>2, <3>1 DEF Fine, Current, Decided, Answers
  <2> QED BY <1>1, <1>4, <2>3, <2>4 DEF ActivateFind, Answers
<1>5. CASE ActivateCount(t)
  <2>1. /\ req[t].pc = "list" /\ req[t].op = "activate" /\ req[t].pc \notin Answers
        /\ req[t].op \notin DeviceOps \cup {"ban", "unban"}
    BY <1>5 DEF ActivateCount, Answers, DeviceOps
  <2>2. /\ req[t].card \in Cards /\ req[t].seen \in CardRow /\ Fine(req[t])
        /\ Coherent(req[t].card, req[t].seen) /\ req[t].seen.status # "banned"
    BY <2>1, InFlight DEF Fine, Decided
  <2>3. CASE ~LimitReached(req[t]) /\ ToCommit(t, Activated(req[t].card, req[t].seen), {})
    <3>1. Cardinality(Bindings(req[t].card)) < req[t].seen.limit
      BY <2>2, <2>3, SetsAreFinite, ConstantsAssumption DEF LimitReached, CardRow
    <3>2. /\ Activated(req[t].card, req[t].seen) \in CardRow
          /\ Coherent(req[t].card, Activated(req[t].card, req[t].seen))
          /\ Activated(req[t].card, req[t].seen).status = "active"
      BY <2>2, ActivatedIsActive
    <3> QED BY <2>1, <2>2, <2>3, <3>1, <3>2, ToCommitFine
  <2> QED BY <1>1, <1>5, <2>3 DEF ActivateCount, Answers
<1>6. CASE FindBinding(t)
  <2>1. /\ req[t].pc = "find" /\ req[t].op \in {"verify", "self_unbind"}
        /\ req[t].pc \notin Answers /\ req[t].op \notin DeviceOps
    BY <1>6 DEF FindBinding, Answers, DeviceOps
  <2>2. /\ req[t].card \in Cards /\ req[t].seen \in CardRow /\ Fine(req[t])
        /\ Coherent(req[t].card, req[t].seen) /\ req[t].want = req[t].seen
    BY <2>1, InFlight DEF Fine, Decided
  <2>3. ASSUME NEW i \in BoundTo(req[t].card, req[t].machine), ToCommit(t, req[t].want, {i})
        PROVE  Fine(req'[t])
    BY <2>1, <2>2, <2>3, ToCommitFine DEF BoundTo, Bindings
  <2> QED BY <1>1, <1>6, <2>3 DEF FindBinding, Answers
<1> QED BY <1>2, <1>3, <1>4, <1>5, <1>6 DEF ClientRequest

LEMMA CardPageFine ==
    ASSUME TypeInv, SerialInv, NEW t \in Threads, CardPage(t)
    PROVE  Fine(req'[t])
<1>1. ASSUME NEW a \in Answers, Answer(t, a) PROVE Fine(req'[t])
  BY <1>1, AnswerFine
<1>2. ASSUME NEW c \in Cards, cards[c] # Null PROVE cards[c] \in CardRow /\ Coherent(c, cards[c])
  BY <1>2 DEF TypeInv, SerialInv
<1>3. ASSUME NEW c \in Cards, Ban(t, c) PROVE Fine(req'[t])
  <2> DEFINE want == [cards[c] EXCEPT !.status = "banned"]
  <2>1. CASE cards[c] # Null /\ Load(t, "ban", c, Null, want, "commit")
    <3>1. /\ want \in CardRow /\ want.status = "banned" /\ want.activated = cards[c].activated
          /\ want.expires = cards[c].expires
      BY <1>2, <2>1 DEF CardRow
    <3>2. Coherent(c, want)
      BY <1>2, <2>1, <3>1 DEF Coherent
    <3> QED BY <2>1, <3>1, <3>2, LoadToCommitFine
  <2> QED BY <1>1, <1>3, <2>1 DEF Ban, CardGone, Answers
<1>4. ASSUME NEW c \in Cards, Unban(t, c) PROVE Fine(req'[t])
  <2> DEFINE status == StatusBefore(cards[c])
             want == [cards[c] EXCEPT !.status = status]
  <2>1. CASE cards[c] # Null /\ Load(t, "unban", c, Null, want, "commit")
    <3>1. status \in {"unused", "active"} /\ (status = "unused" <=> cards[c].activated = Null)
      BY DEF StatusBefore
    <3> HIDE DEF status
    <3>2. /\ want \in CardRow /\ want.status = status /\ want.activated = cards[c].activated
          /\ want.expires = cards[c].expires
      BY <1>2, <2>1, <3>1 DEF CardRow
    <3>3. Coherent(c, want)
      BY <1>2, <2>1, <3>1, <3>2 DEF Coherent
    <3> QED BY <2>1, <3>2, <3>3, LoadToCommitFine DEF status
  <2> QED BY <1>1, <1>4, <2>1 DEF Unban, CardGone, Answers
<1>5. ASSUME NEW c \in Cards, NEW limit \in 0..MaxLimit, NEW minutes \in Extensions,
             Edit(t, c, limit, minutes)
      PROVE  Fine(req'[t])
  <2> DEFINE l == AtLeastOne(limit)
             e == Extended(cards[c], minutes)
             want == [cards[c] EXCEPT !.limit = l, !.expires = e]
  <2>1. CASE /\ cards[c] # Null /\ e \in Times \cup {Null}
             /\ Load(t, "edit", c, Null, want, "commit")
    <3>1. l \in 1..MaxLimit
      BY ConstantsAssumption DEF AtLeastOne
    <3>2. cards[c].expires # Null => e # Null
      <4>1. CASE minutes = 0
        BY <4>1 DEF Extended
      <4>2. CASE minutes # 0
        <5>1. SUFFICES ASSUME cards[c].expires # Null PROVE e # Null
          OBVIOUS
        <5>2. cards[c].expires \in Int /\ minutes \in Int
          BY <1>2, <2>1, <5>1, ConstantsAssumption DEF CardRow, Times
        <5>3. e = cards[c].expires + minutes /\ e \in Int
          BY <4>2, <5>1, <5>2 DEF Extended
        <5> QED BY <2>1, <5>3, NullAssumption
      <4> QED BY <4>1, <4>2
    <3> HIDE DEF l, e
    <3>3. /\ want \in CardRow /\ want.status = cards[c].status
          /\ want.activated = cards[c].activated /\ want.expires = e
      BY <1>2, <2>1, <3>1 DEF CardRow
    <3>4. Coherent(c, want)
      BY <1>2, <2>1, <3>2, <3>3 DEF Coherent
    <3> QED BY <2>1, <3>3, <3>4, LoadToCommitFine
  <2> QED BY <1>1, <1>5, <2>1 DEF Edit, CardGone, Answers
<1>6. ASSUME NEW c \in Cards, ResetLoad(t, c) \/ UnbindAllLoad(t, c) \/ DeleteLoad(t, c)
      PROVE  Fine(req'[t])
  BY <1>1, <1>6, LoadFine DEF ResetLoad, UnbindAllLoad, DeleteLoad, LoadForDevices, CardGone,
     Answers, AllOps, DeviceOps
<1>7. ASSUME ResetList(t) \/ UnbindAllList(t) \/ DeleteList(t)
      PROVE  Fine(req'[t])
  <2>1. /\ req[t].pc \notin Answers
        /\ req[t].op \in {"reset", "unbind_all", "delete"}
        /\ req[t].op \notin DeviceOps \cup {"ban", "unban"}
    BY <1>7 DEF ResetList, UnbindAllList, DeleteList, Answers, DeviceOps
  <2>2. /\ req[t].card \in Cards /\ req[t].seen \in CardRow /\ Fine(req[t])
        /\ Coherent(req[t].card, req[t].seen)
    BY <2>1, InFlight
  <2>3. Bindings(req[t].card) \subseteq RowsOf(req[t].card)
    BY BindingsAreRows
  <2>4. CASE ResetList(t)
    <3> DEFINE want == [req[t].seen EXCEPT !.status = "unused", !.activated = Null,
                                           !.expires = Null]
    <3>1. /\ want \in CardRow /\ want.status = "unused" /\ want.activated = Null
      BY <2>2 DEF CardRow
    <3>2. Coherent(req[t].card, want)
      BY <3>1 DEF Coherent
    <3>3. req[t].op = "reset" /\ ToCommit(t, want, Bindings(req[t].card))
      BY <2>4 DEF ResetList
    <3> HIDE DEF want
    <3> QED BY <2>1, <2>2, <2>3, <3>1, <3>2, <3>3, ToCommitFine
  <2>5. CASE UnbindAllList(t)
    BY <1>1, <2>1, <2>2, <2>3, <2>5, ToCommitFine DEF UnbindAllList, Answers
  <2>6. CASE DeleteList(t)
    BY <2>1, <2>2, <2>6, ToCommitFine DEF DeleteList
  <2> QED BY <1>7, <2>4, <2>5, <2>6
<1> QED BY <1>3, <1>4, <1>5, <1>6, <1>7 DEF CardPage

LEMMA DevicePageFine ==
    ASSUME TypeInv, NEW t \in Threads, DevicePage(t)
    PROVE  Fine(req'[t])
<1>1. ASSUME NEW a \in Answers, Answer(t, a) PROVE Fine(req'[t])
  BY <1>1, AnswerFine
<1>2. ASSUME NEW i \in RowIds, NEW op \in DeviceOps, NEW m, devices[i] # Null,
             DeviceLoad(t, op, i, m)
      PROVE  Fine(req'[t])
  <2>1. /\ req'[t].pc = "commit" /\ req'[t].op = op /\ req'[t].rows = {i}
        /\ req'[t].card = devices[i].card
    BY <1>2 DEF DeviceLoad, TypeInv
  <2>2. {i} \subseteq RowsOf(devices[i].card)
    BY <1>2 DEF RowsOf
  <2> QED BY <2>1, <2>2 DEF Fine, Current, Decided, Answers, DeviceOps
<1> QED BY <1>1, <1>2 DEF DevicePage, DeviceEdit, DeviceUnbind, DeviceDelete, DeviceGone,
           Answers, DeviceOps

-----------------------------------------------------------------------------
(* The commit                                                              *)

\* What the commit of a request that is alone on its card makes of the card ...
LEMMA CommittedCard ==
    ASSUME TypeInv, SerialInv, NEW t \in Threads, Commit(t)
    PROVE  LET r == req[t] IN
           /\ r.card \in Cards /\ r.op \in AllOps
           /\ \A c \in Cards \ {r.card} : cards'[c] = cards[c]
           /\ r.op = "delete" => cards'[r.card] = Null
           /\ r.op \in DeviceOps => cards'[r.card] = cards[r.card]
           /\ r.op \notin DeviceOps =>
                 /\ cards[r.card] \in CardRow /\ r.seen = cards[r.card] /\ r.want \in CardRow
                 /\ r.op # "delete" => cards'[r.card] = r.want
<1> DEFINE r == req[t]
<1>1. /\ r.pc = "commit" /\ r.pc \notin Answers /\ WellFormed(r) /\ Fine(r)
      /\ r.card \in Cards /\ r.op \in AllOps
      /\ cards' = [cards EXCEPT ![r.card] = CardAfter(r, cards[r.card])]
  BY DEF Commit, TypeInv, WellFormed, SerialInv, Answers
<1>2. cards'[r.card] = CardAfter(r, cards[r.card])
  BY <1>1 DEF TypeInv
<1>3. CASE r.op = "delete"
  BY <1>1, <1>2, <1>3 DEF CardAfter, WellFormed, Fine, Current, DeviceOps, TypeInv
<1>4. CASE r.op \in DeviceOps
  BY <1>1, <1>2, <1>4 DEF CardAfter, WritesCard, WellFormed, DeviceOps, TypeInv
<1>5. CASE r.op # "delete" /\ r.op \notin DeviceOps
  <2>1. r.seen \in CardRow /\ r.want \in CardRow /\ r.seen = cards[r.card]
    BY <1>1, <1>5 DEF WellFormed, Fine, Current
  <2>2. CASE ~WritesCard(r)
    BY <1>1, <1>2, <1>5, <2>1, <2>2 DEF CardAfter, WritesCard, TypeInv
  <2>3. CASE WritesCard(r)
    <3>1. cards'[r.card] = FlushedCard(r, r.seen)
      BY <1>2, <1>5, <2>1, <2>3 DEF CardAfter
    <3>2. FlushedCard(r, r.seen) = r.want
      BY <2>1 DEF FlushedCard, Column, CardRow
    <3> QED BY <1>1, <1>5, <2>1, <3>1, <3>2 DEF TypeInv
  <2> QED BY <2>2, <2>3
<1> QED BY <1>3, <1>4, <1>5

\* ... and of the bindings.
LEMMA CommittedBindings ==
    ASSUME TypeInv, SerialInv, NEW t \in Threads, Commit(t), NEW c \in Cards
    PROVE  LET r == req[t] IN
           /\ c # r.card => Bindings(c)' = Bindings(c)
           /\ Inserts(r) /\ c = r.card =>
                 \E k \in RowIds : k \notin Bindings(c) /\ Bindings(c)' = Bindings(c) \cup {k}
           /\ r.op \in Unbinders \cup Droppers /\ c = r.card =>
                 Bindings(c)' = Bindings(c) \ r.rows
           /\ ~Inserts(r) /\ r.op \notin Unbinders \cup Droppers => Bindings(c)' = Bindings(c)
<1> DEFINE r == req[t]
<1>1. /\ r.pc = "commit" /\ Decided(r) /\ WellFormed(r) /\ r.card \in Cards
      /\ r.rows \subseteq RowsOf(r.card) /\ r.op \in AllOps
  BY DEF Commit, TypeInv, WellFormed, SerialInv, Fine, Decided, Answers
<1>2. \A i : /\ i \in Bindings(c) <=> /\ i \in RowIds /\ devices[i] # Null
                                       /\ devices[i].card = c /\ devices[i].status = "active"
             /\ i \in Bindings(c)' <=> /\ i \in RowIds /\ devices'[i] # Null
                                        /\ devices'[i].card = c /\ devices'[i].status = "active"
  BY DEF Bindings, RowsOf
<1>3. \A i \in r.rows : /\ i \in RowIds /\ devices[i] # Null /\ devices[i] \in DeviceRow
                        /\ devices[i].card = r.card
  BY <1>1 DEF RowsOf, TypeInv
<1>4. CASE Inserts(r)
  <2>1. PICK k \in RowIds : /\ IsNewRow(k)
                            /\ devices' = [devices EXCEPT ![k] =
                                  [card |-> r.card, machine |-> r.machine, status |-> "active"]]
    BY <1>4 DEF Commit
  <2>2. devices[k] = Null
    BY <2>1 DEF IsNewRow, RowIds
  <2>3. /\ devices'[k] # Null /\ devices'[k].card = r.card /\ devices'[k].status = "active"
        /\ \A i \in RowIds \ {k} : devices'[i] = devices[i]
    <3>1. [card |-> r.card, machine |-> r.machine, status |-> "active"] \in DeviceRow
      BY <1>1, <1>4 DEF WellFormed, Inserts, Answers, ClientOps, DeviceRow
    <3> QED BY <2>1, <3>1, NullAssumption DEF TypeInv
  <2>4. r.op \notin Unbinders \cup Droppers
    BY <1>4 DEF Inserts, Unbinders, Droppers
  <2>5. c = r.card => k \notin Bindings(c) /\ Bindings(c)' = Bindings(c) \cup {k}
    BY <1>2, <2>2, <2>3
  <2>6. c # r.card => Bindings(c)' = Bindings(c)
    BY <1>2, <2>2, <2>3
  <2> QED BY <1>4, <2>4, <2>5, <2>6
<1>5. CASE ~Inserts(r)
  <2>1. \A i \in RowIds :
           devices'[i] = IF i \in r.rows THEN RowAfter(r, devices[i]) ELSE devices[i]
    BY <1>5 DEF Commit
  <2>2. CASE r.op \in Unbinders \cup Droppers
    <3>1. ASSUME NEW i \in r.rows
          PROVE  devices'[i] = Null \/ devices'[i].status = "unbound"
      <4>1. CASE r.op \in Droppers
        BY <1>3, <2>1, <4>1 DEF RowAfter, Droppers, Unbinders
      <4>2. CASE r.op \in Unbinders
        <5>1. devices'[i] = [devices[i] EXCEPT !.status = "unbound"]
          BY <1>3, <2>1, <4>2 DEF RowAfter, Droppers, Unbinders
        <5>2. devices[i] \in DeviceRow
          BY <1>3
        <5> QED BY <5>1, <5>2 DEF DeviceRow
      <4> QED BY <2>2, <4>1, <4>2
    <3>2. c = r.card => Bindings(c)' = Bindings(c) \ r.rows
      BY <1>2, <2>1, <3>1
    <3>3. c # r.card => Bindings(c)' = Bindings(c)
      BY <1>2, <1>3, <2>1, <3>1
    <3> QED BY <1>5, <2>2, <3>2, <3>3
  <2>3. CASE r.op \notin Unbinders \cup Droppers
    <3>1. ASSUME NEW i \in RowIds
          PROVE  /\ devices'[i] # Null <=> devices[i] # Null
                 /\ devices[i] # Null => /\ devices'[i].card = devices[i].card
                                         /\ devices'[i].status = devices[i].status
      <4>1. CASE i \in r.rows /\ r.op = "device_edit"
        <5>1. devices'[i] = [devices[i] EXCEPT !.machine = r.machine]
          BY <2>1, <4>1 DEF RowAfter, Droppers, Unbinders
        <5>2. r.machine \in Machines
          BY <1>1, <4>1 DEF WellFormed, DeviceOps, Answers
        <5>3. devices[i] \in DeviceRow /\ devices'[i] \in DeviceRow
          BY <1>3, <4>1, <5>1, <5>2 DEF DeviceRow
        <5>4. devices'[i].card = devices[i].card /\ devices'[i].status = devices[i].status
          BY <5>1, <5>3 DEF DeviceRow
        <5> QED BY <5>3, <5>4, NullAssumption
      <4>2. CASE ~(i \in r.rows /\ r.op = "device_edit")
        <5>1. devices'[i] = devices[i]
          BY <2>1, <2>3, <4>2 DEF RowAfter
        <5> QED BY <5>1
      <4> QED BY <4>1, <4>2
    <3>2. Bindings(c)' = Bindings(c)
      BY <1>2, <3>1
    <3> QED BY <1>5, <2>3, <3>2
  <2> QED BY <2>2, <2>3
<1> QED BY <1>4, <1>5

\* A commit leaves the rows of every other card, so a request in flight for
\* another card still decides from what it read.
LEMMA OtherCardsKeepRows ==
    ASSUME TypeInv, SerialInv, NEW t \in Threads, Commit(t), NEW c \in Cards, c # req[t].card
    PROVE  /\ cards'[c] = cards[c]
           /\ RowsOf(c)' = RowsOf(c) /\ Bindings(c)' = Bindings(c)
           /\ \A m : BoundTo(c, m)' = BoundTo(c, m)
<1> DEFINE r == req[t]
<1>1. \A i \in r.rows : i \in RowIds /\ devices[i] # Null /\ devices[i].card = r.card
  BY DEF Commit, SerialInv, Fine, Decided, RowsOf
<1>2. ASSUME NEW i \in RowIds, devices[i] # Null /\ devices[i].card = c
      PROVE  devices'[i] = devices[i]
  <2>1. i \notin r.rows
    BY <1>1, <1>2
  <2>2. CASE ~Inserts(r)
    BY <2>1, <2>2 DEF Commit
  <2>3. CASE Inserts(r)
    <3>1. PICK k \in RowIds : /\ IsNewRow(k)
                              /\ devices' = [devices EXCEPT ![k] =
                                    [card |-> r.card, machine |-> r.machine, status |-> "active"]]
      BY <2>3 DEF Commit
    <3>2. k # i
      BY <1>2, <3>1 DEF IsNewRow, RowIds
    <3> QED BY <3>1, <3>2 DEF TypeInv
  <2> QED BY <2>2, <2>3
<1>3. ASSUME NEW i \in RowIds, devices'[i] # Null, devices'[i].card = c
      PROVE  devices[i] # Null /\ devices[i].card = c
  BY <1>1, <1>3, CommittedRow
<1>4. \A i \in RowIds :
         /\ devices'[i] # Null /\ devices'[i].card = c <=> devices[i] # Null /\ devices[i].card = c
         /\ devices[i] # Null /\ devices[i].card = c => devices'[i] = devices[i]
  BY <1>2, <1>3
<1>5. RowsOf(c)' = RowsOf(c)
  BY <1>4 DEF RowsOf
<1>6. Bindings(c)' = Bindings(c)
  BY <1>4, <1>5 DEF Bindings, RowsOf
<1>7. \A m : BoundTo(c, m)' = BoundTo(c, m)
  BY <1>4, <1>6 DEF BoundTo, Bindings, RowsOf
<1>8. cards'[c] = cards[c]
  BY CommittedCard
<1> QED BY <1>5, <1>6, <1>7, <1>8

\* While a request commits, those in flight work on other cards.
LEMMA InFlightElsewhere ==
    ASSUME OnePerCard, TypeInv, NEW t \in Threads, Commit(t), NEW s \in Threads, s # t,
           req[s].pc \notin Answers
    PROVE  req[s].card \in Cards /\ req[s].card # req[t].card
<1>1. req[t].pc \notin Answers
  BY DEF Commit, Answers
<1> QED BY <1>1 DEF OnePerCard, Free, TypeInv, WellFormed

LEMMA SerialStep ==
    ASSUME OnePerCard, TypeInv, SerialInv, [Next]_vars
    PROVE  SerialInv'
<1>1. ASSUME UNCHANGED <<cards, devices>>, \A t \in Threads : Fine(req'[t])
      PROVE  SerialInv'
  <2>1. \A c : Bindings(c)' = Bindings(c) /\ RowsOf(c)' = RowsOf(c)
    BY <1>1 DEF Bindings, RowsOf
  <2> QED BY <1>1, <2>1 DEF SerialInv, Fine, Current, Decided
<1>2. CASE Tick \/ UNCHANGED vars
  BY <1>1, <1>2 DEF Tick, vars, SerialInv
<1>3. ASSUME NEW t \in Threads, ClientRequest(t) \/ CardPage(t) \/ DevicePage(t) \/ Abort(t)
      PROVE  SerialInv'
  <2>1. Fine(req'[t])
    BY <1>3, ClientFine, CardPageFine, DevicePageFine, AnswerFine DEF Abort, Answers
  <2>2. \A s \in Threads : Fine(req'[s])
    <3>1. \A s \in Threads : s # t => req'[s] = req[s]
      BY <1>3, StepChangesOneRequest DEF Step
    <3> QED BY <2>1, <3>1 DEF SerialInv
  <2>3. UNCHANGED Tables
    BY <1>3 DEF ClientRequest, ActivateLoad, VerifyLoad, SelfUnbindLoad, ActivateFind,
       ActivateCount, FindBinding, CardPage, Ban, Unban, Edit, ResetLoad, UnbindAllLoad,
       DeleteLoad, LoadForDevices, ResetList, UnbindAllList, DeleteList, DevicePage,
       DeviceEdit, DeviceUnbind, DeviceDelete, Abort
  <2> QED BY <1>1, <2>2, <2>3 DEF Tables
<1>4. ASSUME NEW t \in Threads, Commit(t) PROVE SerialInv'
  <2>1. req'[t].pc \in Answers
    BY <1>4 DEF Commit, Answer, Idle, TypeInv, Answers
  <2>2. ASSUME NEW s \in Threads PROVE Fine(req[s])'
    <3>1. CASE req'[s].pc \in Answers
      BY <3>1 DEF Fine, Current, Decided, Answers
    <3>2. CASE req'[s].pc \notin Answers
      <4>1. s # t /\ req'[s] = req[s]
        BY <1>4, <2>1, <3>2, StepChangesOneRequest DEF Step
      <4> DEFINE d == req[s].card
      <4>2. d \in Cards /\ d # req[t].card
        BY <1>4, <3>2, <4>1, InFlightElsewhere
      <4>3. cards'[d] = cards[d] /\ RowsOf(d)' = RowsOf(d) /\ Bindings(d)' = Bindings(d)
        <5>1. \A c \in Cards : c # req[t].card =>
                 cards'[c] = cards[c] /\ RowsOf(c)' = RowsOf(c) /\ Bindings(c)' = Bindings(c)
          BY <1>4, OtherCardsKeepRows
        <5> QED BY <4>1, <4>2, <5>1 DEF RowsOf, Bindings
      <4>4. Fine(req[s])
        BY DEF SerialInv
      <4> QED BY <4>1, <4>3, <4>4 DEF Fine, Current, Decided
    <3> QED BY <3>1, <3>2
  <2>3. ASSUME NEW c \in Cards, cards'[c] # Null PROVE Coherent(c, cards'[c])
    <3>1. req[t].pc = "commit" /\ Decided(req[t])
      BY <1>4 DEF Commit, SerialInv, Fine
    <3> QED BY <1>4, <2>3, <3>1, CommittedCard DEF SerialInv, Decided
  <2> QED BY <2>2, <2>3 DEF SerialInv, Coherent
<1> QED BY <1>2, <1>3, <1>4 DEF Next, Step

LEMMA SerialInit == Init => SerialInv
BY NullAssumption DEF Init, SerialInv, Coherent, Fine, Current, Decided, Idle, Answers

\* Requests that overlap on different cards at most leave the columns of a card
\* in agreement: no card is active without a start, and no started time card
\* without an end.
THEOREM LifecycleHolds == Spec /\ []OnePerCard => []LifecycleCoherent
<1>1. SerialInv => LifecycleCoherent
  BY DEF SerialInv, Coherent, LifecycleCoherent, ComputeExpiry
<1>2. OnePerCard /\ TypeInv /\ SerialInv /\ [Next]_vars => SerialInv'
  BY SerialStep
<1> QED BY <1>1, <1>2, SerialInit, TypeInvHolds, PTL DEF Spec

-----------------------------------------------------------------------------
(* The device limit                                                        *)

\* How a commit changes the number of bindings of a card.
LEMMA CommittedCount ==
    ASSUME TypeInv, OwnedInv, SerialInv, NEW t \in Threads, Commit(t), NEW c \in Cards
    PROVE  LET r == req[t]
               n == Cardinality(Bindings(c))
               m == Cardinality(Bindings(c)') IN
           /\ n \in Nat /\ m \in Nat
           /\ c # r.card => m = n
           /\ r.op \in Unbinders \cup Droppers => m <= n
           /\ r.op \in {"reset", "delete"} /\ c = r.card => m = 0
           /\ r.op = "activate" /\ c = r.card =>
                 \/ n > 0 /\ m = n
                 \/ n < cards[c].limit /\ m = n + 1
           /\ r.op \notin Unbinders \cup Droppers \cup {"activate"} => m = n
<1> DEFINE r == req[t]
           B == Bindings(c)
<1>1. IsFiniteSet(B) /\ Cardinality(B) \in Nat
  BY SetsAreFinite
<1>2. /\ r.pc = "commit" /\ r.pc \notin Answers /\ Fine(r) /\ r.op \in AllOps
      /\ B \subseteq RowsOf(c)
  BY BindingsAreRows DEF Commit, SerialInv, TypeInv, WellFormed, Answers
<1>3. CASE Inserts(r)
  <2>1. r.op = "activate" /\ r.rows = {} /\ r.op \notin DeviceOps \cup Unbinders \cup Droppers
    BY <1>3 DEF Inserts, DeviceOps, Unbinders, Droppers
  <2>2. CASE c # r.card
    BY <1>1, <2>1, <2>2, CommittedBindings
  <2>3. CASE c = r.card
    <3>1. PICK k \in RowIds : k \notin B /\ B' = B \cup {k}
      BY <1>3, <2>3, CommittedBindings
    <3>2. Cardinality(B') = Cardinality(B) + 1
      BY <1>1, <3>1, FS_AddElement
    <3>3. Cardinality(B) < cards[c].limit
      BY <1>2, <2>1, <2>3 DEF Fine, Current, Decided
    <3> QED BY <1>1, <2>1, <2>3, <3>2, <3>3
  <2> QED BY <2>2, <2>3
<1>4. CASE ~Inserts(r) /\ r.op \notin Unbinders \cup Droppers
  <2>1. B' = B
    BY <1>4, CommittedBindings
  <2>2. ASSUME r.op = "activate", c = r.card PROVE Cardinality(B) > 0
    <3>1. r.rows # {} /\ r.rows \subseteq B
      BY <1>2, <1>4, <2>2 DEF Inserts, Fine, Decided
    <3>2. Cardinality(B) # 0
      BY <1>1, <3>1, FS_EmptySet
    <3> QED BY <1>1, <3>2
  <2> QED BY <1>1, <1>4, <2>1, <2>2 DEF Unbinders, Droppers
<1>5. CASE r.op \in Unbinders \cup Droppers
  <2>1. r.op # "activate"
    BY <1>5 DEF Unbinders, Droppers
  <2>2. CASE c # r.card
    <3>1. B' = B
      BY <2>2, CommittedBindings
    <3> QED BY <1>1, <1>5, <2>1, <2>2, <3>1
  <2>3. CASE c = r.card
    <3>1. B' = B \ r.rows
      BY <1>5, <2>3, CommittedBindings
    <3>2. IsFiniteSet(B') /\ Cardinality(B') \in Nat /\ Cardinality(B') <= Cardinality(B)
      BY <1>1, <3>1, FS_Subset, FS_CardinalityType
    <3>3. r.op \in {"reset", "delete"} => B' = {}
      BY <1>2, <2>3, <3>1 DEF Fine, Decided
    <3>4. r.op \in {"reset", "delete"} => Cardinality(B') = 0
      BY <3>3, FS_EmptySet
    <3> QED BY <1>1, <1>5, <2>1, <2>3, <3>2, <3>4
  <2> QED BY <2>2, <2>3
<1> QED BY <1>3, <1>4, <1>5

\* "Once the limit is reached, activation on a new device is refused": with one
\* request per card at a time, however many cards are being activated.
THEOREM LimitHolds == Spec /\ []OnePerCard => NewBindingWithinLimit
<1>1. ASSUME TypeInv, OwnedInv, SerialInv, [Next]_vars, NEW c \in Cards, cards'[c] # Null,
             Cardinality(Bindings(c)') > Cardinality(Bindings(c))
      PROVE  Cardinality(Bindings(c)') <= cards'[c].limit
  <2>1. CASE UNCHANGED <<cards, devices>>
    <3>1. Bindings(c)' = Bindings(c) /\ Cardinality(Bindings(c)) \in Nat
      BY <2>1, SetsAreFinite DEF Bindings, RowsOf
    <3> QED BY <1>1, <3>1
  <2>2. ASSUME NEW t \in Threads, Commit(t)
        PROVE  Cardinality(Bindings(c)') <= cards'[c].limit
    <3> DEFINE r == req[t]
               n == Cardinality(Bindings(c))
    <3>1. n \in Nat /\ Cardinality(Bindings(c)') \in Nat
      BY <1>1, <2>2, CommittedCount
    <3>2. r.op = "activate" /\ c = r.card
      <4>1. CASE c # r.card
        BY <1>1, <2>2, <3>1, <4>1, CommittedCount
      <4>2. CASE r.op \in Unbinders \cup Droppers
        BY <1>1, <2>2, <3>1, <4>2, CommittedCount
      <4>3. CASE r.op \notin Unbinders \cup Droppers \cup {"activate"}
        BY <1>1, <2>2, <3>1, <4>3, CommittedCount
      <4> QED BY <4>1, <4>2, <4>3
    <3>3. n < cards[c].limit /\ Cardinality(Bindings(c)') = n + 1
      BY <1>1, <2>2, <3>1, <3>2, CommittedCount
    <3>4. cards[c] \in CardRow /\ cards'[c] = r.want /\ r.want.limit = cards[c].limit
      <4>1. r.pc = "commit" /\ Owned(r)
        BY <1>1, <2>2 DEF Commit, OwnedInv
      <4>2. r.op \notin DeviceOps /\ r.op # "delete" /\ r.pc \notin Answers
        BY <3>2, <4>1 DEF DeviceOps, Answers
      <4> QED BY <1>1, <2>2, <3>2, <4>1, <4>2, CommittedCard DEF Owned
    <3>5. cards[c].limit \in Nat
      BY <3>4, ConstantsAssumption DEF CardRow
    <3> QED BY <3>1, <3>3, <3>4, <3>5
  <2> QED BY <1>1, <2>1, <2>2, OnlyCommitsWrite
<1>2. TypeInv /\ OwnedInv /\ SerialInv /\ [Next]_vars =>
        [\A c \in Cards :
           cards'[c] # Null /\ Cardinality(Bindings(c)') > Cardinality(Bindings(c)) =>
              Cardinality(Bindings(c)') <= cards'[c].limit]_vars
  BY <1>1
<1>3. OnePerCard /\ TypeInv /\ SerialInv /\ [Next]_vars => SerialInv'
  BY SerialStep
<1> QED BY <1>2, <1>3, SerialInit, TypeInvHolds, OwnedHolds, PTL
        DEF Spec, NewBindingWithinLimit

\* A banned card stays banned until an administrator ends the ban: with one
\* request per card at a time, the request that would activate it read its
\* status after the ban.
THEOREM BansHold == Spec /\ []OnePerCard => BanIsSticky
<1>1. ASSUME TypeInv, OwnedInv, SerialInv, [Next]_vars, NEW c \in Cards,
             cards[c] # Null, cards[c].status = "banned", cards'[c] # Null,
             cards'[c].status # "banned"
      PROVE  \E t \in Committing(c) : req[t].op \in {"unban", "reset"}
  <2>1. PICK t \in Threads : Commit(t)
    BY <1>1, OnlyCommitsWrite
  <2> DEFINE r == req[t]
  <2>2. /\ r.pc = "commit" /\ r.pc \notin Answers /\ Owned(r) /\ Decided(r)
    BY <1>1, <2>1 DEF Commit, Answers, OwnedInv, SerialInv, Fine
  <2>3. /\ c = r.card /\ r.op \notin DeviceOps /\ r.op # "delete"
        /\ r.seen = cards[c] /\ cards'[c] = r.want
    BY <1>1, <2>1, CommittedCard
  <2>4. r.op \in {"activate", "ban", "unban", "reset"}
    BY <1>1, <2>2, <2>3 DEF Owned
  <2>5. r.op \in {"unban", "reset"}
    BY <1>1, <2>2, <2>3, <2>4 DEF Decided
  <2>6. t \in Committing(c)
    BY <1>1, <2>1, <2>2, <2>3 DEF Committing, Commit, Answer, Idle, TypeInv
  <2> QED BY <2>5, <2>6
<1>2. TypeInv /\ OwnedInv /\ SerialInv /\ [Next]_vars =>
        [\A c \in Cards :
           cards[c] # Null /\ cards[c].status = "banned" =>
              \/ cards'[c] = Null
              \/ cards'[c].status = "banned"
              \/ \E t \in Committing(c) : req[t].op \in {"unban", "reset"}]_vars
  BY <1>1
<1>3. OnePerCard /\ TypeInv /\ SerialInv /\ [Next]_vars => SerialInv'
  BY SerialStep
<1> QED BY <1>2, <1>3, SerialInit, TypeInvHolds, OwnedHolds, PTL DEF Spec, BanIsSticky

-----------------------------------------------------------------------------
(* One active row of a machine                                             *)

\* An activation that goes on to bind has found no bound row of its machine.
Looked(r) ==
    /\ r.op = "activate"
    /\ r.pc = "list" \/ (r.pc = "commit" /\ r.rows = {})
    => BoundTo(r.card, r.machine) = {}

LookedInv == \A t \in Threads : Looked(req[t])

\* A request that has not looked, or has found, or is none of these.
LEMMA NothingToLook ==
    ASSUME NEW t \in Threads,
           \/ req'[t].op # "activate"
           \/ req'[t].pc \notin {"list", "commit"}
           \/ req'[t].rows # {} /\ req'[t].pc = "commit"
    PROVE  Looked(req[t])'
BY DEF Looked

LEMMA ClientLooked ==
    ASSUME TypeInv, LookedInv, NEW t \in Threads, ClientRequest(t)
    PROVE  Looked(req[t])'
<1> DEFINE r == req[t]
<1>0. r \in Request /\ req \in [Threads -> Request] /\ Looked(r)
  BY DEF TypeInv, LookedInv
<1>1. ASSUME NEW a \in Answers, Answer(t, a) PROVE Looked(req[t])'
  <2>1. req'[t].pc = a
    BY <1>0, <1>1 DEF Answer
  <2> QED BY <2>1, NothingToLook DEF Answers
<1>2. ASSUME NEW c \in Cards, NEW m \in Machines,
             ActivateLoad(t, c, m) \/ VerifyLoad(t, c, m) \/ SelfUnbindLoad(t, c, m)
      PROVE  Looked(req[t])'
  <2>1. ASSUME NEW op, Load(t, op, c, m, cards[c], "find") PROVE Looked(req[t])'
    BY <1>0, <2>1, NothingToLook DEF Load
  <2> QED BY <1>1, <1>2, <2>1 DEF ActivateLoad, VerifyLoad, SelfUnbindLoad, Answers
<1>3. ASSUME NEW want, NEW i, ToCommit(t, want, {i}) PROVE Looked(req[t])'
  <2>1. req'[t].pc = "commit" /\ req'[t].rows = {i}
    BY <1>0, <1>3 DEF ToCommit, Request
  <2> QED BY <2>1, NothingToLook
<1>4. ASSUME BoundTo(r.card, r.machine) = {}, UNCHANGED devices,
             req'[t].card = r.card, req'[t].machine = r.machine
      PROVE  Looked(req[t])'
  BY <1>4 DEF Looked, BoundTo, Bindings, RowsOf
<1>5. CASE ActivateFind(t)
  <2>1. CASE BoundTo(r.card, r.machine) = {} /\ req' = [req EXCEPT ![t].pc = "list"]
    <3>1. req'[t].card = r.card /\ req'[t].machine = r.machine
      BY <1>0, <2>1 DEF Request
    <3> QED BY <1>4, <1>5, <2>1, <3>1 DEF ActivateFind, Tables
  <2> QED BY <1>1, <1>3, <1>5, <2>1 DEF ActivateFind, Answers
<1>6. CASE ActivateCount(t)
  <2>1. CASE ToCommit(t, Activated(r.card, r.seen), {})
    <3>1. req'[t].card = r.card /\ req'[t].machine = r.machine
      BY <1>0, <2>1 DEF ToCommit, Request
    <3>2. BoundTo(r.card, r.machine) = {} /\ UNCHANGED devices
      BY <1>0, <1>6 DEF ActivateCount, Looked, Tables
    <3> QED BY <1>4, <3>1, <3>2
  <2> QED BY <1>1, <1>6, <2>1 DEF ActivateCount, Answers
<1>7. CASE FindBinding(t)
  BY <1>1, <1>3, <1>7 DEF FindBinding, Answers
<1> QED BY <1>2, <1>5, <1>6, <1>7 DEF ClientRequest

LEMMA PageLooked ==
    ASSUME TypeInv, NEW t \in Threads, CardPage(t) \/ DevicePage(t)
    PROVE  Looked(req[t])'
<1>0. req[t] \in Request /\ req \in [Threads -> Request]
  BY DEF TypeInv
<1>1. ASSUME NEW a \in Answers, Answer(t, a) PROVE req'[t].op # "activate"
  BY <1>0, <1>1, NullAssumption DEF Answer, Idle, AllOps
<1>2. ASSUME NEW op \in AllOps \ {"activate"}, NEW c, NEW m, NEW want, NEW pc,
             Load(t, op, c, m, want, pc)
      PROVE  req'[t].op # "activate"
  BY <1>0, <1>2 DEF Load
<1>3. ASSUME req[t].op # "activate", NEW want, NEW rows, ToCommit(t, want, rows)
      PROVE  req'[t].op # "activate"
  BY <1>0, <1>3 DEF ToCommit, Request
<1>4. CASE CardPage(t)
  <2>1. ASSUME NEW c \in Cards, Ban(t, c) \/ Unban(t, c) PROVE req'[t].op # "activate"
    BY <1>1, <1>2, <2>1 DEF Ban, Unban, CardGone, Answers, AllOps
  <2>2. ASSUME NEW c \in Cards, NEW limit, NEW minutes, Edit(t, c, limit, minutes)
        PROVE  req'[t].op # "activate"
    BY <1>1, <1>2, <2>2 DEF Edit, CardGone, Answers, AllOps
  <2>3. ASSUME NEW c \in Cards, ResetLoad(t, c) \/ UnbindAllLoad(t, c) \/ DeleteLoad(t, c)
        PROVE  req'[t].op # "activate"
    BY <1>1, <1>2, <2>3 DEF ResetLoad, UnbindAllLoad, DeleteLoad, LoadForDevices, CardGone,
       Answers, AllOps
  <2>4. ASSUME ResetList(t) \/ UnbindAllList(t) \/ DeleteList(t)
        PROVE  req'[t].op # "activate"
    <3>1. req[t].op # "activate"
      BY <2>4 DEF ResetList, UnbindAllList, DeleteList
    <3>2. Answer(t, "ok") \/ \E want, rows : ToCommit(t, want, rows)
      BY <2>4 DEF ResetList, UnbindAllList, DeleteList
    <3> QED BY <1>1, <1>3, <3>1, <3>2 DEF Answers
  <2> QED BY <1>4, <2>1, <2>2, <2>3, <2>4, NothingToLook DEF CardPage
<1>5. CASE DevicePage(t)
  <2>1. ASSUME NEW op \in AllOps \ {"activate"}, NEW i, NEW m, DeviceLoad(t, op, i, m)
        PROVE  req'[t].op # "activate"
    BY <1>0, <2>1 DEF DeviceLoad
  <2> QED BY <1>1, <1>5, <2>1, NothingToLook DEF DevicePage, DeviceGone, DeviceEdit,
             DeviceUnbind, DeviceDelete, Answers, AllOps
<1> QED BY <1>4, <1>5

LEMMA LookedStep ==
    ASSUME OnePerCard, TypeInv, SerialInv, LookedInv, [Next]_vars
    PROVE  LookedInv'
<1>1. CASE UNCHANGED <<devices, req>>
  BY <1>1 DEF LookedInv, Looked, BoundTo, Bindings, RowsOf
<1>2. ASSUME NEW t \in Threads, Step(t), NEW s \in Threads PROVE Looked(req[s])'
  <2>1. CASE s = t /\ (Commit(t) \/ Abort(t))
    <3>1. req'[s].pc \in Answers
      BY <2>1 DEF Commit, Abort, Answer, Idle, TypeInv, Answers
    <3> QED BY <3>1, NothingToLook DEF Answers
  <2>2. CASE s = t /\ ~(Commit(t) \/ Abort(t))
    BY <1>2, <2>2, ClientLooked, PageLooked DEF Step
  <2>3. CASE s # t
    <3>1. req'[s] = req[s] /\ Looked(req[s])
      BY <1>2, <2>3, StepChangesOneRequest DEF LookedInv
    <3>2. CASE req[s].pc \in Answers
      BY <3>1, <3>2, NothingToLook DEF Answers
    <3>3. CASE UNCHANGED <<cards, devices>>
      BY <3>1, <3>3 DEF Looked, BoundTo, Bindings, RowsOf
    <3>4. ASSUME NEW u \in Threads, Commit(u), req[s].pc \notin Answers
          PROVE  Looked(req[s])'
      <4>1. u # s
        BY <3>1, <3>4 DEF Commit, Answer, Idle, TypeInv, Answers
      <4>2. req[s].card \in Cards /\ req[s].card # req[u].card
        BY <3>4, <4>1, InFlightElsewhere
      <4>3. \A c \in Cards : \A m : c # req[u].card => BoundTo(c, m)' = BoundTo(c, m)
        BY <3>4, OtherCardsKeepRows
      <4> QED BY <3>1, <4>2, <4>3 DEF Looked, BoundTo, Bindings, RowsOf
    <3> QED BY <3>2, <3>3, <3>4, OnlyCommitsWrite
  <2> QED BY <2>1, <2>2, <2>3
<1> QED BY <1>1, <1>2 DEF Next, Tick, vars, LookedInv

\* A row that is re-pointed is still of the card it was loaded for.
RowsStand ==
    \A t \in Threads : Commit(t) /\ req[t].op = "device_edit" =>
        \A i \in req[t].rows : devices[i] # Null => devices[i].card = req[t].card

\* What a commit makes of the bindings of one machine, re-pointing aside.
LEMMA CommittedMachine ==
    ASSUME TypeInv, RowsStand, LookedInv, NEW t \in Threads, Commit(t),
           NEW c \in Cards, NEW m \in Machines,
           ~(req[t].op = "device_edit" /\ req[t].card = c)
    PROVE  \/ BoundTo(c, m)' \subseteq BoundTo(c, m)
           \/ BoundTo(c, m) = {} /\ \E k : BoundTo(c, m)' = {k}
<1> DEFINE r == req[t]
<1>1. /\ r.pc = "commit" /\ WellFormed(r) /\ r.card \in Cards /\ Looked(r)
      /\ UpdatesFindTheirRows(r)
  BY DEF Commit, TypeInv, WellFormed, LookedInv, Answers
<1>2. \A i : /\ i \in BoundTo(c, m) <=>
                  /\ i \in RowIds /\ devices[i] # Null /\ devices[i].card = c
                  /\ devices[i].status = "active" /\ devices[i].machine = m
             /\ i \in BoundTo(c, m)' <=>
                  /\ i \in RowIds /\ devices'[i] # Null /\ devices'[i].card = c
                  /\ devices'[i].status = "active" /\ devices'[i].machine = m
  BY DEF BoundTo, Bindings, RowsOf
<1>3. CASE Inserts(r)
  <2>1. PICK k \in RowIds :
           devices' = [devices EXCEPT ![k] =
              [card |-> r.card, machine |-> r.machine, status |-> "active"]]
    BY <1>3 DEF Commit
  <2>2. /\ devices'[k].card = r.card /\ devices'[k].machine = r.machine
        /\ \A i \in RowIds \ {k} : devices'[i] = devices[i]
    BY <2>1 DEF TypeInv
  <2>3. CASE c = r.card /\ m = r.machine
    <3>1. BoundTo(c, m) = {}
      BY <1>1, <1>3, <2>3 DEF Looked, Inserts
    <3>2. BoundTo(c, m)' \subseteq {k}
      BY <1>2, <2>2, <3>1
    <3> QED BY <3>1, <3>2
  <2>4. CASE ~(c = r.card /\ m = r.machine)
    <3>1. BoundTo(c, m)' \subseteq BoundTo(c, m)
      BY <1>2, <2>2, <2>4
    <3> QED BY <3>1
  <2> QED BY <2>3, <2>4
<1>4. CASE ~Inserts(r)
  <2>1. ASSUME NEW i \in BoundTo(c, m)' PROVE i \in BoundTo(c, m)
    <3>1. /\ i \in RowIds /\ devices'[i] # Null /\ devices'[i].card = c
          /\ devices'[i].status = "active" /\ devices'[i].machine = m
      BY <1>2, <2>1
    <3>2. devices'[i] = IF i \in r.rows THEN RowAfter(r, devices[i]) ELSE devices[i]
      BY <1>4, <3>1 DEF Commit
    <3>3. CASE devices'[i] = devices[i]
      BY <1>2, <3>1, <3>3
    <3>4. CASE i \in r.rows /\ RowAfter(r, devices[i]) # devices[i]
      <4>1. r.op \notin Droppers
        BY <3>1, <3>2, <3>4 DEF RowAfter, Droppers
      <4>2. devices[i] # Null /\ devices[i] \in DeviceRow
        BY <1>1, <3>1, <3>4, <4>1 DEF UpdatesFindTheirRows, TypeInv
      <4>3. r.op = "device_edit" /\ r.machine \in Machines
        <5>1. r.op \notin Unbinders
          BY <3>1, <3>2, <3>4, <4>1, <4>2 DEF RowAfter, Droppers, Unbinders, DeviceRow
        <5> QED BY <1>1, <3>4, <4>1, <5>1 DEF RowAfter, WellFormed, DeviceOps, Answers
      <4>4. /\ devices'[i] = [devices[i] EXCEPT !.machine = r.machine]
            /\ devices[i].card = r.card
        BY <3>2, <3>4, <4>2, <4>3 DEF RowAfter, RowsStand, Droppers, Unbinders
      <4>5. r.card = c
        BY <3>1, <4>2, <4>4 DEF DeviceRow
      <4> QED BY <4>3, <4>5
    <3> QED BY <3>2, <3>3, <3>4
  <2> QED BY <2>1
<1> QED BY <1>3, <1>4

\* A second row of a machine comes about when a request re-points one.
LEMMA DoublesByRepointing ==
    ASSUME TypeInv, [RowsStand]_vars, LookedInv, [Next]_vars, NEW c \in Cards, NEW m \in Machines,
           Cardinality(BoundTo(c, m)') > 1, Cardinality(BoundTo(c, m)) <= 1
    PROVE  \E t \in Committing(c) : req[t].op = "device_edit"
<1>0. /\ BoundTo(c, m) \subseteq RowIds /\ IsFiniteSet(BoundTo(c, m))
      /\ Cardinality(BoundTo(c, m)) \in Nat
  <2>1. BoundTo(c, m) \subseteq 1..MaxRows
    BY DEF BoundTo, Bindings, RowsOf, RowIds
  <2>2. IsFiniteSet(1..MaxRows)
    BY FS_Interval, ConstantsAssumption
  <2> QED BY <2>1, <2>2, FS_Subset, FS_CardinalityType DEF RowIds
<1>1. CASE BoundTo(c, m)' \subseteq BoundTo(c, m)
  <2>1. Cardinality(BoundTo(c, m)') <= Cardinality(BoundTo(c, m))
    BY <1>0, <1>1, FS_Subset
  <2>2. Cardinality(BoundTo(c, m)') \in Nat
    BY <1>0, <1>1, FS_Subset, FS_CardinalityType
  <2> QED BY <1>0, <2>1, <2>2
<1>2. CASE \E k : BoundTo(c, m)' = {k}
  <2>1. Cardinality(BoundTo(c, m)') = 1
    BY <1>2, FS_Singleton
  <2> QED BY <2>1
<1>3. CASE /\ ~(BoundTo(c, m)' \subseteq BoundTo(c, m))
           /\ ~\E k : BoundTo(c, m)' = {k}
  <2>1. PICK t \in Threads : Commit(t)
    <3>1. CASE UNCHANGED <<cards, devices>>
      BY <1>3, <3>1 DEF BoundTo, Bindings, RowsOf
    <3> QED BY <3>1, OnlyCommitsWrite
  <2>2. req[t].op = "device_edit" /\ req[t].card = c
    <3>1. req'[t] # req[t]
      BY <2>1 DEF Commit, Answer, Idle, TypeInv
    <3>2. RowsStand
      BY <3>1 DEF vars
    <3> QED BY <1>3, <2>1, <3>2, CommittedMachine
  <2>3. t \in Committing(c)
    BY <2>1, <2>2 DEF Committing, Commit, Answer, Idle, TypeInv
  <2> QED BY <2>2, <2>3
<1> QED BY <1>1, <1>2, <1>3

\* One request per card at a time binds a machine once: before it inserts a row
\* a request has asked for one, and nobody has inserted it since.  Only an
\* administrator who re-points a row makes a second one.
THEOREM MachinesBindOnce == Spec /\ []OnePerCard => OnlyRepointingDoubles
<1>1. SerialInv => RowsStand
  BY DEF Commit, SerialInv, Fine, Decided, RowsStand, RowsOf, Answers
<1>2. TypeInv /\ SerialInv /\ LookedInv /\ [Next]_vars =>
        [\A c \in Cards, m \in Machines :
           Cardinality(BoundTo(c, m)') > 1 /\ Cardinality(BoundTo(c, m)) <= 1 =>
              \E t \in Committing(c) : req[t].op = "device_edit"]_vars
  BY <1>1, DoublesByRepointing
<1>3. Init => LookedInv
  BY NullAssumption DEF Init, LookedInv, Looked, Idle, AllOps
<1>4. OnePerCard /\ TypeInv /\ SerialInv /\ LookedInv /\ [Next]_vars => SerialInv' /\ LookedInv'
  BY SerialStep, LookedStep
<1> QED BY <1>2, <1>3, <1>4, SerialInit, TypeInvHolds, PTL DEF Spec, OnlyRepointingDoubles

-----------------------------------------------------------------------------
(* The documented state machine                                            *)

LEMMA MappedInit == Init => Contract!Init
<1> SUFFICES ASSUME Init PROVE Contract!Init
  OBVIOUS
<1>1. ASSUME NEW c \in Cards
      PROVE  /\ cards[c] # Null /\ cards[c].status = "unused" /\ cards[c].activated = Null
             /\ cards[c].limit \in 1..MaxLimit /\ Cardinality(Bindings(c)) = 0
  <2>1. Bindings(c) = {}
    BY DEF Init, Bindings, RowsOf
  <2>2. cards[c] \in [status: {"unused"}, limit: 1..MaxLimit,
                     activated: {Null}, expires: {Null}]
    BY DEF Init
  <2>3. cards[c] \in CardRow
    BY <2>2 DEF CardRow
  <2>4. Cardinality(Bindings(c)) = 0
    BY <2>1, FS_EmptySet
  <2> QED BY <2>2, <2>3, <2>4, NullAssumption
<1> QED BY <1>1 DEF Contract!Init

\* The commit of a request alone on its card is one step of the state machine, or none.
LEMMA MappedCommit ==
    ASSUME TypeInv, OwnedInv, SerialInv, NEW t \in Threads, Commit(t),
           NEW c \in Cards, c = req[t].card
    PROVE  \/ Contract!Admit(c) \/ Contract!Ban(c) \/ Contract!Unban(c)
           \/ Contract!Release(c) \/ Contract!SetLimit(c)
           \/ Contract!Reset(c) \/ Contract!Delete(c)
           \/ UNCHANGED Contract!contractVars
<1> DEFINE r == req[t]
           old == cards[c]
           new == cards'[c]
           n == Cardinality(Bindings(c))
           m == Cardinality(Bindings(c)')
<1>1. /\ r.pc = "commit" /\ r.pc \notin Answers /\ r.op \in AllOps /\ Decided(r) /\ Owned(r)
  BY CommittedCard DEF Commit, SerialInv, OwnedInv, Fine, Answers
<1>2. \A d \in Cards \ {c} : cards'[d] = cards[d]
  BY CommittedCard
<1>3. \A d \in Cards \ {c} : Cardinality(Bindings(d)') = Cardinality(Bindings(d))
  BY CommittedCount
<1>4. /\ n \in Nat /\ m \in Nat
      /\ r.op \in Unbinders \cup Droppers => m <= n
      /\ r.op \in {"reset", "delete"} => m = 0
      /\ r.op = "activate" => (n > 0 /\ m = n) \/ (n < old.limit /\ m = n + 1)
      /\ r.op \notin Unbinders \cup Droppers \cup {"activate"} => m = n
  BY CommittedCount
<1>5. /\ r.op = "delete" => new = Null
      /\ r.op \in DeviceOps => new = old
      /\ r.op \notin DeviceOps => /\ old \in CardRow /\ old # Null /\ r.seen = old
                                  /\ r.want \in CardRow /\ r.want # Null
                                  /\ r.op # "delete" => new = r.want
  BY CommittedCard, NullAssumption
<1>6. \A row \in CardRow : /\ row.status \in {"unused", "active", "banned"}
                           /\ row.limit \in 1..MaxLimit
  BY DEF CardRow
<1>7. r.op \notin DeviceOps /\ r.op # "delete" =>
         /\ new \in CardRow /\ new # Null
         /\ new.status # old.status => r.op \in {"activate", "ban", "unban", "reset"}
         /\ new.limit # old.limit => r.op = "edit"
         /\ new.activated # old.activated => r.op \in {"activate", "reset"}
  BY <1>1, <1>5 DEF Owned
<1> HIDE DEF n, m, old, new
<1>8. CASE r.op = "activate"
  <2>1. /\ old.status \in {"unused", "active"} /\ new.status = "active"
        /\ new.activated # Null
    BY <1>1, <1>5, <1>6, <1>8 DEF Decided, Coherent, DeviceOps
  <2>2. Contract!Admit(c)
    BY <1>2, <1>3, <1>4, <1>5, <1>7, <1>8, <2>1 DEF Contract!Admit, DeviceOps, n, m, old, new
  <2> QED BY <2>2
<1>9. CASE r.op = "ban"
  <2>1. new.status = "banned" /\ m = n
    BY <1>1, <1>4, <1>5, <1>9 DEF Decided, DeviceOps, Unbinders, Droppers
  <2>2. Contract!Ban(c)
    BY <1>2, <1>3, <1>5, <1>7, <1>6, <1>9, <2>1 DEF Contract!Ban, DeviceOps, n, m, old, new
  <2> QED BY <2>2
<1>10. CASE r.op = "unban"
  <2>1. /\ new.status = IF old.activated = Null THEN "unused" ELSE "active"
        /\ m = n
    BY <1>1, <1>4, <1>5, <1>10 DEF Decided, DeviceOps, StatusBefore, Unbinders, Droppers
  <2>2. /\ old # Null /\ new # Null /\ new.limit = old.limit
        /\ new.activated = old.activated /\ old.status # "deleted"
    BY <1>5, <1>6, <1>7, <1>10 DEF DeviceOps
  <2>3. Contract!Unban(c)
    BY <1>2, <1>3, <2>1, <2>2 DEF Contract!Unban, n, m, old, new
  <2> QED BY <2>3
<1>11. CASE r.op = "edit"
  <2>1. m = n
    BY <1>4, <1>11 DEF Unbinders, Droppers
  <2>2. /\ old # Null /\ new # Null /\ new.status = old.status
        /\ new.activated = old.activated /\ old.status # "deleted"
        /\ new.limit \in 1..MaxLimit
    BY <1>5, <1>6, <1>7, <1>11 DEF DeviceOps
  <2>3. Contract!SetLimit(c)
    BY <1>2, <1>3, <2>1, <2>2 DEF Contract!SetLimit, n, m, old, new
  <2> QED BY <2>3
<1>12. CASE r.op = "reset"
  <2>1. new.status = "unused" /\ new.activated = Null
    BY <1>1, <1>5, <1>12 DEF Decided, DeviceOps
  <2>2. Contract!Reset(c)
    BY <1>2, <1>3, <1>4, <1>5, <1>6, <1>7, <1>12, <2>1
       DEF Contract!Reset, DeviceOps, n, m, old, new
  <2> QED BY <2>2
<1>13. CASE r.op = "delete"
  <2>1. Contract!Delete(c)
    BY <1>2, <1>3, <1>4, <1>5, <1>13 DEF Contract!Delete, n, m, old, new
  <2> QED BY <2>1
<1>14. CASE r.op \in {"self_unbind", "unbind_all", "device_unbind", "device_delete"}
  <2>1. m <= n
    BY <1>4, <1>14 DEF Unbinders, Droppers
  <2>2. /\ new = Null <=> old = Null
        /\ old # Null => /\ new.status = old.status /\ new.limit = old.limit
                         /\ new.activated = old.activated
    BY <1>5, <1>7, <1>14 DEF DeviceOps
  <2>3. Contract!Release(c)
    BY <1>2, <1>3, <1>4, <2>1, <2>2 DEF Contract!Release, n, m, old, new
  <2> QED BY <2>3
<1>15. CASE r.op \in {"verify", "device_edit"}
  <2>1. m = n
    BY <1>4, <1>15 DEF Unbinders, Droppers
  <2>2. /\ new = Null <=> old = Null
        /\ old # Null => /\ new.status = old.status /\ new.limit = old.limit
                         /\ new.activated = old.activated
    BY <1>5, <1>7, <1>15 DEF DeviceOps
  <2>3. UNCHANGED Contract!contractVars
    BY <1>2, <1>3, <2>1, <2>2 DEF Contract!contractVars, n, m, old, new
  <2> QED BY <2>3
<1> QED BY <1>1, <1>8, <1>9, <1>10, <1>11, <1>12, <1>13, <1>14, <1>15 DEF AllOps

LEMMA MappedStep ==
    ASSUME TypeInv, OwnedInv, SerialInv, [Next]_vars
    PROVE  Contract!Next \/ UNCHANGED Contract!contractVars
<1>1. CASE UNCHANGED <<cards, devices>>
  <2>1. \A c \in Cards : Bindings(c)' = Bindings(c)
    BY <1>1 DEF Bindings, RowsOf
  <2> QED BY <1>1, <2>1 DEF Contract!contractVars
<1>2. ASSUME NEW t \in Threads, Commit(t)
      PROVE  Contract!Next \/ UNCHANGED Contract!contractVars
  <2>1. PICK c \in Cards : c = req[t].card
    BY <1>2, CommittedCard
  <2> QED BY <1>2, <2>1, MappedCommit DEF Contract!Next
<1> QED BY <1>1, <1>2, OnlyCommitsWrite

\* One request per card at a time, the requests and their sessions implement
\* the state machine that the documentation draws, for every card at once.
THEOREM ContractHolds == Spec /\ []OnePerCard => ContractSpec
<1>1. OnePerCard /\ TypeInv /\ SerialInv /\ [Next]_vars => SerialInv'
  BY SerialStep
<1>2. TypeInv /\ OwnedInv /\ SerialInv /\ [Next]_vars =>
        [Contract!Next]_(Contract!contractVars)
  BY MappedStep
<1> QED BY <1>1, <1>2, MappedInit, SerialInit, TypeInvHolds, OwnedHolds, PTL
        DEF Spec, ContractSpec, Contract!Spec

=============================================================================
