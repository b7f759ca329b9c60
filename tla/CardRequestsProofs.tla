------------------------- MODULE CardRequestsProofs -------------------------
(* Theorems of CardRequests, for any number of cards, machines and threads. *)
EXTENDS CardRequests, FiniteSetTheorems, TLAPS

ClientOps == {"activate", "verify", "self_unbind"}
DeviceOps == {"device_edit", "device_unbind", "device_delete"}

\* What a request in flight carries: a card operation the card row it loaded
\* and the row it wants, an operation on a device none.
WellFormed(r) ==
    /\ r \in Request
    /\ r.pc \notin Answers =>
         /\ r.card \in Cards
         /\ r.op \in AllOps
         /\ r.op \in DeviceOps => r.seen = Null /\ r.want = Null
         /\ r.op \notin DeviceOps => r.seen \in CardRow /\ r.want \in CardRow
         /\ r.op \in ClientOps \cup DeviceOps => r.machine \in Machines

TypeInv ==
    /\ now \in 0..MaxTime
    /\ cards \in [Cards -> CardRow \cup {Null}]
    /\ devices \in [RowIds -> DeviceRow \cup {Null}]
    /\ req \in [Threads -> Request]
    /\ \A t \in Threads : WellFormed(req[t])

LEMMA AnswerWellFormed ==
    ASSUME NEW a \in Answers
    PROVE  WellFormed([Idle EXCEPT !.pc = a])
BY DEF WellFormed, Idle, Request, Answers

\* A step that gives thread t a well-formed request and leaves the tables
\* keeps the invariant.
LEMMA RequestStep ==
    ASSUME TypeInv, NEW t \in Threads, NEW r, WellFormed(r),
           req' = [req EXCEPT ![t] = r], UNCHANGED Tables
    PROVE  TypeInv'
<1>1. r \in Request
  BY DEF WellFormed
<1>2. req' \in [Threads -> Request]
  BY <1>1 DEF TypeInv
<1>3. \A s \in Threads : WellFormed(req'[s])
  BY DEF TypeInv
<1>4. \A s \in Threads : WellFormed(req[s])'
  BY <1>3 DEF WellFormed
<1> QED
  BY <1>2, <1>4 DEF TypeInv, Tables

LEMMA AnswerStep ==
    ASSUME TypeInv, NEW t \in Threads, NEW a \in Answers, Answer(t, a), UNCHANGED Tables
    PROVE  TypeInv'
BY AnswerWellFormed, RequestStep DEF Answer

LEMMA LoadStep ==
    ASSUME TypeInv, NEW t \in Threads, NEW c \in Cards, cards[c] # Null,
           NEW op \in AllOps \ DeviceOps, NEW m \in Machines \cup {Null},
           op \in ClientOps => m \in Machines,
           NEW want \in CardRow, NEW pc \in {"find", "list", "commit"},
           Load(t, op, c, m, want, pc), UNCHANGED Tables
    PROVE  TypeInv'
<1> DEFINE r == [pc |-> pc, op |-> op, card |-> c, machine |-> m,
                 seen |-> cards[c], want |-> want, rows |-> {}]
<1>1. cards[c] \in CardRow
  BY DEF TypeInv
<1>2. r \in Request
  BY <1>1 DEF Request
<1>3. WellFormed(r)
  BY <1>1, <1>2 DEF WellFormed
<1>4. req' = [req EXCEPT ![t] = r]
  BY DEF Load
<1> HIDE DEF r
<1> QED
  BY <1>3, <1>4, RequestStep

LEMMA ToCommitStep ==
    ASSUME TypeInv, NEW t \in Threads, req[t].pc \notin Answers,
           req[t].op \notin DeviceOps,
           NEW want \in CardRow, NEW rows \in SUBSET RowIds,
           ToCommit(t, want, rows), UNCHANGED Tables
    PROVE  TypeInv'
<1> DEFINE r == [req[t] EXCEPT !.pc = "commit", !.want = want, !.rows = rows]
<1>1. req[t] \in Request /\ WellFormed(req[t])
  BY DEF TypeInv
<1>2. r \in Request
  BY <1>1 DEF Request
<1>3. /\ r.card = req[t].card /\ r.op = req[t].op /\ r.seen = req[t].seen
      /\ r.machine = req[t].machine /\ r.want = want
  BY <1>1 DEF Request
<1>4. WellFormed(r)
  BY <1>1, <1>2, <1>3 DEF WellFormed
<1>5. req' = [req EXCEPT ![t] = r]
  BY DEF ToCommit, TypeInv
<1> HIDE DEF r
<1> QED
  BY <1>4, <1>5, RequestStep

LEMMA ActivatedTyped ==
    ASSUME TypeInv, NEW c \in Cards, NEW row \in CardRow
    PROVE  Activated(c, row) \in CardRow
<1>1. now \in Nat /\ now + Duration[c] \in Times /\ now \in Times
  BY ConstantsAssumption DEF TypeInv, Times
<1>2. ComputeExpiry(c) \in Times \cup {Null}
  BY <1>1 DEF ComputeExpiry
<1>3. CASE row.status # "unused"
  BY <1>3 DEF Activated
<1>4. CASE row.status = "unused"
  <2>1. Activated(c, row) = [row EXCEPT !.status = "active", !.activated = now,
                                        !.expires = ComputeExpiry(c)]
    BY <1>4 DEF Activated
  <2> QED
    BY <1>1, <1>2, <2>1 DEF CardRow
<1> QED
  BY <1>3, <1>4

LEMMA FlushedCardTyped ==
    ASSUME NEW r, r.seen \in CardRow, r.want \in CardRow, NEW row \in CardRow
    PROVE  FlushedCard(r, row) \in CardRow
BY DEF FlushedCard, Column, CardRow

LEMMA RowAfterTyped ==
    ASSUME NEW r, WellFormed(r), r.pc = "commit", NEW row \in DeviceRow
    PROVE  RowAfter(r, row) \in DeviceRow \cup {Null}
<1>1. CASE r.op \in Droppers
  BY <1>1 DEF RowAfter, Unbinders, Droppers
<1>2. CASE r.op \in Unbinders
  BY <1>2 DEF RowAfter, DeviceRow, Unbinders, Droppers
<1>3. CASE r.op = "device_edit"
  <2>1. r.machine \in Machines
    BY <1>3 DEF WellFormed, DeviceOps, Answers
  <2> QED
    BY <1>3, <2>1 DEF RowAfter, DeviceRow, Unbinders, Droppers
<1>4. CASE r.op \notin Droppers \cup Unbinders \cup {"device_edit"}
  BY <1>4 DEF RowAfter
<1> QED
  BY <1>1, <1>2, <1>3, <1>4

LEMMA BindingsAreRows ==
    \A c : RowsOf(c) \subseteq RowIds /\ Bindings(c) \subseteq RowsOf(c)
BY DEF RowsOf, Bindings

\* The steps of a request that only read.
LEMMA ClientSteps ==
    ASSUME TypeInv, NEW t \in Threads, ClientRequest(t)
    PROVE  TypeInv'
<1>1. ASSUME NEW c \in Cards, NEW m \in Machines, ActivateLoad(t, c, m)
      PROVE  TypeInv'
  <2>1. CASE Answer(t, "refused")
    BY <1>1, <2>1, AnswerStep DEF ActivateLoad, Answers
  <2>2. CASE cards[c] # Null /\ Load(t, "activate", c, m, cards[c], "find")
    BY <1>1, <2>2, LoadStep DEF ActivateLoad, AllOps, DeviceOps, TypeInv
  <2> QED
    BY <1>1, <2>1, <2>2 DEF ActivateLoad
<1>2. ASSUME NEW c \in Cards, NEW m \in Machines, VerifyLoad(t, c, m)
      PROVE  TypeInv'
  <2>1. CASE Answer(t, "refused")
    BY <1>2, <2>1, AnswerStep DEF VerifyLoad, Answers
  <2>2. CASE cards[c] # Null /\ Load(t, "verify", c, m, cards[c], "find")
    BY <1>2, <2>2, LoadStep DEF VerifyLoad, AllOps, DeviceOps, TypeInv
  <2> QED
    BY <1>2, <2>1, <2>2 DEF VerifyLoad
<1>3. ASSUME NEW c \in Cards, NEW m \in Machines, SelfUnbindLoad(t, c, m)
      PROVE  TypeInv'
  <2>1. CASE Answer(t, "refused")
    BY <1>3, <2>1, AnswerStep DEF SelfUnbindLoad, Answers
  <2>2. CASE cards[c] # Null /\ Load(t, "self_unbind", c, m, cards[c], "find")
    BY <1>3, <2>2, LoadStep DEF SelfUnbindLoad, AllOps, DeviceOps, TypeInv
  <2> QED
    BY <1>3, <2>1, <2>2 DEF SelfUnbindLoad
<1>4. ASSUME ActivateFind(t)
      PROVE  TypeInv'
  <2>0. /\ req[t].pc \notin Answers /\ req[t].op \notin DeviceOps
        /\ req[t].card \in Cards /\ req[t].seen \in CardRow
    BY <1>4 DEF ActivateFind, TypeInv, WellFormed, Answers, DeviceOps
  <2>1. ASSUME NEW i \in BoundTo(req[t].card, req[t].machine),
               ToCommit(t, Activated(req[t].card, req[t].seen), {i})
        PROVE  TypeInv'
    <3>1. {i} \in SUBSET RowIds
      BY <2>1, BindingsAreRows DEF BoundTo
    <3> QED
      BY <1>4, <2>0, <2>1, <3>1, ActivatedTyped, ToCommitStep DEF ActivateFind
  <2>2. CASE Answer(t, "refused")
    BY <1>4, <2>2, AnswerStep DEF ActivateFind, Answers
  <2>3. CASE req' = [req EXCEPT ![t].pc = "list"]
    <3> DEFINE r == [req[t] EXCEPT !.pc = "list"]
    <3>1. req[t] \in Request /\ WellFormed(req[t])
      BY DEF TypeInv
    <3>2. r \in Request
      BY <3>1 DEF Request
    <3>3. WellFormed(r)
      BY <2>0, <3>1, <3>2 DEF WellFormed, Request
    <3>4. req' = [req EXCEPT ![t] = r]
      BY <2>3 DEF TypeInv
    <3>5. UNCHANGED Tables
      BY <1>4 DEF ActivateFind
    <3> HIDE DEF r
    <3> QED
      BY <3>3, <3>4, <3>5, RequestStep
  <2> QED
    BY <1>4, <2>1, <2>2, <2>3 DEF ActivateFind
<1>5. ASSUME ActivateCount(t)
      PROVE  TypeInv'
  <2>0. /\ req[t].pc \notin Answers /\ req[t].op \notin DeviceOps
        /\ req[t].card \in Cards /\ req[t].seen \in CardRow
    BY <1>5 DEF ActivateCount, TypeInv, WellFormed, Answers, DeviceOps
  <2>1. CASE Answer(t, "refused")
    BY <1>5, <2>1, AnswerStep DEF ActivateCount, Answers
  <2>2. CASE ToCommit(t, Activated(req[t].card, req[t].seen), {})
    BY <1>5, <2>0, <2>2, ActivatedTyped, ToCommitStep DEF ActivateCount
  <2> QED
    BY <1>5, <2>1, <2>2 DEF ActivateCount
<1>6. ASSUME FindBinding(t)
      PROVE  TypeInv'
  <2>0. /\ req[t].pc \notin Answers /\ req[t].op \notin DeviceOps
        /\ req[t].want \in CardRow
    BY <1>6 DEF FindBinding, TypeInv, WellFormed, Answers, DeviceOps
  <2>1. CASE Answer(t, "refused")
    BY <1>6, <2>1, AnswerStep DEF FindBinding, Answers
  <2>2. ASSUME NEW i \in BoundTo(req[t].card, req[t].machine),
               ToCommit(t, req[t].want, {i})
        PROVE  TypeInv'
    <3>1. {i} \in SUBSET RowIds
      BY <2>2, BindingsAreRows DEF BoundTo
    <3> QED
      BY <1>6, <2>0, <2>2, <3>1, ToCommitStep DEF FindBinding
  <2> QED
    BY <1>6, <2>1, <2>2 DEF FindBinding
<1> QED
  BY <1>1, <1>2, <1>3, <1>4, <1>5, <1>6 DEF ClientRequest

LEMMA CardGoneStep ==
    ASSUME TypeInv, NEW t \in Threads, NEW c \in Cards, CardGone(t, c), UNCHANGED Tables
    PROVE  TypeInv'
BY AnswerStep DEF CardGone, Answers

LEMMA LoadForDevicesStep ==
    ASSUME TypeInv, NEW t \in Threads, NEW c \in Cards,
           NEW op \in {"reset", "unbind_all", "delete"}, LoadForDevices(t, op, c)
    PROVE  TypeInv'
<1>1. CASE CardGone(t, c)
  BY <1>1, CardGoneStep DEF LoadForDevices
<1>2. CASE cards[c] # Null /\ Load(t, op, c, Null, cards[c], "list")
  <2>1. op \in AllOps \ DeviceOps /\ op \notin ClientOps /\ cards[c] \in CardRow
    BY <1>2 DEF AllOps, DeviceOps, ClientOps, TypeInv
  <2> QED
    BY <1>2, <2>1, LoadStep DEF LoadForDevices
<1> QED
  BY <1>1, <1>2 DEF LoadForDevices

LEMMA CardPageSteps ==
    ASSUME TypeInv, NEW t \in Threads, CardPage(t)
    PROVE  TypeInv'
<1>1. ASSUME NEW c \in Cards, Ban(t, c)
      PROVE  TypeInv'
  <2>1. CASE CardGone(t, c)
    BY <1>1, <2>1, CardGoneStep DEF Ban
  <2>2. CASE /\ cards[c] # Null
             /\ Load(t, "ban", c, Null, [cards[c] EXCEPT !.status = "banned"], "commit")
    <3>1. cards[c] \in CardRow
      BY <2>2 DEF TypeInv
    <3>2. [cards[c] EXCEPT !.status = "banned"] \in CardRow
      BY <3>1 DEF CardRow
    <3> QED
      BY <1>1, <2>2, <3>2, LoadStep DEF Ban, AllOps, DeviceOps, ClientOps
  <2> QED
    BY <1>1, <2>1, <2>2 DEF Ban
<1>2. ASSUME NEW c \in Cards, Unban(t, c)
      PROVE  TypeInv'
  <2>1. CASE CardGone(t, c)
    BY <1>2, <2>1, CardGoneStep DEF Unban
  <2>2. CASE /\ cards[c] # Null
             /\ Load(t, "unban", c, Null,
                     [cards[c] EXCEPT !.status = StatusBefore(cards[c])], "commit")
    <3>1. cards[c] \in CardRow /\ StatusBefore(cards[c]) \in {"unused", "active"}
      BY <2>2 DEF TypeInv, StatusBefore
    <3>2. [cards[c] EXCEPT !.status = StatusBefore(cards[c])] \in CardRow
      BY <3>1 DEF CardRow
    <3> QED
      BY <1>2, <2>2, <3>2, LoadStep DEF Unban, AllOps, DeviceOps, ClientOps
  <2> QED
    BY <1>2, <2>1, <2>2 DEF Unban
<1>3. ASSUME NEW c \in Cards, NEW limit \in 0..MaxLimit, NEW minutes \in Extensions,
             Edit(t, c, limit, minutes)
      PROVE  TypeInv'
  <2> DEFINE new == [cards[c] EXCEPT !.limit = AtLeastOne(limit),
                                     !.expires = Extended(cards[c], minutes)]
  <2>1. CASE CardGone(t, c)
    BY <1>3, <2>1, CardGoneStep DEF Edit
  <2>2. CASE /\ cards[c] # Null
             /\ Extended(cards[c], minutes) \in Times \cup {Null}
             /\ Load(t, "edit", c, Null, new, "commit")
    <3>1. cards[c] \in CardRow
      BY <2>2 DEF TypeInv
    <3>2. AtLeastOne(limit) \in 1..MaxLimit
      BY ConstantsAssumption DEF AtLeastOne
    <3>3. new \in CardRow
      BY <2>2, <3>1, <3>2 DEF CardRow
    <3> HIDE DEF new
    <3> QED
      BY <1>3, <2>2, <3>3, LoadStep DEF Edit, AllOps, DeviceOps, ClientOps
  <2> QED
    BY <1>3, <2>1, <2>2 DEF Edit
<1>4. ASSUME NEW c \in Cards, ResetLoad(t, c) \/ UnbindAllLoad(t, c) \/ DeleteLoad(t, c)
      PROVE  TypeInv'
  BY <1>4, LoadForDevicesStep DEF ResetLoad, UnbindAllLoad, DeleteLoad
<1>5. ASSUME req[t].pc = "list", req[t].op \in {"reset", "unbind_all", "delete"}
      PROVE  /\ req[t].pc \notin Answers /\ req[t].op \notin DeviceOps
             /\ req[t].card \in Cards /\ req[t].seen \in CardRow
  BY <1>5 DEF TypeInv, WellFormed, Answers, DeviceOps
<1>6. ASSUME ResetList(t)
      PROVE  TypeInv'
  <2> DEFINE new == [req[t].seen EXCEPT !.status = "unused", !.activated = Null,
                                        !.expires = Null]
  <2>1. new \in CardRow
    BY <1>5, <1>6 DEF ResetList, CardRow
  <2>2. ToCommit(t, new, Bindings(req[t].card)) /\ UNCHANGED Tables
    BY <1>6 DEF ResetList
  <2> HIDE DEF new
  <2> QED
    BY <1>5, <1>6, <2>1, <2>2, BindingsAreRows, ToCommitStep DEF ResetList
<1>7. ASSUME UnbindAllList(t)
      PROVE  TypeInv'
  <2>1. CASE Answer(t, "ok")
    BY <1>7, <2>1, AnswerStep DEF UnbindAllList, Answers
  <2>2. CASE ToCommit(t, req[t].seen, Bindings(req[t].card))
    BY <1>5, <1>7, <2>2, BindingsAreRows, ToCommitStep DEF UnbindAllList
  <2> QED
    BY <1>7, <2>1, <2>2 DEF UnbindAllList
<1>8. ASSUME DeleteList(t)
      PROVE  TypeInv'
  BY <1>5, <1>8, BindingsAreRows, ToCommitStep DEF DeleteList
<1> QED
  BY <1>1, <1>2, <1>3, <1>4, <1>6, <1>7, <1>8 DEF CardPage

LEMMA DeviceLoadStep ==
    ASSUME TypeInv, NEW t \in Threads, NEW i \in RowIds, devices[i] # Null,
           NEW op \in DeviceOps, NEW m \in Machines,
           DeviceLoad(t, op, i, m), UNCHANGED Tables
    PROVE  TypeInv'
<1> DEFINE r == [pc |-> "commit", op |-> op, card |-> devices[i].card, machine |-> m,
                 seen |-> Null, want |-> Null, rows |-> {i}]
<1>1. devices[i].card \in Cards
  BY DEF TypeInv, DeviceRow
<1>2. op \in AllOps
  BY DEF AllOps, DeviceOps
<1>3. r \in Request
  BY <1>1, <1>2 DEF Request
<1>4. WellFormed(r)
  BY <1>1, <1>2, <1>3 DEF WellFormed
<1>5. req' = [req EXCEPT ![t] = r]
  BY DEF DeviceLoad
<1> HIDE DEF r
<1> QED
  BY <1>4, <1>5, RequestStep

LEMMA DevicePageSteps ==
    ASSUME TypeInv, NEW t \in Threads, DevicePage(t)
    PROVE  TypeInv'
<1>1. PICK i \in RowIds : \/ \E m \in Machines : DeviceEdit(t, i, m)
                          \/ DeviceUnbind(t, i)
                          \/ DeviceDelete(t, i)
  BY DEF DevicePage
<1>2. UNCHANGED Tables
  BY <1>1 DEF DeviceEdit, DeviceUnbind, DeviceDelete
<1>3. CASE Answer(t, "refused")
  BY <1>2, <1>3, AnswerStep DEF Answers
<1>4. ASSUME devices[i] # Null, NEW op \in DeviceOps, NEW m \in Machines,
             DeviceLoad(t, op, i, m)
      PROVE  TypeInv'
  BY <1>2, <1>4, DeviceLoadStep
<1>5. devices[i] # Null => devices[i].machine \in Machines
  BY DEF TypeInv, DeviceRow
<1> QED
  BY <1>1, <1>3, <1>4, <1>5 DEF DeviceEdit, DeviceUnbind, DeviceDelete, DeviceGone, DeviceOps

\* A card row that a commit writes was there and is typed.
LEMMA CardAfterTyped ==
    ASSUME TypeInv, NEW t \in Threads, req[t].pc = "commit", UpdatesFindTheirRows(req[t])
    PROVE  /\ CardAfter(req[t], cards[req[t].card]) \in CardRow \cup {Null}
           /\ CardAfter(req[t], cards[req[t].card]) = Null =>
                 req[t].op = "delete" \/ cards[req[t].card] = Null
<1> DEFINE r == req[t]
<1>1. WellFormed(r) /\ r.card \in Cards
  BY DEF TypeInv, WellFormed, Answers
<1>2. CASE r.op = "delete"
  BY <1>2 DEF CardAfter
<1>3. CASE r.op # "delete" /\ WritesCard(r)
  <2>1. r.seen \in CardRow /\ r.want \in CardRow
    BY <1>1, <1>3 DEF WellFormed, WritesCard, Answers
  <2>2. cards[r.card] \in CardRow
    BY <1>1, <1>3 DEF UpdatesFindTheirRows, TypeInv
  <2>3. CardAfter(r, cards[r.card]) = FlushedCard(r, cards[r.card])
    BY <1>3 DEF CardAfter
  <2>4. FlushedCard(r, cards[r.card]) \in CardRow
    BY <2>1, <2>2, FlushedCardTyped
  <2> QED
    BY <2>3, <2>4, NullAssumption
<1>4. CASE r.op # "delete" /\ ~WritesCard(r)
  BY <1>1, <1>4 DEF CardAfter, TypeInv
<1> QED
  BY <1>2, <1>3, <1>4

LEMMA CommitStep ==
    ASSUME TypeInv, NEW t \in Threads, Commit(t)
    PROVE  TypeInv'
<1> DEFINE r == req[t]
<1>1. /\ r.pc = "commit" /\ UpdatesFindTheirRows(r)
      /\ cards' = [cards EXCEPT ![r.card] = CardAfter(r, cards[r.card])]
      /\ Answer(t, "ok") /\ now' = now
  BY DEF Commit, TypeInv
<1>2. WellFormed(r) /\ r.card \in Cards /\ r.rows \subseteq RowIds
  BY <1>1 DEF TypeInv, WellFormed, Answers, Request
<1>3. cards' \in [Cards -> CardRow \cup {Null}]
  BY <1>1, <1>2, CardAfterTyped DEF TypeInv
<1>4. devices' \in [RowIds -> DeviceRow \cup {Null}]
  <2>1. CASE /\ ~Inserts(r)
             /\ devices' = [i \in RowIds |->
                   IF i \in r.rows THEN RowAfter(r, devices[i]) ELSE devices[i]]
    <3>1. ASSUME NEW i \in r.rows
          PROVE  RowAfter(r, devices[i]) \in DeviceRow \cup {Null}
      <4>1. CASE devices[i] \in DeviceRow
        BY <1>1, <1>2, <4>1, RowAfterTyped
      <4>2. CASE devices[i] = Null
        BY <1>1, <4>2 DEF UpdatesFindTheirRows, RowAfter, Droppers, Unbinders
      <4> QED
        BY <1>2, <4>1, <4>2 DEF TypeInv
    <3> QED
      BY <2>1, <3>1 DEF TypeInv
  <2>2. CASE /\ Inserts(r)
             /\ \E i \in RowIds : devices' = [devices EXCEPT ![i] =
                   [card |-> r.card, machine |-> r.machine, status |-> "active"]]
    <3>1. r.machine \in Machines
      BY <1>1, <1>2, <2>2 DEF WellFormed, Inserts, ClientOps, Answers
    <3>2. [card |-> r.card, machine |-> r.machine, status |-> "active"] \in DeviceRow
      BY <1>2, <3>1 DEF DeviceRow
    <3> QED
      BY <2>2, <3>2 DEF TypeInv
  <2> QED
    BY <2>1, <2>2 DEF Commit
<1>5. req' \in [Threads -> Request] /\ \A s \in Threads : WellFormed(req'[s])
  <2>1. WellFormed([Idle EXCEPT !.pc = "ok"])
    BY AnswerWellFormed DEF Answers
  <2> QED
    BY <1>1, <2>1 DEF Answer, TypeInv, WellFormed
<1>6. \A s \in Threads : WellFormed(req[s])'
  BY <1>5 DEF WellFormed
<1>7. now' \in 0..MaxTime
  BY <1>1 DEF TypeInv
<1> QED
  BY <1>3, <1>4, <1>5, <1>6, <1>7 DEF TypeInv

LEMMA TypeInvInit == Init => TypeInv
<1> SUFFICES ASSUME Init PROVE TypeInv
  OBVIOUS
<1>1. WellFormed(Idle)
  BY DEF WellFormed, Idle, Request, Answers
<1>2. req \in [Threads -> Request] /\ \A t \in Threads : WellFormed(req[t])
  BY <1>1 DEF Init, WellFormed
<1>3. [status: {"unused"}, limit: 1..MaxLimit, activated: {Null}, expires: {Null}]
         \subseteq CardRow
  BY DEF CardRow
<1>4. cards \in [Cards -> CardRow]
  BY <1>3 DEF Init
<1>5. now \in 0..MaxTime /\ devices \in [RowIds -> DeviceRow \cup {Null}]
  BY ConstantsAssumption DEF Init
<1> QED
  BY <1>2, <1>4, <1>5 DEF TypeInv

LEMMA TypeInvStep == TypeInv /\ [Next]_vars => TypeInv'
<1> SUFFICES ASSUME TypeInv, [Next]_vars PROVE TypeInv'
  OBVIOUS
<1>1. CASE UNCHANGED vars
  BY <1>1 DEF TypeInv, vars, WellFormed
<1>2. CASE Tick
  <2>1. now' \in 0..MaxTime
    BY <1>2, ConstantsAssumption DEF Tick, TypeInv
  <2> QED
    BY <1>2, <2>1 DEF Tick, TypeInv, WellFormed
<1>3. ASSUME NEW t \in Threads, Step(t)
      PROVE  TypeInv'
  <2>1. CASE Abort(t)
    BY <2>1, AnswerStep DEF Abort, Answers
  <2> QED
    BY <1>3, <2>1, ClientSteps, CardPageSteps, DevicePageSteps, CommitStep DEF Step
<1> QED
  BY <1>1, <1>2, <1>3 DEF Next

\* The tables and the requests in flight stay within their types, whatever
\* the number of cards, machines, device rows and concurrent requests.
THEOREM TypesHold == Spec => []TypeOK
<1>1. TypeInv => TypeOK
  BY DEF TypeInv, TypeOK
<1> QED
  BY <1>1, TypeInvInit, TypeInvStep, PTL DEF Spec

LEMMA TypeInvHolds == Spec => []TypeInv
BY TypeInvInit, TypeInvStep, PTL DEF Spec

-----------------------------------------------------------------------------
(* Safety of the tables.                                                   *)

\* Only a commit changes the tables.
LEMMA OnlyCommitsWrite ==
    ASSUME [Next]_vars, \A t \in Threads : ~Commit(t)
    PROVE  UNCHANGED <<cards, devices>>
<1>1. CASE UNCHANGED vars
  BY <1>1 DEF vars
<1>2. CASE Tick
  BY <1>2 DEF Tick
<1>3. ASSUME NEW t \in Threads, ClientRequest(t)
      PROVE  UNCHANGED Tables
  BY <1>3 DEF ClientRequest, ActivateLoad, VerifyLoad, SelfUnbindLoad, ActivateFind,
              ActivateCount, FindBinding
<1>4. ASSUME NEW t \in Threads, CardPage(t)
      PROVE  UNCHANGED Tables
  BY <1>4 DEF CardPage, Ban, Unban, Edit, ResetLoad, UnbindAllLoad, DeleteLoad,
              LoadForDevices, ResetList, UnbindAllList, DeleteList
<1>5. ASSUME NEW t \in Threads, DevicePage(t)
      PROVE  UNCHANGED Tables
  BY <1>5 DEF DevicePage, DeviceEdit, DeviceUnbind, DeviceDelete
<1>6. ASSUME NEW t \in Threads, Abort(t)
      PROVE  UNCHANGED Tables
  BY <1>6 DEF Abort
<1> QED
  BY <1>1, <1>2, <1>3, <1>4, <1>5, <1>6 DEF Next, Step, Tables

\* What a commit makes of one device row.
LEMMA CommittedRow ==
    ASSUME TypeInv, NEW t \in Threads, Commit(t), NEW i \in RowIds, devices'[i] # Null
    PROVE  \/ devices'[i] = devices[i]
           \/ /\ devices[i] # Null /\ i \in req[t].rows
              /\ req[t].op \notin Droppers
              /\ devices'[i].card = devices[i].card
              /\ devices'[i].status \in {devices[i].status, "unbound"}
           \/ /\ Inserts(req[t]) /\ IsNewRow(i) /\ devices[i] = Null
              /\ devices'[i].card = req[t].card
<1> DEFINE r == req[t]
<1>1. CASE /\ ~Inserts(r)
           /\ devices' = [j \in RowIds |->
                 IF j \in r.rows THEN RowAfter(r, devices[j]) ELSE devices[j]]
  <2>1. CASE i \notin r.rows
    BY <1>1, <2>1
  <2>2. CASE i \in r.rows
    <3>1. devices'[i] = RowAfter(r, devices[i])
      BY <1>1, <2>2
    <3>2. r.op \notin Droppers
      BY <3>1 DEF RowAfter, Droppers, Unbinders
    <3>3. devices[i] \in DeviceRow
      BY <2>2, <3>2 DEF Commit, UpdatesFindTheirRows, TypeInv
    <3>4. CASE r.op \in Unbinders
      <4>1. devices'[i] = [devices[i] EXCEPT !.status = "unbound"]
        BY <3>1, <3>4 DEF RowAfter, Droppers, Unbinders
      <4> QED
        BY <2>2, <3>2, <3>3, <4>1, NullAssumption DEF DeviceRow
    <3>5. CASE r.op = "device_edit"
      <4>1. devices'[i] = [devices[i] EXCEPT !.machine = r.machine]
        BY <3>1, <3>5 DEF RowAfter, Droppers, Unbinders
      <4> QED
        BY <2>2, <3>2, <3>3, <4>1, NullAssumption DEF DeviceRow
    <3>6. CASE r.op \notin Unbinders \cup {"device_edit"}
      BY <3>1, <3>2, <3>6 DEF RowAfter
    <3> QED
      BY <3>4, <3>5, <3>6
  <2> QED
    BY <2>1, <2>2
<1>2. CASE Inserts(r)
  <2>1. PICK k \in RowIds : /\ IsNewRow(k)
                            /\ devices' = [devices EXCEPT ![k] =
                                  [card |-> r.card, machine |-> r.machine, status |-> "active"]]
    BY <1>2 DEF Commit
  <2>2. devices[k] = Null
    BY <2>1 DEF IsNewRow, RowIds
  <2>3. CASE i = k
    BY <1>2, <2>1, <2>2, <2>3 DEF TypeInv
  <2>4. CASE i # k
    BY <2>1, <2>4 DEF TypeInv
  <2> QED
    BY <2>3, <2>4
<1> QED
  BY <1>1, <1>2 DEF Commit

LEMMA IntegrityStep ==
    ASSUME TypeInv, ReferentialIntegrity, [Next]_vars
    PROVE  ReferentialIntegrity'
<1>1. CASE UNCHANGED <<cards, devices>>
  BY <1>1 DEF ReferentialIntegrity
<1>2. ASSUME NEW t \in Threads, Commit(t), NEW i \in RowIds, devices'[i] # Null
      PROVE  cards'[devices'[i].card] # Null
  <2> DEFINE r == req[t]
  <2>1. /\ UpdatesFindTheirRows(r) /\ ForeignKeysHold(r) /\ r.pc = "commit"
        /\ cards' = [cards EXCEPT ![r.card] = CardAfter(r, cards[r.card])]
        /\ r.card \in Cards
    BY <1>2 DEF Commit, TypeInv, WellFormed, Answers
  <2>2. \A c \in Cards : cards'[c] = Null => cards[c] = Null \/ (c = r.card /\ r.op = "delete")
    BY <1>2, <2>1, CardAfterTyped DEF TypeInv
  <2>3. CASE devices'[i] = devices[i]
    <3>1. devices[i].card \in Cards /\ cards[devices[i].card] # Null
      BY <1>2, <2>3 DEF ReferentialIntegrity, TypeInv, DeviceRow
    <3>2. ~(devices[i].card = r.card /\ r.op = "delete")
      <4>1. SUFFICES ASSUME devices[i].card = r.card, r.op = "delete" PROVE FALSE
        OBVIOUS
      <4>2. i \in r.rows
        BY <1>2, <2>1, <2>3, <4>1 DEF ForeignKeysHold, RowsOf
      <4>3. devices'[i] = RowAfter(r, devices[i])
        BY <1>2, <4>1, <4>2 DEF Commit, Inserts
      <4> QED
        BY <1>2, <4>1, <4>3 DEF RowAfter, Droppers, Unbinders
    <3> QED
      BY <2>2, <2>3, <3>1, <3>2
  <2>4. CASE /\ devices[i] # Null /\ r.op \notin Droppers
             /\ devices'[i].card = devices[i].card
    BY <2>2, <2>4 DEF ReferentialIntegrity, TypeInv, DeviceRow, Droppers
  <2>5. CASE Inserts(r) /\ devices'[i].card = r.card
    BY <2>1, <2>2, <2>5 DEF ForeignKeysHold, Inserts
  <2> QED
    BY <1>2, <2>3, <2>4, <2>5, CommittedRow
<1> QED
  BY <1>1, <1>2, OnlyCommitsWrite DEF ReferentialIntegrity

\* No interleaving of deletions, bindings and unbindings leaves a device row
\* whose card is gone: the enforced foreign keys decide every such race.
THEOREM NoOrphanDevices == Spec => []ReferentialIntegrity
<1>1. Init => ReferentialIntegrity
  BY DEF Init, ReferentialIntegrity
<1>2. TypeInv /\ ReferentialIntegrity /\ [Next]_vars => ReferentialIntegrity'
  BY IntegrityStep
<1> QED
  BY <1>1, <1>2, TypeInvHolds, PTL DEF Spec

\* A released binding stays released through every interleaving: a session
\* writes the columns it changed, and none but an insertion makes a row active.
THEOREM ReleasedForGood == Spec => UnboundIsFinal
<1>1. ASSUME TypeInv, [Next]_vars, NEW i \in RowIds,
             devices[i] # Null, devices[i].status = "unbound"
      PROVE  devices'[i] = Null \/ devices'[i].status = "unbound"
  <2>1. CASE UNCHANGED <<cards, devices>>
    BY <1>1, <2>1
  <2>2. ASSUME NEW t \in Threads, Commit(t), devices'[i] # Null
        PROVE  devices'[i].status = "unbound"
    BY <1>1, <2>2, CommittedRow
  <2> QED
    BY <1>1, <2>1, <2>2, OnlyCommitsWrite
<1>2. TypeInv /\ [Next]_vars =>
        [\A i \in RowIds : devices[i] # Null /\ devices[i].status = "unbound" =>
            devices'[i] = Null \/ devices'[i].status = "unbound"]_vars
  BY <1>1
<1> QED
  BY <1>2, TypeInvHolds, PTL DEF Spec, UnboundIsFinal

-----------------------------------------------------------------------------
(* The device limit under concurrency.                                     *)

\* The request of thread s after a step of thread s or of another thread.
LEMMA StepChangesOneRequest ==
    ASSUME TypeInv, NEW t \in Threads, Step(t), NEW s \in Threads, s # t
    PROVE  req'[s] = req[s]
<1>1. CASE ClientRequest(t)
  BY <1>1 DEF ClientRequest, ActivateLoad, VerifyLoad, SelfUnbindLoad, ActivateFind,
              ActivateCount, FindBinding, Answer, Load, ToCommit, TypeInv
<1>2. CASE CardPage(t)
  BY <1>2 DEF CardPage, CardGone, Ban, Unban, Edit, ResetLoad, UnbindAllLoad, DeleteLoad,
              LoadForDevices, ResetList, UnbindAllList, DeleteList, Answer, Load, ToCommit,
              TypeInv
<1>3. CASE DevicePage(t)
  BY <1>3 DEF DevicePage, DeviceGone, DeviceEdit, DeviceUnbind, DeviceDelete, DeviceLoad,
              Answer, TypeInv
<1>4. CASE Commit(t) \/ Abort(t)
  BY <1>4 DEF Commit, Abort, Answer, TypeInv
<1> QED
  BY <1>1, <1>2, <1>3, <1>4 DEF Step

\* A thread comes to the insertion through the check of the limit alone.
LEMMA OnlyCountLeadsToBinding ==
    ASSUME TypeInv, NEW t \in Threads, Step(t),
           req'[t].pc = "commit", Inserts(req'[t])
    PROVE  ActivateCount(t) /\ ~LimitReached(req[t]) /\ req'[t].card = req[t].card
<1>1. req[t] \in Request
  BY DEF TypeInv
<1>2. ASSUME NEW a \in Answers, Answer(t, a)
      PROVE  FALSE
  BY <1>2 DEF Answer, Idle, Answers, TypeInv
<1>3. ASSUME NEW op, op # "activate", NEW c, NEW m, NEW want, NEW pc, Load(t, op, c, m, want, pc)
      PROVE  FALSE
  BY <1>3 DEF Load, Inserts, TypeInv
<1>4. ASSUME req[t].op # "activate", NEW want, NEW rows, ToCommit(t, want, rows)
      PROVE  FALSE
  BY <1>1, <1>4 DEF ToCommit, Inserts, TypeInv, Request
<1>5. CASE CardPage(t)
  BY <1>2, <1>3, <1>4, <1>5 DEF CardPage, CardGone, Ban, Unban, Edit, ResetLoad,
     UnbindAllLoad, DeleteLoad, LoadForDevices, ResetList, UnbindAllList, DeleteList, Answers
<1>6. CASE DevicePage(t)
  BY <1>2, <1>6 DEF DevicePage, DeviceGone, DeviceEdit, DeviceUnbind, DeviceDelete,
     DeviceLoad, Inserts, Answers, TypeInv
<1>7. CASE Commit(t) \/ Abort(t)
  BY <1>2, <1>7 DEF Commit, Abort, Answers
<1>8. CASE ClientRequest(t)
  <2>1. ASSUME NEW c \in Cards, NEW m \in Machines, ActivateLoad(t, c, m)
        PROVE  FALSE
    BY <1>2, <2>1 DEF ActivateLoad, Load, Answers, TypeInv
  <2>2. ASSUME NEW c \in Cards, NEW m \in Machines,
               VerifyLoad(t, c, m) \/ SelfUnbindLoad(t, c, m)
        PROVE  FALSE
    BY <1>2, <1>3, <2>2 DEF VerifyLoad, SelfUnbindLoad, Answers
  <2>3. ASSUME ActivateFind(t)
        PROVE  FALSE
    <3>1. ASSUME NEW i, NEW want, ToCommit(t, want, {i})
          PROVE  FALSE
      BY <1>1, <3>1 DEF ToCommit, Inserts, TypeInv, Request
    <3>2. ASSUME req' = [req EXCEPT ![t].pc = "list"]
          PROVE  FALSE
      BY <1>1, <3>2 DEF TypeInv, Request
    <3> QED
      BY <1>2, <2>3, <3>1, <3>2 DEF ActivateFind, Answers
  <2>4. ASSUME FindBinding(t)
        PROVE  FALSE
    BY <1>2, <1>4, <2>4 DEF FindBinding, Answers
  <2>5. ASSUME ActivateCount(t)
        PROVE  ~LimitReached(req[t]) /\ req'[t].card = req[t].card
    BY <1>1, <1>2, <2>5 DEF ActivateCount, ToCommit, TypeInv, Answers, Request
  <2> QED
    BY <1>8, <2>1, <2>2, <2>3, <2>4, <2>5 DEF ClientRequest
<1> QED
  BY <1>5, <1>6, <1>7, <1>8 DEF Step

LEMMA SetsAreFinite ==
    ASSUME NEW c
    PROVE  /\ IsFiniteSet(Bindings(c)) /\ Cardinality(Bindings(c)) \in Nat
           /\ IsFiniteSet(Binding(c)) /\ Cardinality(Binding(c)) \in Nat
           /\ Cardinality(Binding(c)) <= Cardinality(Threads)
           /\ Cardinality(Threads) \in Nat
<1>1. IsFiniteSet(RowIds)
  BY FS_Interval, ConstantsAssumption DEF RowIds
<1>2. IsFiniteSet(Bindings(c))
  BY <1>1, BindingsAreRows, FS_Subset
<1>3. Binding(c) \subseteq Threads /\ IsFiniteSet(Threads)
  BY ConstantsAssumption DEF Binding
<1>4. IsFiniteSet(Binding(c)) /\ Cardinality(Binding(c)) <= Cardinality(Threads)
  BY <1>3, FS_Subset
<1> QED
  BY <1>2, <1>3, <1>4, FS_CardinalityType

\* Nothing but an insertion adds to the bindings of a card.
LEMMA BindingsGrowByInsertion ==
    ASSUME TypeInv, NEW t \in Threads, Commit(t), NEW c \in Cards
    PROVE  \/ Bindings(c)' \subseteq Bindings(c)
           \/ /\ t \in Binding(c)
              /\ \E k \in RowIds : Bindings(c)' \subseteq Bindings(c) \cup {k}
<1>1. ASSUME NEW i \in Bindings(c)', i \notin Bindings(c)
      PROVE  Inserts(req[t]) /\ IsNewRow(i) /\ req[t].card = c
  <2>1. i \in RowIds /\ devices'[i] # Null
        /\ devices'[i].card = c /\ devices'[i].status = "active"
    BY <1>1 DEF Bindings, RowsOf
  <2>2. ~(devices[i] # Null /\ devices[i].card = c /\ devices[i].status = "active")
    BY <1>1, <2>1 DEF Bindings, RowsOf
  <2> QED
    BY <2>1, <2>2, CommittedRow
<1>2. \A i, j \in RowIds : IsNewRow(i) /\ IsNewRow(j) => i = j
  <2> SUFFICES ASSUME NEW i \in RowIds, NEW j \in RowIds, IsNewRow(i), IsNewRow(j), i < j
               PROVE  FALSE
    BY DEF RowIds
  <2>1. j > 1 /\ j - 1 \in RowIds /\ j - 1 >= i
    BY ConstantsAssumption DEF RowIds
  <2>2. devices[j - 1] # Null
    BY <2>1 DEF IsNewRow
  <2> QED
    BY <2>1, <2>2 DEF IsNewRow, RowIds
<1>3. CASE \E i \in Bindings(c)' : i \notin Bindings(c)
  <2>1. PICK k \in Bindings(c)' : k \notin Bindings(c)
    BY <1>3
  <2>2. k \in RowIds
    BY <2>1 DEF Bindings, RowsOf
  <2>3. t \in Binding(c)
    BY <1>1, <2>1 DEF Binding, Commit
  <2>4. Bindings(c)' \subseteq Bindings(c) \cup {k}
    <3>1. \A i \in Bindings(c)' : i \in RowIds
      BY DEF Bindings, RowsOf
    <3> QED
      BY <1>1, <1>2, <2>1, <2>2, <3>1
  <2> QED
    BY <2>2, <2>3, <2>4
<1> QED
  BY <1>3

-----------------------------------------------------------------------------
(* The columns an operation writes.                                        *)

\* A request in flight changes in memory the columns of its operation only.
Owned(r) ==
    r.pc \notin Answers /\ r.op \notin DeviceOps =>
      /\ r.want.status # r.seen.status => r.op \in {"activate", "ban", "unban", "reset"}
      /\ r.want.limit # r.seen.limit => r.op = "edit"
      /\ r.want.activated # r.seen.activated => r.op \in {"activate", "reset"}
      /\ r.want.expires # r.seen.expires => r.op \in {"activate", "edit", "reset"}

OwnedInv == \A t \in Threads : Owned(req[t])

\* What a load and a step to the commit leave in the request.
LEMMA LoadOwned ==
    ASSUME TypeInv, NEW t \in Threads, NEW op, NEW c, NEW m, NEW want, NEW pc,
           Load(t, op, c, m, want, pc)
    PROVE  /\ req'[t].op = op /\ req'[t].seen = cards[c] /\ req'[t].want = want
           /\ want = cards[c] => Owned(req'[t])
BY DEF Load, TypeInv, Owned

LEMMA AnswerOwned ==
    ASSUME TypeInv, NEW t \in Threads, NEW a \in Answers, Answer(t, a)
    PROVE  Owned(req'[t])
BY DEF Answer, Idle, TypeInv, Owned

LEMMA ToCommitOwned ==
    ASSUME TypeInv, NEW t \in Threads, NEW want, NEW rows, ToCommit(t, want, rows)
    PROVE  /\ req'[t].op = req[t].op /\ req'[t].seen = req[t].seen /\ req'[t].want = want
           /\ want = req[t].seen => Owned(req'[t])
<1>1. req[t] \in Request
  BY DEF TypeInv
<1>2. /\ req'[t].op = req[t].op /\ req'[t].seen = req[t].seen /\ req'[t].want = want
  BY <1>1 DEF ToCommit, TypeInv, Request
<1> QED
  BY <1>2 DEF Owned

LEMMA OwnedStep ==
    ASSUME TypeInv, OwnedInv, NEW t \in Threads, Step(t)
    PROVE  Owned(req'[t])
<1>0. Owned(req[t]) /\ req[t] \in Request
  BY DEF OwnedInv, TypeInv
<1>1. ASSUME NEW a \in Answers, Answer(t, a)
      PROVE  Owned(req'[t])
  BY <1>1, AnswerOwned
<1>2. ASSUME NEW op, NEW c, NEW m, NEW pc, Load(t, op, c, m, cards[c], pc)
      PROVE  Owned(req'[t])
  BY <1>2, LoadOwned
<1>3. ASSUME ClientRequest(t)
      PROVE  Owned(req'[t])
  <2>1. ASSUME NEW want, NEW rows, req[t].op = "activate",
               want = Activated(req[t].card, req[t].seen), req[t].seen \in CardRow,
               ToCommit(t, want, rows)
        PROVE  Owned(req'[t])
    <3>1. /\ req'[t].op = "activate" /\ req'[t].seen = req[t].seen
          /\ req'[t].want = Activated(req[t].card, req[t].seen)
      BY <2>1, ToCommitOwned
    <3>2. Activated(req[t].card, req[t].seen).limit = req[t].seen.limit
      <4>1. CASE req[t].seen.status # "unused"
        BY <4>1 DEF Activated
      <4>2. CASE req[t].seen.status = "unused"
        BY <2>1, <4>2 DEF Activated, CardRow
      <4> QED
        BY <4>1, <4>2
    <3> QED
      BY <3>1, <3>2 DEF Owned
  <2>2. ASSUME ActivateFind(t)
        PROVE  Owned(req'[t])
    <3>1. req[t].op = "activate" /\ req[t].seen \in CardRow
      BY <2>2 DEF ActivateFind, TypeInv, WellFormed, Answers, DeviceOps
    <3>2. CASE req' = [req EXCEPT ![t].pc = "list"]
      BY <1>0, <2>2, <3>2 DEF Owned, TypeInv, Request, ActivateFind, Answers
    <3> QED
      BY <1>1, <2>1, <2>2, <3>1, <3>2 DEF ActivateFind, Answers
  <2>3. ASSUME ActivateCount(t)
        PROVE  Owned(req'[t])
    <3>1. req[t].op = "activate" /\ req[t].seen \in CardRow
      BY <2>3 DEF ActivateCount, TypeInv, WellFormed, Answers, DeviceOps
    <3> QED
      BY <1>1, <2>1, <2>3, <3>1 DEF ActivateCount, Answers
  <2>4. ASSUME FindBinding(t)
        PROVE  Owned(req'[t])
    <3>1. ASSUME NEW rows, ToCommit(t, req[t].want, rows)
          PROVE  Owned(req'[t])
      <4>1. /\ req'[t].op = req[t].op /\ req'[t].seen = req[t].seen
            /\ req'[t].want = req[t].want
        BY <3>1, ToCommitOwned
      <4>2. req[t].pc \notin Answers
        BY <2>4 DEF FindBinding, Answers
      <4> QED
        BY <1>0, <4>1, <4>2 DEF Owned
    <3> QED
      BY <1>1, <2>4, <3>1 DEF FindBinding, Answers
  <2>5. ASSUME NEW c \in Cards, NEW m \in Machines,
               ActivateLoad(t, c, m) \/ VerifyLoad(t, c, m) \/ SelfUnbindLoad(t, c, m)
        PROVE  Owned(req'[t])
    BY <1>1, <1>2, <2>5 DEF ActivateLoad, VerifyLoad, SelfUnbindLoad, Answers
  <2> QED
    BY <1>3, <2>2, <2>3, <2>4, <2>5 DEF ClientRequest
<1>4. ASSUME CardPage(t)
      PROVE  Owned(req'[t])
  <2>1. ASSUME NEW c \in Cards, Ban(t, c)
        PROVE  Owned(req'[t])
    <3>1. CASE /\ cards[c] # Null
               /\ Load(t, "ban", c, Null, [cards[c] EXCEPT !.status = "banned"], "commit")
      <4>1. cards[c] \in CardRow
        BY <3>1 DEF TypeInv
      <4>2. /\ [cards[c] EXCEPT !.status = "banned"].limit = cards[c].limit
            /\ [cards[c] EXCEPT !.status = "banned"].activated = cards[c].activated
            /\ [cards[c] EXCEPT !.status = "banned"].expires = cards[c].expires
        BY <4>1 DEF CardRow
      <4>3. /\ req'[t].op = "ban" /\ req'[t].seen = cards[c]
            /\ req'[t].want = [cards[c] EXCEPT !.status = "banned"]
        BY <3>1, LoadOwned
      <4> QED
        BY <4>2, <4>3 DEF Owned
    <3> QED
      BY <1>1, <2>1, <3>1 DEF Ban, CardGone, Answers
  <2>2. ASSUME NEW c \in Cards, Unban(t, c)
        PROVE  Owned(req'[t])
    <3> DEFINE new == [cards[c] EXCEPT !.status = StatusBefore(cards[c])]
    <3>1. CASE cards[c] # Null /\ Load(t, "unban", c, Null, new, "commit")
      <4>1. cards[c] \in CardRow
        BY <3>1 DEF TypeInv
      <4>2. /\ new.limit = cards[c].limit /\ new.activated = cards[c].activated
            /\ new.expires = cards[c].expires
        BY <4>1 DEF CardRow
      <4>3. /\ req'[t].op = "unban" /\ req'[t].seen = cards[c]
            /\ req'[t].want = new
        BY <3>1, LoadOwned
      <4> QED
        BY <4>2, <4>3 DEF Owned
    <3> QED
      BY <1>1, <2>2, <3>1 DEF Unban, CardGone, Answers
  <2>3. ASSUME NEW c \in Cards, NEW limit \in 0..MaxLimit, NEW minutes \in Extensions,
               Edit(t, c, limit, minutes)
        PROVE  Owned(req'[t])
    <3> DEFINE new == [cards[c] EXCEPT !.limit = AtLeastOne(limit),
                                       !.expires = Extended(cards[c], minutes)]
    <3>1. CASE cards[c] # Null /\ Load(t, "edit", c, Null, new, "commit")
      <4>1. cards[c] \in CardRow
        BY <3>1 DEF TypeInv
      <4>2. new.status = cards[c].status /\ new.activated = cards[c].activated
        BY <4>1 DEF CardRow
      <4>3. /\ req'[t].op = "edit" /\ req'[t].seen = cards[c]
            /\ req'[t].want = new
        BY <3>1, LoadOwned
      <4> QED
        BY <4>2, <4>3 DEF Owned
    <3> QED
      BY <1>1, <2>3, <3>1 DEF Edit, CardGone, Answers
  <2>4. ASSUME NEW c \in Cards, ResetLoad(t, c) \/ UnbindAllLoad(t, c) \/ DeleteLoad(t, c)
        PROVE  Owned(req'[t])
    BY <1>1, <1>2, <2>4 DEF ResetLoad, UnbindAllLoad, DeleteLoad, LoadForDevices, CardGone,
                            Answers
  <2>5. ASSUME ResetList(t)
        PROVE  Owned(req'[t])
    <3> DEFINE new == [req[t].seen EXCEPT !.status = "unused", !.activated = Null,
                                          !.expires = Null]
    <3>1. req[t].op = "reset" /\ req[t].seen \in CardRow
      BY <2>5 DEF ResetList, TypeInv, WellFormed, Answers, DeviceOps
    <3>2. new.limit = req[t].seen.limit
      BY <3>1 DEF CardRow
    <3>3. /\ req'[t].op = "reset" /\ req'[t].seen = req[t].seen /\ req'[t].want = new
      BY <2>5, <3>1, ToCommitOwned DEF ResetList
    <3> QED
      BY <3>2, <3>3 DEF Owned
  <2>6. ASSUME UnbindAllList(t) \/ DeleteList(t)
        PROVE  Owned(req'[t])
    BY <1>1, <2>6, ToCommitOwned DEF UnbindAllList, DeleteList, Answers
  <2> QED
    BY <1>4, <2>1, <2>2, <2>3, <2>4, <2>5, <2>6 DEF CardPage
<1>5. ASSUME DevicePage(t)
      PROVE  Owned(req'[t])
  BY <1>1, <1>5 DEF DevicePage, DeviceGone, DeviceEdit, DeviceUnbind, DeviceDelete,
                    DeviceLoad, DeviceOps, Owned, Answers, TypeInv
<1>6. ASSUME Commit(t) \/ Abort(t)
      PROVE  Owned(req'[t])
  BY <1>1, <1>6 DEF Commit, Abort, Answers
<1> QED
  BY <1>3, <1>4, <1>5, <1>6 DEF Step

LEMMA OwnedHolds == Spec => []OwnedInv
<1>1. Init => OwnedInv
  BY DEF Init, OwnedInv, Owned, Idle, Answers
<1>2. TypeInv /\ OwnedInv /\ [Next]_vars => OwnedInv'
  <2> SUFFICES ASSUME TypeInv, OwnedInv, [Next]_vars, NEW s \in Threads
               PROVE  Owned(req[s])'
    BY DEF OwnedInv
  <2>1. CASE req' = req
    BY <2>1 DEF OwnedInv, Owned
  <2>2. ASSUME NEW t \in Threads, Step(t)
        PROVE  Owned(req'[s])
    BY <2>2, OwnedStep, StepChangesOneRequest DEF OwnedInv
  <2> QED
    BY <2>1, <2>2 DEF Next, Tick, vars, Owned
<1> QED
  BY <1>1, <1>2, TypeInvHolds, PTL DEF Spec

\* Concurrent sessions never undo each other on columns they do not change: a
\* ban survives a concurrent change of the limit, an extension survives a
\* concurrent ban.
THEOREM ColumnsHaveOwners == Spec => ColumnsAreOwned
<1>1. ASSUME TypeInv, OwnedInv, [Next]_vars, NEW c \in Cards,
             cards[c] # Null, cards'[c] # Null
      PROVE  LET Ran(ops) == \E t \in Committing(c) : req[t].op \in ops IN
             /\ cards'[c].status # cards[c].status =>
                   Ran({"activate", "ban", "unban", "reset"})
             /\ cards'[c].limit # cards[c].limit => Ran({"edit"})
             /\ cards'[c].activated # cards[c].activated => Ran({"activate", "reset"})
             /\ cards'[c].expires # cards[c].expires =>
                   Ran({"activate", "edit", "reset"})
  <2>1. CASE UNCHANGED <<cards, devices>>
    BY <2>1
  <2>2. ASSUME NEW t \in Threads, Commit(t), cards'[c] # cards[c]
        PROVE  /\ t \in Committing(c)
               /\ cards'[c].status # cards[c].status =>
                     req[t].op \in {"activate", "ban", "unban", "reset"}
               /\ cards'[c].limit # cards[c].limit => req[t].op \in {"edit"}
               /\ cards'[c].activated # cards[c].activated =>
                     req[t].op \in {"activate", "reset"}
               /\ cards'[c].expires # cards[c].expires =>
                     req[t].op \in {"activate", "edit", "reset"}
    <3> DEFINE r == req[t]
    <3>1. /\ r.pc = "commit" /\ Answer(t, "ok")
          /\ cards' = [cards EXCEPT ![r.card] = CardAfter(r, cards[r.card])]
      BY <2>2 DEF Commit, TypeInv
    <3>2. r.card = c /\ cards'[c] = CardAfter(r, cards[c])
      BY <2>2, <3>1, <1>1 DEF TypeInv
    <3>3. req'[t].pc = "ok"
      BY <1>1, <3>1 DEF Answer, Idle, TypeInv
    <3>4. r.op # "delete" /\ WritesCard(r) /\ cards'[c] = FlushedCard(r, cards[c])
      BY <1>1, <2>2, <3>2 DEF CardAfter
    <3>5. r.op \notin DeviceOps /\ Owned(r)
      BY <1>1, <3>1, <3>4 DEF OwnedInv, TypeInv, WellFormed, WritesCard, Answers
    <3>6. t \in Committing(c)
      BY <3>1, <3>2, <3>3 DEF Committing
    <3> QED
      BY <3>1, <3>4, <3>5, <3>6 DEF Owned, FlushedCard, Column, Answers
  <2> QED
    BY <1>1, <2>1, <2>2, OnlyCommitsWrite
<1>2. TypeInv /\ OwnedInv /\ [Next]_vars =>
        [\A c \in Cards : cards[c] # Null /\ cards'[c] # Null =>
           LET Ran(ops) == \E t \in Committing(c) : req[t].op \in ops IN
           /\ cards'[c].status # cards[c].status =>
                 Ran({"activate", "ban", "unban", "reset"})
           /\ cards'[c].limit # cards[c].limit => Ran({"edit"})
           /\ cards'[c].activated # cards[c].activated => Ran({"activate", "reset"})
           /\ cards'[c].expires # cards[c].expires =>
                 Ran({"activate", "edit", "reset"})]_vars
  BY <1>1
<1> QED
  BY <1>2, TypeInvHolds, OwnedHolds, PTL DEF Spec, ColumnsAreOwned

-----------------------------------------------------------------------------
(* The two dates of a card.                                                *)

\* No edit moves an expiry: a form either leaves it alone or is not sent.
NoEditMovesExpiry == "edit" \notin Ops \/ Extensions \subseteq {0}

\* The expiry a card activated at time a has.
TermOf(c, a) ==
    IF a # Null /\ Kind[c] = "time" /\ Duration[c] > 0 THEN a + Duration[c] ELSE Null

Dated(c, row) == row.expires = TermOf(c, row.activated)

\* A request has loaded dates that belong together, from rows that may have
\* changed since, and changes both or neither.
DatedRequest(r) ==
    r.pc \notin Answers /\ r.op \notin DeviceOps => Dated(r.card, r.seen) /\ Dated(r.card, r.want)

DatesInv ==
    /\ \A c \in Cards : cards[c] # Null => Dated(c, cards[c])
    /\ \A t \in Threads : DatedRequest(req[t])

\* Activations at different times expire at different times, so the flush
\* writes either both dates or neither.
LEMMA FlushDated ==
    ASSUME NEW c \in Cards, NEW r, NEW row \in CardRow,
           r.seen \in CardRow, r.want \in CardRow,
           Dated(c, r.seen), Dated(c, r.want), Dated(c, row)
    PROVE  Dated(c, FlushedCard(r, row))
<1>1. /\ FlushedCard(r, row).activated = Column(r.seen.activated, r.want.activated, row.activated)
      /\ FlushedCard(r, row).expires = Column(r.seen.expires, r.want.expires, row.expires)
  BY DEF FlushedCard
<1>2. CASE Kind[c] = "time" /\ Duration[c] > 0
  <2>1. Duration[c] \in Nat /\ Null \notin Int
    BY ConstantsAssumption, NullAssumption
  <2>2. /\ r.seen.activated \in Nat \cup {Null} /\ r.want.activated \in Nat \cup {Null}
        /\ row.activated \in Nat \cup {Null}
    BY ConstantsAssumption DEF CardRow, Times
  <2>3. r.seen.expires = r.want.expires <=> r.seen.activated = r.want.activated
    BY <1>2, <2>1, <2>2 DEF Dated, TermOf
  <2> QED
    BY <1>1, <2>3 DEF Dated, Column
<1>3. CASE ~(Kind[c] = "time" /\ Duration[c] > 0)
  BY <1>1, <1>3 DEF Dated, TermOf, Column
<1> QED
  BY <1>2, <1>3

LEMMA ActivatedDated ==
    ASSUME TypeInv, NEW c \in Cards, NEW row \in CardRow, Dated(c, row)
    PROVE  Dated(c, Activated(c, row))
<1>1. CASE row.status # "unused"
  BY <1>1 DEF Activated
<1>2. CASE row.status = "unused"
  <2>1. now # Null
    BY ConstantsAssumption, NullAssumption DEF TypeInv
  <2>2. Activated(c, row).activated = now /\ Activated(c, row).expires = ComputeExpiry(c)
    BY <1>2 DEF Activated, CardRow
  <2> QED
    BY <2>1, <2>2 DEF Dated, TermOf, ComputeExpiry
<1> QED
  BY <1>1, <1>2

LEMMA AnswerDated ==
    ASSUME TypeInv, NEW t \in Threads, NEW a \in Answers, Answer(t, a)
    PROVE  DatedRequest(req'[t])
BY DEF Answer, Idle, TypeInv, DatedRequest

LEMMA LoadDated ==
    ASSUME TypeInv, DatesInv, NEW t \in Threads, NEW op, NEW c \in Cards, NEW m, NEW want,
           NEW pc, cards[c] # Null, Load(t, op, c, m, want, pc), Dated(c, want)
    PROVE  DatedRequest(req'[t])
BY DEF Load, TypeInv, DatesInv, DatedRequest

LEMMA ToCommitDated ==
    ASSUME TypeInv, DatesInv, NEW t \in Threads, req[t].pc \notin Answers,
           req[t].op \notin DeviceOps, NEW want, NEW rows, ToCommit(t, want, rows),
           Dated(req[t].card, want)
    PROVE  DatedRequest(req'[t])
<1>1. /\ req'[t].card = req[t].card /\ req'[t].seen = req[t].seen
      /\ req'[t].want = want
  BY DEF ToCommit, TypeInv, Request
<1> QED
  BY <1>1 DEF DatesInv, DatedRequest

\* What an operation on a card has in hand between two of its steps.
LEMMA CardInHand ==
    ASSUME TypeInv, DatesInv, NEW t \in Threads, req[t].pc \notin Answers,
           req[t].op \notin DeviceOps
    PROVE  /\ req[t].card \in Cards /\ req[t].seen \in CardRow /\ req[t].want \in CardRow
           /\ Dated(req[t].card, req[t].seen) /\ Dated(req[t].card, req[t].want)
BY DEF TypeInv, WellFormed, DatesInv, DatedRequest

LEMMA ClientDated ==
    ASSUME TypeInv, DatesInv, NEW t \in Threads, ClientRequest(t)
    PROVE  DatedRequest(req'[t])
<1>1. ASSUME NEW a \in Answers, Answer(t, a) PROVE DatedRequest(req'[t])
  BY <1>1, AnswerDated
<1>2. ASSUME NEW op, NEW c \in Cards, NEW m, NEW pc, cards[c] # Null,
             Load(t, op, c, m, cards[c], pc)
      PROVE  DatedRequest(req'[t])
  BY <1>2, LoadDated DEF DatesInv
<1>3. ASSUME req[t].pc \in {"find", "list"}, req[t].op \notin DeviceOps, NEW rows,
             \/ ToCommit(t, Activated(req[t].card, req[t].seen), rows)
             \/ ToCommit(t, req[t].want, rows)
      PROVE  DatedRequest(req'[t])
  <2>1. req[t].pc \notin Answers
    BY <1>3 DEF Answers
  <2> QED
    BY <1>3, <2>1, CardInHand, ActivatedDated, ToCommitDated
<1>4. CASE ActivateFind(t)
  <2>1. /\ req[t].pc = "find" /\ req[t].op \notin DeviceOps /\ req[t].pc \notin Answers
    BY <1>4 DEF ActivateFind, DeviceOps, Answers
  <2>2. CASE req' = [req EXCEPT ![t].pc = "list"]
    <3>1. /\ req'[t].card = req[t].card /\ req'[t].seen = req[t].seen
          /\ req'[t].want = req[t].want
      BY <2>2 DEF TypeInv, Request
    <3> QED
      BY <2>1, <3>1, CardInHand DEF DatedRequest
  <2> QED
    BY <1>1, <1>3, <1>4, <2>1, <2>2 DEF ActivateFind, Answers
<1>5. CASE ActivateCount(t)
  BY <1>1, <1>3, <1>5 DEF ActivateCount, Answers, DeviceOps
<1>6. CASE FindBinding(t)
  BY <1>1, <1>3, <1>6 DEF FindBinding, Answers, DeviceOps
<1>7. ASSUME NEW c \in Cards, NEW m \in Machines,
             ActivateLoad(t, c, m) \/ VerifyLoad(t, c, m) \/ SelfUnbindLoad(t, c, m)
      PROVE  DatedRequest(req'[t])
  BY <1>1, <1>2, <1>7 DEF ActivateLoad, VerifyLoad, SelfUnbindLoad, Answers
<1> QED
  BY <1>4, <1>5, <1>6, <1>7 DEF ClientRequest

LEMMA CardPageDated ==
    ASSUME NoEditMovesExpiry, TypeInv, DatesInv, NEW t \in Threads, CardPage(t)
    PROVE  DatedRequest(req'[t])
<1>1. ASSUME NEW a \in Answers, Answer(t, a) PROVE DatedRequest(req'[t])
  BY <1>1, AnswerDated
\* An operation that leaves the dates of the row it loaded.
<1>2. ASSUME NEW op, NEW c \in Cards, NEW pc, cards[c] # Null, NEW want,
             want.activated = cards[c].activated, want.expires = cards[c].expires,
             Load(t, op, c, Null, want, pc)
      PROVE  DatedRequest(req'[t])
  <2>1. Dated(c, want)
    BY <1>2 DEF DatesInv, Dated
  <2> QED
    BY <1>2, <2>1, LoadDated
<1>3. ASSUME NEW c \in Cards, Ban(t, c) \/ Unban(t, c) PROVE DatedRequest(req'[t])
  <2>1. \A s : cards[c] # Null =>
           /\ [cards[c] EXCEPT !.status = s].activated = cards[c].activated
           /\ [cards[c] EXCEPT !.status = s].expires = cards[c].expires
    BY DEF TypeInv, CardRow
  <2> QED
    BY <1>1, <1>2, <1>3, <2>1 DEF Ban, Unban, CardGone, Answers
<1>4. ASSUME NEW c \in Cards, NEW limit \in 0..MaxLimit, NEW minutes \in Extensions,
             Edit(t, c, limit, minutes)
      PROVE  DatedRequest(req'[t])
  <2> DEFINE new == [cards[c] EXCEPT !.limit = AtLeastOne(limit),
                                     !.expires = Extended(cards[c], minutes)]
  <2>1. CASE cards[c] # Null /\ Load(t, "edit", c, Null, new, "commit")
    <3>1. Extended(cards[c], minutes) = cards[c].expires
      BY <1>4 DEF NoEditMovesExpiry, Edit, Extended
    <3>2. new.activated = cards[c].activated /\ new.expires = cards[c].expires
      BY <2>1, <3>1 DEF TypeInv, CardRow
    <3> HIDE DEF new
    <3> QED
      BY <1>2, <2>1, <3>2
  <2> QED
    BY <1>1, <1>4, <2>1 DEF Edit, CardGone, Answers
<1>5. ASSUME NEW c \in Cards, ResetLoad(t, c) \/ UnbindAllLoad(t, c) \/ DeleteLoad(t, c)
      PROVE  DatedRequest(req'[t])
  BY <1>1, <1>2, <1>5 DEF ResetLoad, UnbindAllLoad, DeleteLoad, LoadForDevices, CardGone,
                          Answers
<1>6. ASSUME req[t].pc = "list", req[t].op \in {"reset", "unbind_all", "delete"}
      PROVE  req[t].pc \notin Answers /\ req[t].op \notin DeviceOps
  BY <1>6 DEF Answers, DeviceOps
<1>7. CASE ResetList(t)
  <2> DEFINE new == [req[t].seen EXCEPT !.status = "unused", !.activated = Null,
                                        !.expires = Null]
  <2>1. req[t].pc \notin Answers /\ req[t].op \notin DeviceOps
    BY <1>6, <1>7 DEF ResetList
  <2>2. new.activated = Null /\ new.expires = Null
    BY <2>1, CardInHand DEF CardRow
  <2>3. Dated(req[t].card, new)
    BY <2>2 DEF Dated, TermOf
  <2>4. ToCommit(t, new, Bindings(req[t].card))
    BY <1>7 DEF ResetList
  <2> HIDE DEF new
  <2> QED
    BY <2>1, <2>3, <2>4, ToCommitDated
<1>8. CASE UnbindAllList(t) \/ DeleteList(t)
  <2>1. req[t].pc \notin Answers /\ req[t].op \notin DeviceOps
    BY <1>6, <1>8 DEF UnbindAllList, DeleteList
  <2>2. Answer(t, "ok") \/ \E rows : ToCommit(t, req[t].seen, rows)
    BY <1>8 DEF UnbindAllList, DeleteList
  <2> QED
    BY <1>1, <2>1, <2>2, CardInHand, ToCommitDated DEF Answers
<1> QED
  BY <1>3, <1>4, <1>5, <1>7, <1>8 DEF CardPage

LEMMA StepDated ==
    ASSUME NoEditMovesExpiry, TypeInv, DatesInv, NEW t \in Threads, Step(t)
    PROVE  DatedRequest(req'[t])
<1>1. ASSUME NEW a \in Answers, Answer(t, a) PROVE DatedRequest(req'[t])
  BY <1>1, AnswerDated
<1>2. CASE DevicePage(t)
  BY <1>1, <1>2 DEF DevicePage, DeviceGone, DeviceEdit, DeviceUnbind, DeviceDelete,
                    DeviceLoad, DeviceOps, DatedRequest, Answers, TypeInv
<1>3. CASE Commit(t) \/ Abort(t)
  BY <1>1, <1>3 DEF Commit, Abort, Answers
<1> QED
  BY <1>2, <1>3, ClientDated, CardPageDated DEF Step

\* The card a commit leaves has dates that belong together.
LEMMA CommitDated ==
    ASSUME TypeInv, DatesInv, NEW t \in Threads, Commit(t), NEW c \in Cards, cards'[c] # Null
    PROVE  Dated(c, cards'[c])
<1> DEFINE r == req[t]
<1>1. /\ r.pc = "commit" /\ r.card \in Cards /\ WellFormed(r)
      /\ cards' = [cards EXCEPT ![r.card] = CardAfter(r, cards[r.card])]
  BY DEF Commit, TypeInv, WellFormed, Answers
<1>2. CASE c # r.card \/ CardAfter(r, cards[r.card]) = cards[r.card]
  BY <1>1, <1>2 DEF TypeInv, DatesInv
<1>3. CASE c = r.card /\ CardAfter(r, cards[r.card]) # cards[r.card]
  <2>1. cards'[c] = CardAfter(r, cards[c])
    BY <1>1, <1>3 DEF TypeInv
  <2>2. r.op # "delete" /\ WritesCard(r) /\ cards'[c] = FlushedCard(r, cards[c])
    BY <1>3, <2>1 DEF CardAfter
  <2>3. cards[c] # Null
    BY <1>3, <2>2 DEF Commit, UpdatesFindTheirRows
  <2>4. r.pc \notin Answers /\ r.op \notin DeviceOps
    BY <1>1, <2>2 DEF WellFormed, WritesCard, Answers
  <2>5. cards[c] \in CardRow /\ Dated(c, cards[c])
    BY <2>3 DEF TypeInv, DatesInv
  <2>6. /\ r.seen \in CardRow /\ r.want \in CardRow
        /\ Dated(c, r.seen) /\ Dated(c, r.want)
    BY <1>3, <2>4, CardInHand
  <2> QED
    BY <2>2, <2>5, <2>6, FlushDated
<1> QED
  BY <1>2, <1>3

LEMMA DatesStep ==
    ASSUME NoEditMovesExpiry, TypeInv, DatesInv, [Next]_vars
    PROVE  DatesInv'
<1>1. CASE UNCHANGED <<cards, req>>
  BY <1>1 DEF DatesInv, Dated, TermOf, DatedRequest
<1>2. ASSUME NEW t \in Threads, Step(t) PROVE DatesInv'
  <2>1. \A s \in Threads : DatedRequest(req'[s])
    BY <1>2, StepDated, StepChangesOneRequest DEF DatesInv
  <2>2. \A c \in Cards : cards'[c] # Null => Dated(c, cards'[c])
    <3>1. UNCHANGED <<cards, devices>> \/ \E s \in Threads : Commit(s)
      BY OnlyCommitsWrite
    <3> QED
      BY <3>1, CommitDated DEF DatesInv
  <2> QED
    BY <2>1, <2>2 DEF DatesInv, Dated, TermOf, DatedRequest
<1> QED
  BY <1>1, <1>2 DEF Next, Tick, vars

\* Through every interleaving of activations, resets, bans and unbans the two
\* dates of a card belong together: each request decides from a row that may
\* be old, and writes column by column, but both dates or neither.
THEOREM TermsAreWhole == ASSUME NoEditMovesExpiry PROVE Spec => []FullTerm
<1>1. Init => DatesInv
  <2>1. \A c \in Cards : Init => cards[c].activated = Null /\ cards[c].expires = Null
    BY DEF Init
  <2> QED
    BY <2>1 DEF Init, DatesInv, Dated, TermOf, DatedRequest, Idle, Answers
<1>2. TypeInv /\ DatesInv /\ [Next]_vars => DatesInv'
  BY DatesStep
<1>3. DatesInv => FullTerm
  BY DEF DatesInv, Dated, TermOf, FullTerm
<1> QED
  BY <1>1, <1>2, <1>3, TypeInvHolds, PTL DEF Spec
=============================================================================
