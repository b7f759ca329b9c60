---------------------------- MODULE CardRequests ----------------------------
(***************************************************************************)
(* The `cards' and `devices' tables and the requests that read and write   *)
(* them.  Every handler is a synchronous function, so the framework runs   *)
(* it on a thread of its pool: several requests are in flight at once,     *)
(* each with a database session of its own.  A session                     *)
(*                                                                         *)
(*   - reads with SELECTs that are not part of any transaction (SQLite     *)
(*     opens one only before the first INSERT, UPDATE or DELETE), so two   *)
(*     SELECTs of one request may see two different databases;             *)
(*   - keeps the row objects it read (autoflush and expire_on_commit are   *)
(*     off) and decides from them;                                         *)
(*   - writes at commit, in one transaction, and of a row it changed only  *)
(*     the columns whose value differs from the value it had loaded.       *)
(*                                                                         *)
(* A request is therefore modelled by the steps between its SELECTs and    *)
(* its commit.  `seen' is the card row as loaded, `want' the row as the    *)
(* handler has changed it in memory, `rows' the device rows it loaded.     *)
(***************************************************************************)
EXTENDS Integers, FiniteSets

CONSTANTS
    Cards,       \* rows of `cards' that exist at the start
    Machines,    \* machine codes (Device.device_id)
    Threads,     \* pool threads: requests in flight
    Ops,         \* operations that are requested, a subset of AllOps
    Kind,        \* card |-> "time", "permanent" or "count" (CardType.kind, is_permanent)
    Duration,    \* card |-> CardType.duration_minutes
    Credits,     \* card |-> remaining_count, written at issue and at reset only
    MaxLimit,    \* bound: largest max_devices an administrator sets
    Extensions,  \* extend_minutes an administrator submits
    MaxTime,     \* bound: where the clock of the model stops
    Horizon,     \* bound: largest expiry
    MaxRows,     \* bound: rows of `devices'
    Null         \* Python's None, and a row that does not exist

AllOps == {"activate", "verify", "self_unbind", "ban", "unban", "edit",
           "reset", "unbind_all", "delete",
           "device_edit", "device_unbind", "device_delete"}

Times   == 0..Horizon
RowIds  == 1..MaxRows
CardRow == [status: {"unused", "active", "banned"}, limit: 1..MaxLimit,
            activated: Times \cup {Null}, expires: Times \cup {Null}]
DeviceRow == [card: Cards, machine: Machines, status: {"active", "unbound"}]

\* What a finished request told its caller; "idle" before the first one.
Answers == {"idle", "ok", "refused", "error"}

Request == [pc: Answers \cup {"find", "list", "commit"},
            op: AllOps \cup {Null}, card: Cards \cup {Null},
            machine: Machines \cup {Null},
            seen: CardRow \cup {Null}, want: CardRow \cup {Null},
            rows: SUBSET RowIds]

ASSUME ConstantsAssumption ==
    /\ IsFiniteSet(Cards) /\ IsFiniteSet(Machines) /\ IsFiniteSet(Threads)
    /\ Ops \subseteq AllOps
    /\ Kind \in [Cards -> {"time", "permanent", "count"}]
    /\ Duration \in [Cards -> Nat]
    /\ Credits \in [Cards -> Nat]
    /\ MaxLimit \in Nat \ {0} /\ MaxTime \in Nat /\ MaxRows \in Nat
    /\ Horizon \in Nat
    /\ \A c \in Cards : MaxTime + Duration[c] <= Horizon
    /\ Extensions \subseteq Int

ASSUME NullAssumption ==
    /\ Null \notin Cards /\ Null \notin Machines /\ Null \notin AllOps
    /\ Null \notin Int /\ Null \notin CardRow /\ Null \notin DeviceRow

VARIABLES
    now,      \* the clock handlers read with datetime.now()
    cards,    \* the committed `cards' table: card |-> row or Null
    devices,  \* the committed `devices' table: row id |-> row or Null
    req       \* thread |-> the request it runs

vars == <<now, cards, devices, req>>

-----------------------------------------------------------------------------
(* What the code computes from rows.                                       *)

Expired(row) == row.expires # Null /\ now >= row.expires

\* Card.effective_status
EffectiveStatus(c, row) ==
    IF row.status \in {"banned", "unused"} THEN row.status
    ELSE IF Expired(row) THEN "expired"
    ELSE IF Kind[c] = "count" /\ row.activated # Null /\ Credits[c] = 0
         THEN "used_up" ELSE "active"

\* _compute_expiry
ComputeExpiry(c) ==
    IF Kind[c] = "time" /\ Duration[c] > 0 THEN now + Duration[c] ELSE Null

\* Mutation: an expiry the card has is kept.
ActivatedKeepingExpiry(c, row) ==
    IF row.status # "unused" THEN row
    ELSE [row EXCEPT !.status = "active", !.activated = now,
                     !.expires = IF @ = Null THEN ComputeExpiry(c) ELSE @]

\* The card as activate() leaves it in memory.
Activated(c, row) ==
    IF row.status # "unused" THEN row
    ELSE [row EXCEPT !.status = "active", !.activated = now,
                     !.expires = ComputeExpiry(c)]

RowsOf(c)      == {i \in RowIds : devices[i] # Null /\ devices[i].card = c}
Bindings(c)    == {i \in RowsOf(c) : devices[i].status = "active"}
BoundTo(c, m)  == {i \in Bindings(c) : devices[i].machine = m}

\* The id SQLite gives a new row of a table without AUTOINCREMENT: one more
\* than the largest id in use.  The ids of deleted rows are given again.
IsNewRow(i) ==
    /\ i \in RowIds
    /\ \A j \in RowIds : devices[j] # Null => j < i
    /\ i > 1 => devices[i - 1] # Null

-----------------------------------------------------------------------------
(* Steps every request is made of.                                         *)

Free(t) == req[t].pc \in Answers

Idle == [pc |-> "idle", op |-> Null, card |-> Null, machine |-> Null,
         seen |-> Null, want |-> Null, rows |-> {}]

Answer(t, a) == req' = [req EXCEPT ![t] = [Idle EXCEPT !.pc = a]]

\* Thread t has loaded card c for operation op; it goes on at label pc with
\* the card changed in memory to `want'.
Load(t, op, c, m, want, pc) ==
    req' = [req EXCEPT ![t] =
              [pc |-> pc, op |-> op, card |-> c, machine |-> m,
               seen |-> cards[c], want |-> want, rows |-> {}]]

\* The request goes to its commit with the device rows it loaded.
ToCommit(t, want, rows) ==
    req' = [req EXCEPT ![t].pc = "commit", ![t].want = want, ![t].rows = rows]

Tables == <<now, cards, devices>>

-----------------------------------------------------------------------------
(* services/verify.py                                                      *)

\* Mutation: the check for a ban is missing.
MayActivateBanned(c, row) == EffectiveStatus(c, row) # "expired"

\* A used-up card is not among those activate() turns away.
MayActivate(c, row) == EffectiveStatus(c, row) \notin {"banned", "expired"}

ActivateLoad(t, c, m) ==
    /\ "activate" \in Ops /\ Free(t)
    /\ \/ cards[c] = Null /\ Answer(t, "refused")
       \/ cards[c] # Null /\ ~MayActivate(c, cards[c]) /\ Answer(t, "refused")
       \/ /\ cards[c] # Null /\ MayActivate(c, cards[c])
          /\ Load(t, "activate", c, m, cards[c], "find")
    /\ UNCHANGED Tables

\* Mutation: the query for a row of this machine is missing.
BindWithoutLooking(t) ==
    /\ req[t].pc = "find" /\ req[t].op = "activate"
    /\ req' = [req EXCEPT ![t].pc = "list"]
    /\ UNCHANGED Tables

\* The query for a bound row of this machine.  Without one the request goes
\* on to bind, unless auto_bind_on_activate is off: an administrator may
\* switch that setting at any time, so both happen.
ActivateFind(t) ==
    LET r == req[t] IN
    /\ r.pc = "find" /\ r.op = "activate"
    /\ \/ \E i \in BoundTo(r.card, r.machine) :
            ToCommit(t, Activated(r.card, r.seen), {i})
       \/ /\ BoundTo(r.card, r.machine) = {}
          /\ \/ Answer(t, "refused")
             \/ req' = [req EXCEPT ![t].pc = "list"]
    /\ UNCHANGED Tables

\* Mutation: one device too many.
LimitPassed(r) == Cardinality(Bindings(r.card)) > r.seen.limit

\* card.devices is loaded and its active rows are counted against the limit
\* the request loaded with the card.
LimitReached(r) == Cardinality(Bindings(r.card)) >= r.seen.limit

ActivateCount(t) ==
    LET r == req[t] IN
    /\ r.pc = "list" /\ r.op = "activate"
    /\ \/ LimitReached(r) /\ Answer(t, "refused")
       \/ ~LimitReached(r) /\ ToCommit(t, Activated(r.card, r.seen), {})
    /\ UNCHANGED Tables

\* verify(), for both the verify and the heartbeat operation
VerifyLoad(t, c, m) ==
    /\ "verify" \in Ops /\ Free(t)
    /\ \/ cards[c] = Null /\ Answer(t, "refused")
       \/ /\ cards[c] # Null /\ EffectiveStatus(c, cards[c]) # "active"
          /\ Answer(t, "refused")
       \/ /\ cards[c] # Null /\ EffectiveStatus(c, cards[c]) = "active"
          /\ Load(t, "verify", c, m, cards[c], "find")
    /\ UNCHANGED Tables

\* Self-unbinding is refused while allow_self_unbind is off, which may be at
\* any time.
SelfUnbindLoad(t, c, m) ==
    /\ "self_unbind" \in Ops /\ Free(t)
    /\ \/ Answer(t, "refused")
       \/ /\ cards[c] # Null
          /\ Load(t, "self_unbind", c, m, cards[c], "find")
    /\ UNCHANGED Tables

\* The query for the bound row of verify() and self_unbind().
FindBinding(t) ==
    LET r == req[t] IN
    /\ r.pc = "find" /\ r.op \in {"verify", "self_unbind"}
    /\ \/ \E i \in BoundTo(r.card, r.machine) : ToCommit(t, r.want, {i})
       \/ BoundTo(r.card, r.machine) = {} /\ Answer(t, "refused")
    /\ UNCHANGED Tables

-----------------------------------------------------------------------------
(* routers/cards.py and services/cards.py                                  *)

\* _load_card finds nothing: the page redirects and no table changes.
CardGone(t, c) == cards[c] = Null /\ Answer(t, "refused")

Ban(t, c) ==
    /\ "ban" \in Ops /\ Free(t)
    /\ \/ CardGone(t, c)
       \/ /\ cards[c] # Null
          /\ Load(t, "ban", c, Null, [cards[c] EXCEPT !.status = "banned"], "commit")
    /\ UNCHANGED Tables

\* Mutation: an unban always makes the card active.
AlwaysActive(row) == "active"

StatusBefore(row) == IF row.activated = Null THEN "unused" ELSE "active"

Unban(t, c) ==
    /\ "unban" \in Ops /\ Free(t)
    /\ \/ CardGone(t, c)
       \/ /\ cards[c] # Null
          /\ Load(t, "unban", c, Null,
                  [cards[c] EXCEPT !.status = StatusBefore(cards[c])], "commit")
    /\ UNCHANGED Tables

\* Mutation: the limit is stored as submitted.
AsSubmitted(n) == n

AtLeastOne(n) == IF n < 1 THEN 1 ELSE n

\* extend_expiry; zero minutes leave the expiry as it is
Extended(row, minutes) ==
    IF minutes = 0 THEN row.expires
    ELSE (IF row.expires = Null THEN now ELSE row.expires) + minutes

\* Mutation: more time makes the card usable again.
EditReviving(t, c, limit, minutes) ==
    /\ "edit" \in Ops /\ Free(t) /\ cards[c] # Null
    /\ Extended(cards[c], minutes) \in Times
    /\ Load(t, "edit", c, Null,
            [cards[c] EXCEPT !.status = "active",
                             !.expires = Extended(cards[c], minutes)], "commit")
    /\ UNCHANGED Tables

\* card_edit: the limit is clamped below at one, and an expiry that the
\* bounds of the model cannot hold is not submitted.
Edit(t, c, limit, minutes) ==
    /\ "edit" \in Ops /\ Free(t)
    /\ \/ CardGone(t, c)
       \/ /\ cards[c] # Null
          /\ Extended(cards[c], minutes) \in Times \cup {Null}
          /\ Load(t, "edit", c, Null,
                  [cards[c] EXCEPT !.limit = AtLeastOne(limit),
                                   !.expires = Extended(cards[c], minutes)], "commit")
    /\ UNCHANGED Tables

\* reset, unbind-devices and delete load the card, then its device rows.
LoadForDevices(t, op, c) ==
    /\ op \in Ops /\ Free(t)
    /\ \/ CardGone(t, c)
       \/ cards[c] # Null /\ Load(t, op, c, Null, cards[c], "list")
    /\ UNCHANGED Tables

ResetLoad(t, c)     == LoadForDevices(t, "reset", c)
UnbindAllLoad(t, c) == LoadForDevices(t, "unbind_all", c)
DeleteLoad(t, c)    == LoadForDevices(t, "delete", c)

ResetList(t) ==
    LET r == req[t] IN
    /\ r.pc = "list" /\ r.op = "reset"
    /\ ToCommit(t, [r.seen EXCEPT !.status = "unused", !.activated = Null,
                                  !.expires = Null], Bindings(r.card))
    /\ UNCHANGED Tables

\* With no active row there is nothing to commit.
UnbindAllList(t) ==
    LET r == req[t] IN
    /\ r.pc = "list" /\ r.op = "unbind_all"
    /\ \/ Bindings(r.card) = {} /\ Answer(t, "ok")
       \/ Bindings(r.card) # {} /\ ToCommit(t, r.seen, Bindings(r.card))
    /\ UNCHANGED Tables

\* db.delete cascades to the device rows it loads here.
DeleteList(t) ==
    LET r == req[t] IN
    /\ r.pc = "list" /\ r.op = "delete"
    /\ ToCommit(t, r.seen, RowsOf(r.card))
    /\ UNCHANGED Tables

-----------------------------------------------------------------------------
(* routers/devices.py and services/devices.py                              *)

\* The row is named by the id a page showed; by now it may be gone, or the
\* id may be another binding's.
DeviceLoad(t, op, i, m) ==
    req' = [req EXCEPT ![t] =
              [pc |-> "commit", op |-> op, card |-> devices[i].card, machine |-> m,
               seen |-> Null, want |-> Null, rows |-> {i}]]

DeviceGone(t, i) == devices[i] = Null /\ Answer(t, "refused")

\* An edit that keeps the machine code writes no column of the model.
DeviceEdit(t, i, m) ==
    /\ "device_edit" \in Ops /\ Free(t)
    /\ \/ DeviceGone(t, i)
       \/ /\ devices[i] # Null /\ devices[i].machine # m
          /\ DeviceLoad(t, "device_edit", i, m)
    /\ UNCHANGED Tables

DeviceUnbind(t, i) ==
    /\ "device_unbind" \in Ops /\ Free(t)
    /\ \/ DeviceGone(t, i)
       \/ /\ devices[i] # Null /\ devices[i].status # "active"
          /\ Answer(t, "refused")
       \/ /\ devices[i] # Null /\ devices[i].status = "active"
          /\ DeviceLoad(t, "device_unbind", i, devices[i].machine)
    /\ UNCHANGED Tables

DeviceDelete(t, i) ==
    /\ "device_delete" \in Ops /\ Free(t)
    /\ \/ DeviceGone(t, i)
       \/ /\ devices[i] # Null
          /\ DeviceLoad(t, "device_delete", i, devices[i].machine)
    /\ UNCHANGED Tables

-----------------------------------------------------------------------------
(* The flush at commit.                                                    *)

Unbinders == {"self_unbind", "reset", "unbind_all", "device_unbind"}
Droppers  == {"delete", "device_delete"}

Inserts(r)    == r.op = "activate" /\ r.rows = {}
WritesCard(r) == r.want # r.seen

\* Mutation: the UPDATE writes the whole row.
WholeRow(loaded, changed, stored) == changed

\* A column of the UPDATE: written when its value in memory differs from the
\* value loaded, otherwise left as the table has it.
Column(loaded, changed, stored) == IF changed = loaded THEN stored ELSE changed

\* The card row after the UPDATE of its changed columns.
FlushedCard(r, row) ==
    [status    |-> Column(r.seen.status, r.want.status, row.status),
     limit     |-> Column(r.seen.limit, r.want.limit, row.limit),
     activated |-> Column(r.seen.activated, r.want.activated, row.activated),
     expires   |-> Column(r.seen.expires, r.want.expires, row.expires)]

CardAfter(r, row) ==
    CASE r.op = "delete" -> Null
      [] r.op # "delete" /\ WritesCard(r) -> FlushedCard(r, row)
      [] OTHER -> row

\* Mutation: the status is written as it was loaded.
RowRestored(r, row) ==
    CASE r.op \in Droppers    -> Null
      [] r.op \in Unbinders   -> [row EXCEPT !.status = "unbound"]
      [] r.op = "device_edit" -> [row EXCEPT !.machine = r.machine]
      [] OTHER                -> [row EXCEPT !.status = "active"]

\* A device row the request loaded, after its UPDATE or DELETE.  Binding
\* again and verifying write the time of last use alone.
RowAfter(r, row) ==
    CASE r.op \in Droppers    -> Null
      [] r.op \in Unbinders   -> [row EXCEPT !.status = "unbound"]
      [] r.op = "device_edit" -> [row EXCEPT !.machine = r.machine]
      [] OTHER                -> row

\* What the flush requires of the tables: an UPDATE must find its row
\* (StaleDataError), a DELETE need not; foreign keys are enforced, so a
\* device row needs its card and a card with device rows cannot go.
UpdatesFindTheirRows(r) ==
    /\ r.op \notin Droppers => \A i \in r.rows : devices[i] # Null
    /\ r.op # "delete" /\ WritesCard(r) => cards[r.card] # Null

\* Mutation: the connection runs without PRAGMA foreign_keys.
ForeignKeysOff(r) == TRUE

ForeignKeysHold(r) ==
    /\ Inserts(r) => cards[r.card] # Null
    /\ r.op = "delete" => RowsOf(r.card) \subseteq r.rows

Commit(t) ==
    LET r == req[t] IN
    /\ r.pc = "commit"
    /\ UpdatesFindTheirRows(r)
    /\ ForeignKeysHold(r)
    /\ cards' = [cards EXCEPT ![r.card] = CardAfter(r, @)]
    /\ \/ /\ ~Inserts(r)
          /\ devices' = [i \in RowIds |->
                IF i \in r.rows THEN RowAfter(r, devices[i]) ELSE devices[i]]
       \/ /\ Inserts(r)
          /\ \E i \in RowIds :
                /\ IsNewRow(i)
                /\ devices' = [devices EXCEPT ![i] =
                      [card |-> r.card, machine |-> r.machine, status |-> "active"]]
    /\ Answer(t, "ok")
    /\ UNCHANGED now

\* The transaction is rolled back and the request fails as a whole: a
\* condition of Commit does not hold, the write lock was not to be had within
\* the driver's timeout, or the process was stopped.
Abort(t) ==
    /\ req[t].pc = "commit"
    /\ Answer(t, "error")
    /\ UNCHANGED Tables

Tick ==
    /\ now < MaxTime
    /\ now' = now + 1
    /\ UNCHANGED <<cards, devices, req>>

-----------------------------------------------------------------------------
ClientRequest(t) ==
    \/ \E c \in Cards, m \in Machines :
          \/ ActivateLoad(t, c, m)
          \/ VerifyLoad(t, c, m)
          \/ SelfUnbindLoad(t, c, m)
    \/ ActivateFind(t)
    \/ ActivateCount(t)
    \/ FindBinding(t)

CardPage(t) ==
    \/ \E c \in Cards :
          \/ Ban(t, c)
          \/ Unban(t, c)
          \/ \E limit \in 0..MaxLimit, minutes \in Extensions : Edit(t, c, limit, minutes)
          \/ ResetLoad(t, c)
          \/ UnbindAllLoad(t, c)
          \/ DeleteLoad(t, c)
    \/ ResetList(t)
    \/ UnbindAllList(t)
    \/ DeleteList(t)

DevicePage(t) ==
    \E i \in RowIds :
       \/ \E m \in Machines : DeviceEdit(t, i, m)
       \/ DeviceUnbind(t, i)
       \/ DeviceDelete(t, i)

Step(t) == ClientRequest(t) \/ CardPage(t) \/ DevicePage(t) \/ Commit(t) \/ Abort(t)

Next == Tick \/ \E t \in Threads : Step(t)

\* Cards as generate_cards leaves them, with the limit of their template.
Init ==
    /\ now = 0
    /\ cards \in [Cards -> [status: {"unused"}, limit: 1..MaxLimit,
                            activated: {Null}, expires: {Null}]]
    /\ devices = [i \in RowIds |-> Null]
    /\ req = [t \in Threads |-> Idle]

Spec == Init /\ [][Next]_vars

-----------------------------------------------------------------------------
TypeOK ==
    /\ now \in 0..MaxTime
    /\ cards \in [Cards -> CardRow \cup {Null}]
    /\ devices \in [RowIds -> DeviceRow \cup {Null}]
    /\ req \in [Threads -> Request]

\* No device row is left without its card, whatever the requests interleave:
\* the cascade of a card's deletion against a binding in flight.
ReferentialIntegrity ==
    \A i \in RowIds : devices[i] # Null => cards[devices[i].card] # Null

\* Requests that have passed the device limit of card c and not yet bound.
Binding(c) == {t \in Threads : /\ req[t].pc = "commit" /\ req[t].card = c
                               /\ Inserts(req[t])}

\* The check of the limit and the insertion are separate steps, so requests
\* in flight overshoot the limit of a card; but by at most one binding per
\* other thread, as long as no edit lowers the limit under the bindings.
OvershootBounded ==
    \A c \in Cards : cards[c] # Null =>
       Cardinality(Bindings(c)) + Cardinality(Binding(c))
           <= cards[c].limit + Cardinality(Threads) - 1

\* A binding that was released stays released: a heartbeat that had loaded
\* it as active writes its time of last use and not the status.
UnboundIsFinal ==
    [][\A i \in RowIds :
         devices[i] # Null /\ devices[i].status = "unbound" =>
            devices'[i] = Null \/ devices'[i].status = "unbound"]_vars

\* The two dates of a time card travel together through every interleaving of
\* activations, resets, bans and unbans: the expiry is the activation plus the
\* term of the card.  Only an edit moves one without the other.
FullTerm ==
    \A c \in Cards : cards[c] # Null =>
       IF cards[c].activated = Null THEN cards[c].expires = Null
       ELSE Kind[c] = "time" /\ Duration[c] > 0 =>
               cards[c].expires = cards[c].activated + Duration[c]

\* Requests that commit in this step for card c.
Committing(c) == {t \in Threads : req[t].pc = "commit" /\ req'[t].pc = "ok"
                                  /\ req[t].card = c}

\* Each column of a card belongs to the operations that change it; an
\* operation never undoes another's work on a column it does not change, as a
\* change of the limit would undo a ban if a session wrote whole rows.
ColumnsAreOwned ==
    [][\A c \in Cards : cards[c] # Null /\ cards'[c] # Null =>
         LET Ran(ops) == \E t \in Committing(c) : req[t].op \in ops IN
         /\ cards'[c].status # cards[c].status =>
               Ran({"activate", "ban", "unban", "reset"})
         /\ cards'[c].limit # cards[c].limit => Ran({"edit"})
         /\ cards'[c].activated # cards[c].activated => Ran({"activate", "reset"})
         /\ cards'[c].expires # cards[c].expires => Ran({"activate", "edit", "reset"})]_vars
=============================================================================
