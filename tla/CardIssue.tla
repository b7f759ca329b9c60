----------------------------- MODULE CardIssue -----------------------------
(***************************************************************************)
(* How cards come into being: applications, card templates (card_types)    *)
(* and the page that issues a batch of cards from them.                    *)
(*                                                                         *)
(* Issuing loads the application, looks for a template and makes one if    *)
(* there is none (a commit of its own), then draws codes, one query each,  *)
(* and inserts the batch in one commit.  Deleting an application counts    *)
(* its cards, loads them once more at the flush to cut them loose, and     *)
(* deletes the row.  Handlers run on threads, so steps of others stand     *)
(* between any two of these; rows are written at commit only.              *)
(***************************************************************************)
EXTENDS Integers, Sequences, FiniteSets

CONSTANTS
    Codes,      \* codes random_code may return for the form's length and prefix
    AppIds,     \* bound: 1..n, the ids of rows of `applications'
    TypeIds,    \* bound: 1..n, the ids of rows of `card_types'
    Terms,      \* terms a form asks for: duration, permanent or not, devices
    Threads,    \* pool threads
    MaxCount,   \* bound: largest batch (5000)
    Retries, Spare, \* draws allowed for n cards: n * Retries + Spare (5 and 100)
    Null

ASSUME IssueAssumption ==
    /\ IsFiniteSet(Codes) /\ IsFiniteSet(Threads)
    /\ AppIds \subseteq Nat /\ TypeIds \subseteq Nat
    /\ MaxCount \in Nat \ {0} /\ Retries \in Nat \ {0} /\ Spare \in Nat
    /\ Null \notin Nat /\ Null \notin Terms /\ Null \notin Codes

VARIABLES
    apps,   \* ids of the committed rows of `applications'
    types,  \* the committed `card_types': id |-> terms, or Null
    cards,  \* the committed `cards': code |-> row, or Null
    req     \* thread |-> the request it runs

vars == <<apps, types, cards, req>>

MaxAttempts(n) == n * Retries + Spare

CardRow == [app: AppIds \cup {Null}, type: TypeIds]
Request == [pc: {"idle", "find", "make", "draw", "insert", "count", "load", "delete"},
            answer: {"none", "ok", "refused", "conflict", "failed"},
            app: AppIds \cup {Null}, terms: Terms \cup {Null}, type: TypeIds \cup {Null},
            count: 0..MaxCount, attempts: 0..MaxAttempts(MaxCount),
            created: Seq(Codes), loaded: SUBSET Codes]

Idle == [pc |-> "idle", answer |-> "none", app |-> Null, terms |-> Null, type |-> Null,
         count |-> 0, attempts |-> 0, created |-> <<>>, loaded |-> {}]

Free(t)      == req[t].pc = "idle"
Answer(t, a) == req' = [req EXCEPT ![t] = [Idle EXCEPT !.answer = a]]

\* The id SQLite gives a new row: one more than the largest in use.
NextId(ids, used) == {i \in ids : (\A j \in used : j < i) /\ (i = 1 \/ i - 1 \in used)}

CardsOf(a) == {c \in Codes : cards[c] # Null /\ cards[c].app = a}

-----------------------------------------------------------------------------
(* generate_do                                                             *)

\* The application is not there, or not the operator's to issue for; or the
\* request goes on with the row it loaded.
IssueStart(t, a, terms, n) ==
    /\ Free(t)
    /\ \/ Answer(t, "refused")
       \/ /\ a \in apps
          /\ req' = [req EXCEPT ![t] = [Idle EXCEPT !.pc = "find", !.app = a,
                                                    !.terms = terms, !.count = n]]
    /\ UNCHANGED <<apps, types, cards>>

\* Mutation: a template is made without looking for one.
AlwaysMake(t) ==
    /\ req[t].pc = "find"
    /\ req' = [req EXCEPT ![t].pc = "make"]
    /\ UNCHANGED <<apps, types, cards>>

\* find_or_create_time_type: the query ...
FindType(t) ==
    /\ req[t].pc = "find"
    /\ \/ \E i \in TypeIds :
             /\ types[i] = req[t].terms
             /\ req' = [req EXCEPT ![t].pc = "draw", ![t].type = i]
       \/ /\ \A i \in TypeIds : types[i] # req[t].terms
          /\ req' = [req EXCEPT ![t].pc = "make"]
    /\ UNCHANGED <<apps, types, cards>>

\* ... and the insertion, committed before the cards are.
MakeType(t) ==
    /\ req[t].pc = "make"
    /\ \E i \in NextId(TypeIds, {j \in TypeIds : types[j] # Null}) :
          /\ types' = [types EXCEPT ![i] = req[t].terms]
          /\ req' = [req EXCEPT ![t].pc = "draw", ![t].type = i]
    /\ UNCHANGED <<apps, cards>>

\* Mutation: one draw too many.
DrawingPast(r) == Len(r.created) < r.count /\ r.attempts <= MaxAttempts(r.count)

Drawing(r) == Len(r.created) < r.count /\ r.attempts < MaxAttempts(r.count)

\* Mutation: only the table is asked whether a code is taken.
TakenInTable(r, code) == cards[code] # Null

\* A code is drawn again if the batch has it or the table has it.  The batch
\* is not in the table yet, so the query alone would not do.
Taken(r, code) ==
    (\E i \in 1..Len(r.created) : r.created[i] = code) \/ cards[code] # Null

\* Mutation: a draw of a taken code is not counted.
DrawUncounted(t) ==
    LET r == req[t] IN
    /\ r.pc = "draw" /\ Drawing(r)
    /\ \E code \in Codes :
          req' = [req EXCEPT ![t].attempts = IF Taken(r, code) THEN @ ELSE @ + 1,
                             ![t].created = IF Taken(r, code) THEN @ ELSE Append(@, code)]
    /\ UNCHANGED <<apps, types, cards>>

DrawCode(t) ==
    LET r == req[t] IN
    /\ r.pc = "draw" /\ Drawing(r)
    /\ \E code \in Codes :
          req' = [req EXCEPT ![t].attempts = @ + 1,
                             ![t].created = IF Taken(r, code) THEN @ ELSE Append(@, code)]
    /\ UNCHANGED <<apps, types, cards>>

\* The loop ends with the batch complete or the draws used up.
DrawEnd(t) ==
    /\ req[t].pc = "draw" /\ ~Drawing(req[t])
    /\ req' = [req EXCEPT ![t].pc = "insert"]
    /\ UNCHANGED <<apps, types, cards>>

Batch(r) == {r.created[i] : i \in 1..Len(r.created)}

\* Mutation: cards.code without its unique index.
NoIndex(r) == TRUE

\* The unique index of cards.code admits the batch.
CodesAreNew(r) ==
    /\ Cardinality(Batch(r)) = Len(r.created)
    /\ \A code \in Batch(r) : cards[code] = Null

\* The foreign key of cards.application_id admits the batch.
ApplicationIsThere(r) == r.created # <<>> => r.app \in apps

\* The batch is inserted as a whole or not at all.
Insert(t) ==
    LET r == req[t] IN
    /\ r.pc = "insert"
    /\ \/ /\ CodesAreNew(r) /\ ApplicationIsThere(r)
          /\ cards' = [c \in Codes |-> IF c \in Batch(r)
                                       THEN [app |-> r.app, type |-> r.type] ELSE cards[c]]
          /\ Answer(t, "ok")
       \/ /\ ~CodesAreNew(r) \/ ~ApplicationIsThere(r)
          /\ Answer(t, "conflict")
          /\ UNCHANGED cards
    /\ UNCHANGED <<apps, types>>

-----------------------------------------------------------------------------
(* create_app and delete_app, card_delete                                  *)

CreateApp(t) ==
    /\ Free(t)
    /\ \E a \in NextId(AppIds, apps) : apps' = apps \cup {a}
    /\ Answer(t, "ok")
    /\ UNCHANGED <<types, cards>>

DeleteAppStart(t, a) ==
    /\ Free(t)
    /\ \/ a \notin apps /\ Answer(t, "refused")
       \/ a \in apps /\ req' = [req EXCEPT ![t] = [Idle EXCEPT !.pc = "count", !.app = a]]
    /\ UNCHANGED <<apps, types, cards>>

\* Mutation: the cards of the application are not counted.
SkipCount(t) ==
    /\ req[t].pc = "count"
    /\ req' = [req EXCEPT ![t].pc = "load"]
    /\ UNCHANGED <<apps, types, cards>>

\* "The application still has cards and cannot be deleted."
CountCards(t) ==
    /\ req[t].pc = "count"
    /\ \/ CardsOf(req[t].app) # {} /\ Answer(t, "refused")
       \/ CardsOf(req[t].app) = {} /\ req' = [req EXCEPT ![t].pc = "load"]
    /\ UNCHANGED <<apps, types, cards>>

\* The relationship Application.cards has no delete cascade: the session
\* loads the cards of an application it deletes to null their foreign key.
LoadCards(t) ==
    /\ req[t].pc = "load"
    /\ req' = [req EXCEPT ![t].pc = "delete", ![t].loaded = CardsOf(req[t].app)]
    /\ UNCHANGED <<apps, types, cards>>

\* Mutation: the connection runs without PRAGMA foreign_keys.
KeysOff(r) == TRUE

\* Cards issued since the load still refer to the row.
NoCardLeft(r) == CardsOf(r.app) \subseteq r.loaded

\* An UPDATE that does not find its row fails the request; a DELETE that does
\* not, of an application deleted meanwhile, does not.
DeleteApp(t) ==
    LET r == req[t]
        possible == /\ NoCardLeft(r)
                    /\ \A c \in r.loaded : cards[c] # Null IN
    /\ r.pc = "delete"
    /\ \/ /\ possible
          /\ apps' = apps \ {r.app}
          /\ cards' = [c \in Codes |-> IF c \in r.loaded
                                       THEN [cards[c] EXCEPT !.app = Null] ELSE cards[c]]
          /\ Answer(t, "ok")
       \/ /\ ~possible
          /\ Answer(t, "conflict")
          /\ UNCHANGED <<apps, cards>>
    /\ UNCHANGED types

\* Of card_delete (see CardRequests) what matters here is its commit.
DeleteCard(c) ==
    /\ cards[c] # Null
    /\ cards' = [cards EXCEPT ![c] = Null]
    /\ UNCHANGED <<apps, types, req>>

\* The process stops, or the write lock is not to be had, before a commit.
Abort(t) ==
    /\ req[t].pc \in {"make", "insert", "delete"}
    /\ Answer(t, "failed")
    /\ UNCHANGED <<apps, types, cards>>

-----------------------------------------------------------------------------
Issue(t) ==
    \/ \E a \in AppIds, terms \in Terms, n \in 1..MaxCount : IssueStart(t, a, terms, n)
    \/ FindType(t)
    \/ MakeType(t)
    \/ DrawCode(t)
    \/ DrawEnd(t)
    \/ Insert(t)

Applications(t) ==
    \/ CreateApp(t)
    \/ \E a \in AppIds : DeleteAppStart(t, a)
    \/ CountCards(t)
    \/ LoadCards(t)
    \/ DeleteApp(t)

Next ==
    \/ \E t \in Threads : Issue(t) \/ Applications(t) \/ Abort(t)
    \/ \E c \in Codes : DeleteCard(c)

Init ==
    /\ apps = {}
    /\ types = [i \in TypeIds |-> Null]
    /\ cards = [c \in Codes |-> Null]
    /\ req = [t \in Threads |-> Idle]

Spec == Init /\ [][Next]_vars

\* A thread that draws codes goes on: nothing in the loop blocks.
FairSpec == Spec /\ \A t \in Threads : WF_vars(DrawCode(t) \/ DrawEnd(t))

-----------------------------------------------------------------------------
TypeOK ==
    /\ apps \subseteq AppIds
    /\ types \in [TypeIds -> Terms \cup {Null}]
    /\ cards \in [Codes -> CardRow \cup {Null}]
    /\ req \in [Threads -> Request]

\* The application a card names exists: the deletion of an application
\* against a batch that is being issued for it.
CardsHaveApplication ==
    \A c \in Codes : cards[c] # Null /\ cards[c].app # Null => cards[c].app \in apps

\* A card, once issued, is the card it was issued as: a batch that draws its
\* code in another thread takes neither its term nor its application.
IssuedOnce ==
    [][\A c \in Codes : cards[c] # Null /\ cards'[c] # Null =>
         /\ cards'[c].type = cards[c].type
         /\ cards'[c].app \in {cards[c].app, Null}]_vars

\* No constraint of the tables stops a batch or a deletion: the codes of a
\* batch differ from each other and from those issued before.
NoConflict == \A t \in Threads : req[t].answer # "conflict"

\* "Identical (days, devices) combos collapse onto one template".
TemplatesDiffer ==
    \A i, j \in TypeIds : types[i] # Null /\ types[i] = types[j] => i = j

\* An application that has cards is not deleted, so a card never loses its
\* application.
KeepsApplication ==
    \A c \in Codes : cards[c] # Null /\ cards[c].app # Null /\ cards'[c] # Null =>
        cards'[c].app # Null
CardsKeepApplication == [][KeepsApplication]_vars

\* Issuing ends, even when every code of the form's length is taken.
IssueEnds == \A t \in Threads : req[t].pc = "draw" ~> req[t].pc # "draw"
=============================================================================
