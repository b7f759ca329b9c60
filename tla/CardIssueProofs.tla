-------------------------- MODULE CardIssueProofs --------------------------
(***************************************************************************)
(* For any number of threads, codes, applications and templates: the       *)
(* tables have their types, a card's application exists, and a card stays  *)
(* the card it was issued as.  That templates differ, that no constraint   *)
(* stops a request and that no card loses its application holds up to one  *)
(* kind of overlap each, and so of requests one at a time.                 *)
(***************************************************************************)
EXTENDS MCCardIssue, TLAPS, FiniteSetTheorems

USE IssueAssumption

\* A batch that draws or inserts has its template.
TypeChosen ==
    \A t \in Threads : req[t].pc \in {"draw", "insert"} => req[t].type # Null

\* What a request of a thread may be: typed, with its template if it needs one.
Good(r) == r \in Request /\ (r.pc \in {"draw", "insert"} => r.type # Null)

IssueInv == TypeOK /\ TypeChosen

LEMMA BoundsOnDraws ==
    /\ MaxAttempts(MaxCount) \in Nat
    /\ \A n \in 0..MaxCount : MaxAttempts(n) \in Nat /\ MaxAttempts(n) <= MaxAttempts(MaxCount)
<1>1. \A n, m, k \in Nat : n <= m => n * k \in Nat /\ n * k <= m * k
  OBVIOUS
<1>2. \A n \in 0..MaxCount : n * Retries \in Nat /\ n * Retries <= MaxCount * Retries
  BY <1>1
<1>3. MaxCount * Retries \in Nat
  BY <1>1
<1> QED
  BY <1>2, <1>3 DEF MaxAttempts

LEMMA IdleIsGood ==
    /\ Good(Idle)
    /\ \A a \in {"ok", "refused", "conflict", "failed"} : Good([Idle EXCEPT !.answer = a])
<1>1. 0 \in 0..MaxCount /\ 0 \in 0..MaxAttempts(MaxCount)
  BY BoundsOnDraws
<1>2. <<>> \in Seq(Codes) /\ {} \in SUBSET Codes
  OBVIOUS
<1>3. Idle \in Request
  BY <1>1, <1>2 DEF Idle, Request
<1>4. \A a \in {"ok", "refused", "conflict", "failed"} : [Idle EXCEPT !.answer = a] \in Request
  BY <1>3 DEF Request
<1>5. Idle.pc = "idle" /\ \A a : [Idle EXCEPT !.answer = a].pc = "idle"
  BY DEF Idle
<1> QED
  BY <1>3, <1>4, <1>5 DEF Good

\* A step that replaces one request by a good one keeps all of them good.
LEMMA OneRequestChanges ==
    ASSUME IssueInv, NEW t \in Threads, NEW r, Good(r), req' = [req EXCEPT ![t] = r]
    PROVE  req' \in [Threads -> Request] /\ TypeChosen'
BY DEF IssueInv, TypeOK, TypeChosen, Good

LEMMA AnswerIsGood ==
    ASSUME IssueInv, NEW t \in Threads,
           NEW a \in {"ok", "refused", "conflict", "failed"}, Answer(t, a)
    PROVE  req' \in [Threads -> Request] /\ TypeChosen'
<1>1. Good([Idle EXCEPT !.answer = a])
  BY IdleIsGood
<1> QED
  BY <1>1, OneRequestChanges DEF Answer

\* A draw counts an attempt and extends the batch by one code at most.
LEMMA DrawIsGood ==
    ASSUME IssueInv, NEW t \in Threads, DrawCode(t)
    PROVE  req' \in [Threads -> Request] /\ TypeChosen'
<1> DEFINE r == req[t]
<1>1. r \in Request /\ r.pc = "draw" /\ r.type # Null
  BY DEF IssueInv, TypeOK, TypeChosen, DrawCode
<1>2. /\ r.count \in 0..MaxCount /\ r.attempts \in Nat
      /\ r.created \in Seq(Codes) /\ r.attempts < MaxAttempts(r.count)
  BY <1>1, BoundsOnDraws DEF Request, DrawCode, Drawing
<1>3. r.attempts + 1 \in 0..MaxAttempts(MaxCount)
  BY <1>2, BoundsOnDraws
<1>4. PICK code \in Codes :
        req' = [req EXCEPT ![t].attempts = @ + 1,
                           ![t].created = IF Taken(r, code) THEN @ ELSE Append(@, code)]
  BY DEF DrawCode
<1> DEFINE longer == IF Taken(r, code) THEN r.created ELSE Append(r.created, code)
<1> DEFINE next == [r EXCEPT !.attempts = @ + 1, !.created = longer]
<1>5. longer \in Seq(Codes)
  BY <1>2
<1>6. Good(next)
  <2> HIDE DEF longer
  <2> QED BY <1>1, <1>3, <1>5 DEF Request, Good
<1>7. req' = [req EXCEPT ![t] = next]
  BY <1>4 DEF IssueInv, TypeOK
<1> QED
  <2> HIDE DEF next
  <2> QED BY <1>6, <1>7, OneRequestChanges

\* The template a batch goes on with, found or made, is a row.
LEMMA TemplateIsGood ==
    ASSUME IssueInv, NEW t \in Threads, FindType(t) \/ MakeType(t)
    PROVE  /\ req' \in [Threads -> Request] /\ TypeChosen'
           /\ types' \in [TypeIds -> Terms \cup {Null}]
<1>1. req[t] \in Request /\ req[t].terms \in Terms \cup {Null}
  BY DEF IssueInv, TypeOK, Request
<1>2. \/ \E i \in TypeIds : req' = [req EXCEPT ![t] = [req[t] EXCEPT !.pc = "draw", !.type = i]]
      \/ req' = [req EXCEPT ![t] = [req[t] EXCEPT !.pc = "make"]]
  BY DEF IssueInv, TypeOK, FindType, MakeType, NextId
<1>3. \A i \in TypeIds : Good([req[t] EXCEPT !.pc = "draw", !.type = i])
  BY <1>1 DEF Request, Good
<1>4. Good([req[t] EXCEPT !.pc = "make"])
  BY <1>1 DEF Request, Good
<1>5. req' \in [Threads -> Request] /\ TypeChosen'
  BY <1>2, <1>3, <1>4, OneRequestChanges
<1>6. types' \in [TypeIds -> Terms \cup {Null}]
  BY <1>1 DEF IssueInv, TypeOK, FindType, MakeType, NextId
<1> QED
  BY <1>5, <1>6

\* The rows of a batch are card rows.
LEMMA InsertIsGood ==
    ASSUME IssueInv, NEW t \in Threads, Insert(t)
    PROVE  /\ req' \in [Threads -> Request] /\ TypeChosen'
           /\ cards' \in [Codes -> CardRow \cup {Null}]
<1>1. req[t] \in Request /\ req[t].type \in TypeIds /\ req[t].app \in AppIds \cup {Null}
  BY DEF IssueInv, TypeOK, TypeChosen, Insert, Request
<1>2. req' \in [Threads -> Request] /\ TypeChosen'
  BY AnswerIsGood DEF Insert
<1>3. [app |-> req[t].app, type |-> req[t].type] \in CardRow
  BY <1>1 DEF CardRow
<1>4. cards' \in [Codes -> CardRow \cup {Null}]
  BY <1>3 DEF Insert, IssueInv, TypeOK
<1> QED
  BY <1>2, <1>4

\* Deleting an application nulls the column of the cards it loaded.
LEMMA DeleteAppIsGood ==
    ASSUME IssueInv, NEW t \in Threads, DeleteApp(t)
    PROVE  /\ req' \in [Threads -> Request] /\ TypeChosen'
           /\ cards' \in [Codes -> CardRow \cup {Null}]
<1>1. req' \in [Threads -> Request] /\ TypeChosen'
  BY AnswerIsGood DEF DeleteApp
<1>2. \A c \in Codes : cards[c] # Null => [cards[c] EXCEPT !.app = Null] \in CardRow
  BY DEF IssueInv, TypeOK, CardRow
<1>3. cards' \in [Codes -> CardRow \cup {Null}]
  BY <1>2 DEF DeleteApp, IssueInv, TypeOK
<1> QED
  BY <1>1, <1>3

LEMMA IssueStepIsGood ==
    ASSUME IssueInv, NEW t \in Threads, Issue(t)
    PROVE  IssueInv'
<1>1. CASE \E a \in AppIds, terms \in Terms, n \in 1..MaxCount : IssueStart(t, a, terms, n)
  <2>1. PICK a \in AppIds, terms \in Terms, n \in 1..MaxCount : IssueStart(t, a, terms, n)
    BY <1>1
  <2>2. Good([Idle EXCEPT !.pc = "find", !.app = a, !.terms = terms, !.count = n])
    <3>1. n \in 0..MaxCount /\ Idle \in Request
      BY IdleIsGood DEF Good
    <3>2. [Idle EXCEPT !.pc = "find", !.app = a, !.terms = terms, !.count = n] \in Request
      BY <3>1 DEF Request
    <3> QED BY <3>2 DEF Good, Idle
  <2>3. req' \in [Threads -> Request] /\ TypeChosen'
    BY <2>1, <2>2, AnswerIsGood, OneRequestChanges DEF IssueStart
  <2> QED
    BY <2>1, <2>3 DEF IssueStart, IssueInv, TypeOK
<1>2. CASE FindType(t) \/ MakeType(t)
  BY <1>2, TemplateIsGood DEF IssueInv, TypeOK, FindType, MakeType
<1>3. CASE DrawCode(t)
  <2>1. UNCHANGED <<apps, types, cards>>
    BY <1>3 DEF DrawCode
  <2> QED
    BY <1>3, <2>1, DrawIsGood DEF IssueInv, TypeOK
<1>4. CASE DrawEnd(t)
  <2>1. Good([req[t] EXCEPT !.pc = "insert"])
    <3>1. req[t] \in Request /\ req[t].type # Null
      BY <1>4 DEF IssueInv, TypeOK, TypeChosen, DrawEnd
    <3> QED BY <3>1 DEF Request, Good
  <2>2. req' = [req EXCEPT ![t] = [req[t] EXCEPT !.pc = "insert"]]
    BY <1>4 DEF DrawEnd, IssueInv, TypeOK
  <2>3. UNCHANGED <<apps, types, cards>>
    BY <1>4 DEF DrawEnd
  <2> QED
    BY <2>1, <2>2, <2>3, OneRequestChanges DEF IssueInv, TypeOK
<1>5. CASE Insert(t)
  <2>1. UNCHANGED <<apps, types>>
    BY <1>5 DEF Insert
  <2> QED
    BY <1>5, <2>1, InsertIsGood DEF IssueInv, TypeOK
<1> QED
  BY <1>1, <1>2, <1>3, <1>4, <1>5 DEF Issue

LEMMA ApplicationStepIsGood ==
    ASSUME IssueInv, NEW t \in Threads, Applications(t)
    PROVE  IssueInv'
<1>1. CASE CreateApp(t)
  <2>1. req' \in [Threads -> Request] /\ TypeChosen'
    BY <1>1, AnswerIsGood DEF CreateApp
  <2> QED
    BY <1>1, <2>1 DEF CreateApp, NextId, IssueInv, TypeOK
<1>2. CASE \E a \in AppIds : DeleteAppStart(t, a)
  <2>1. PICK a \in AppIds : DeleteAppStart(t, a)
    BY <1>2
  <2>2. Good([Idle EXCEPT !.pc = "count", !.app = a])
    <3>1. Idle \in Request
      BY IdleIsGood DEF Good
    <3>2. [Idle EXCEPT !.pc = "count", !.app = a] \in Request
      BY <3>1 DEF Request
    <3> QED BY <3>2 DEF Good, Idle
  <2>3. req' \in [Threads -> Request] /\ TypeChosen'
    BY <2>1, <2>2, AnswerIsGood, OneRequestChanges DEF DeleteAppStart
  <2> QED
    BY <2>1, <2>3 DEF DeleteAppStart, IssueInv, TypeOK
<1>3. CASE CountCards(t)
  <2>1. Good([req[t] EXCEPT !.pc = "load"])
    <3>1. req[t] \in Request
      BY DEF IssueInv, TypeOK
    <3> QED BY <3>1 DEF Request, Good
  <2>2. Answer(t, "refused") \/ req' = [req EXCEPT ![t] = [req[t] EXCEPT !.pc = "load"]]
    BY <1>3 DEF CountCards, IssueInv, TypeOK
  <2>3. req' \in [Threads -> Request] /\ TypeChosen'
    BY <2>1, <2>2, AnswerIsGood, OneRequestChanges
  <2> QED
    BY <1>3, <2>3 DEF CountCards, IssueInv, TypeOK
<1>4. CASE LoadCards(t)
  <2> DEFINE next == [req[t] EXCEPT !.pc = "delete", !.loaded = CardsOf(req[t].app)]
  <2>1. CardsOf(req[t].app) \in SUBSET Codes
    BY DEF CardsOf
  <2>2. Good(next)
    <3>1. req[t] \in Request
      BY DEF IssueInv, TypeOK
    <3> QED BY <2>1, <3>1 DEF Request, Good
  <2>3. req' = [req EXCEPT ![t] = next]
    BY <1>4 DEF LoadCards, IssueInv, TypeOK
  <2>4. req' \in [Threads -> Request] /\ TypeChosen'
    <3> HIDE DEF next
    <3> QED BY <2>2, <2>3, OneRequestChanges
  <2> QED
    BY <1>4, <2>4 DEF LoadCards, IssueInv, TypeOK
<1>5. CASE DeleteApp(t)
  <2>1. apps' \subseteq AppIds /\ UNCHANGED types
    BY <1>5 DEF DeleteApp, IssueInv, TypeOK
  <2> QED
    BY <1>5, <2>1, DeleteAppIsGood DEF IssueInv, TypeOK
<1> QED
  BY <1>1, <1>2, <1>3, <1>4, <1>5 DEF Applications

LEMMA IssueInvHolds == Spec => []IssueInv
<1>1. Init => IssueInv
  BY IdleIsGood DEF Init, IssueInv, TypeOK, TypeChosen, Good
<1>2. IssueInv /\ [Next]_vars => IssueInv'
  <2> SUFFICES ASSUME IssueInv, [Next]_vars PROVE IssueInv'
    OBVIOUS
  <2>1. ASSUME NEW t \in Threads, Abort(t) PROVE IssueInv'
    <3>1. req' \in [Threads -> Request] /\ TypeChosen'
      BY <2>1, AnswerIsGood DEF Abort
    <3> QED
      BY <2>1, <3>1 DEF Abort, IssueInv, TypeOK
  <2>2. ASSUME NEW c \in Codes, DeleteCard(c) PROVE IssueInv'
    BY <2>2 DEF DeleteCard, IssueInv, TypeOK, TypeChosen
  <2>3. CASE UNCHANGED vars
    BY <2>3 DEF vars, IssueInv, TypeOK, TypeChosen
  <2> QED
    BY <2>1, <2>2, <2>3, IssueStepIsGood, ApplicationStepIsGood DEF Next
<1> QED
  BY <1>1, <1>2, PTL DEF Spec

\* Type correctness: every table and request keeps its shape; in particular
\* the draws of a batch stay within the bound the loop sets itself.
THEOREM IssueTypes == Spec => []TypeOK
<1>1. IssueInv => TypeOK
  BY DEF IssueInv
<1> QED
  BY <1>1, IssueInvHolds, PTL

-----------------------------------------------------------------------------
\* The actions that write the tables of applications and cards.
LEMMA CardWriters ==
    ASSUME [Next]_vars
    PROVE  \/ UNCHANGED <<apps, cards>>
           \/ UNCHANGED cards /\ \E t \in Threads : CreateApp(t)
           \/ \E t \in Threads : Insert(t)
           \/ \E t \in Threads : DeleteApp(t)
           \/ \E c \in Codes : DeleteCard(c)
<1>1. ASSUME NEW t \in Threads, Issue(t)
      PROVE  UNCHANGED <<apps, cards>> \/ Insert(t)
  BY <1>1 DEF Issue, IssueStart, FindType, MakeType, DrawCode, DrawEnd
<1>2. ASSUME NEW t \in Threads, Applications(t)
      PROVE  UNCHANGED <<apps, cards>> \/ (UNCHANGED cards /\ CreateApp(t)) \/ DeleteApp(t)
  BY <1>2 DEF Applications, CreateApp, DeleteAppStart, CountCards, LoadCards
<1>3. ASSUME NEW t \in Threads, Abort(t) PROVE UNCHANGED <<apps, cards>>
  BY <1>3 DEF Abort
<1> QED
  BY <1>1, <1>2, <1>3 DEF Next, vars

\* A card's application exists: a batch is admitted only while the
\* application is there, and an application goes only when every card that
\* names it is among those it lets go.
THEOREM CardsAreNotOrphaned == Spec => []CardsHaveApplication
<1>1. Init => CardsHaveApplication
  BY DEF Init, CardsHaveApplication
<1>2. TypeOK /\ CardsHaveApplication /\ [Next]_vars => CardsHaveApplication'
  <2> SUFFICES ASSUME TypeOK, CardsHaveApplication, [Next]_vars
               PROVE  CardsHaveApplication'
    OBVIOUS
  <2>1. CASE UNCHANGED <<apps, cards>>
    BY <2>1 DEF CardsHaveApplication
  <2>2. CASE UNCHANGED cards /\ \E t \in Threads : CreateApp(t)
    BY <2>2 DEF CardsHaveApplication, CreateApp
  <2>3. ASSUME NEW t \in Threads, Insert(t) PROVE CardsHaveApplication'
    <3>1. \A c \in Batch(req[t]) : req[t].created # <<>>
      BY DEF Batch, TypeOK, Request
    <3> QED
      BY <2>3, <3>1 DEF CardsHaveApplication, Insert, ApplicationIsThere, TypeOK
  <2>4. ASSUME NEW t \in Threads, DeleteApp(t) PROVE CardsHaveApplication'
    <3>1. CASE UNCHANGED <<apps, cards>>
      BY <3>1 DEF CardsHaveApplication
    <3>2. CASE /\ NoCardLeft(req[t])
               /\ apps' = apps \ {req[t].app}
               /\ cards' = [c \in Codes |-> IF c \in req[t].loaded
                               THEN [cards[c] EXCEPT !.app = Null] ELSE cards[c]]
               /\ \A c \in req[t].loaded : cards[c] # Null
      <4> SUFFICES ASSUME NEW c \in Codes, cards'[c] # Null, cards'[c].app # Null
                   PROVE  cards'[c].app \in apps'
        BY DEF CardsHaveApplication
      <4>1. c \notin req[t].loaded
        BY <3>2 DEF TypeOK, CardRow
      <4>2. cards'[c] = cards[c] /\ cards[c].app # req[t].app
        BY <3>2, <4>1 DEF NoCardLeft, CardsOf
      <4> QED
        BY <3>2, <4>2 DEF CardsHaveApplication
    <3> QED
      BY <2>4, <3>1, <3>2 DEF DeleteApp
  <2>5. ASSUME NEW c \in Codes, DeleteCard(c) PROVE CardsHaveApplication'
    BY <2>5 DEF CardsHaveApplication, DeleteCard, TypeOK
  <2> QED
    BY <2>1, <2>2, <2>3, <2>4, <2>5, CardWriters
<1> QED
  BY <1>1, <1>2, IssueTypes, PTL DEF Spec

\* A card stays the card it was issued as: a batch is inserted over free
\* codes only, and the deletion of an application touches one column.
THEOREM CardsAreIssuedOnce == Spec => IssuedOnce
<1> DEFINE Kept == \A c \in Codes : cards[c] # Null /\ cards'[c] # Null =>
                      /\ cards'[c].type = cards[c].type
                      /\ cards'[c].app \in {cards[c].app, Null}
<1>1. TypeOK /\ [Next]_vars => [Kept]_vars
  <2> SUFFICES ASSUME TypeOK, [Next]_vars PROVE Kept
    OBVIOUS
  <2>1. CASE UNCHANGED cards
    BY <2>1
  <2>2. ASSUME NEW t \in Threads, Insert(t) PROVE Kept
    BY <2>2 DEF Insert, CodesAreNew
  <2>3. ASSUME NEW t \in Threads, DeleteApp(t) PROVE Kept
    BY <2>3 DEF DeleteApp, TypeOK, CardRow
  <2>4. ASSUME NEW c \in Codes, DeleteCard(c) PROVE Kept
    BY <2>4 DEF DeleteCard, TypeOK
  <2> QED
    BY <2>1, <2>2, <2>3, <2>4, CardWriters
<1> QED
  BY <1>1, IssueTypes, PTL DEF Spec, IssuedOnce

-----------------------------------------------------------------------------
(* The overlaps that matter.  Each of the next three claims fails by one    *)
(* kind of step while another request is under way; without such a step it  *)
(* holds however many requests overlap.                                     *)

Steps(t) == Issue(t) \/ Applications(t) \/ Abort(t)

\* A step of a thread changes its own request only ...
LEMMA StepsChangeOne ==
    ASSUME TypeOK, NEW t \in Threads, Steps(t), NEW u \in Threads, u # t
    PROVE  req'[u] = req[u]
<1>1. CASE Issue(t)
  BY <1>1 DEF Issue, IssueStart, FindType, MakeType, DrawCode, DrawEnd, Insert, Answer, TypeOK
<1>2. CASE Applications(t) \/ Abort(t)
  BY <1>2 DEF Applications, CreateApp, DeleteAppStart, CountCards, LoadCards, DeleteApp,
     Abort, Answer, TypeOK
<1> QED
  BY <1>1, <1>2 DEF Steps

\* ... and a request changes by a step of its own.
LEMMA RequestMoves ==
    ASSUME TypeOK, [Next]_vars, NEW u \in Threads
    PROVE  req'[u] = req[u] \/ Steps(u)
<1>1. CASE UNCHANGED vars \/ \E c \in Codes : DeleteCard(c)
  BY <1>1 DEF vars, DeleteCard
<1>2. ASSUME NEW t \in Threads, Steps(t) PROVE req'[u] = req[u] \/ Steps(u)
  BY <1>2, StepsChangeOne
<1> QED
  BY <1>1, <1>2 DEF Next, Steps

\* Where a request may come to wait.
LEMMA Arrives ==
    ASSUME TypeOK, NEW t \in Threads, Steps(t)
    PROVE  /\ req'[t].pc = "make" => FindType(t)
           /\ req'[t].pc = "load" => CountCards(t)
           /\ req'[t].pc = "delete" => LoadCards(t)
<1>0. req[t] \in Request /\ req \in [Threads -> Request]
  BY DEF TypeOK
<1>1. ASSUME NEW a, Answer(t, a) PROVE req'[t].pc = "idle"
  BY <1>0, <1>1 DEF Answer, Idle
<1>2. CASE \E a \in AppIds, terms \in Terms, n \in 1..MaxCount : IssueStart(t, a, terms, n)
  BY <1>0, <1>1, <1>2 DEF IssueStart, Idle
<1>3. CASE FindType(t) \/ MakeType(t) \/ DrawEnd(t)
  <2>1. CASE FindType(t)
    BY <1>0, <2>1 DEF FindType, Request
  <2>2. CASE MakeType(t)
    <3>1. req'[t].pc = "draw"
      BY <1>0, <2>2 DEF MakeType, Request
    <3> QED BY <3>1
  <2>3. CASE DrawEnd(t)
    BY <1>0, <2>3 DEF DrawEnd, Request
  <2> QED
    BY <1>3, <2>1, <2>2, <2>3
<1>7. CASE DrawCode(t)
  BY <1>0, <1>7 DEF DrawCode, Request
<1>4. CASE Insert(t) \/ CreateApp(t) \/ DeleteApp(t) \/ Abort(t)
  BY <1>1, <1>4 DEF Insert, CreateApp, DeleteApp, Abort
<1>5. CASE \E a \in AppIds : DeleteAppStart(t, a)
  BY <1>0, <1>1, <1>5 DEF DeleteAppStart, Idle
<1>6. CASE CountCards(t) \/ LoadCards(t)
  BY <1>0, <1>1, <1>6 DEF CountCards, LoadCards, Request
<1> QED
  BY <1>2, <1>3, <1>4, <1>5, <1>6, <1>7 DEF Steps, Issue, Applications

-----------------------------------------------------------------------------
(* Templates                                                               *)

\* No template is made while another request is about to make the same.
MakesOnce ==
    \A t, u \in Threads : MakeType(t) /\ u # t /\ req[u].pc = "make" =>
        req[u].terms # req[t].terms

\* A request about to make a template has looked for one, and there is none.
TemplateInv ==
    /\ TemplatesDiffer
    /\ \A t \in Threads : req[t].pc = "make" => \A i \in TypeIds : types[i] # req[t].terms

LEMMA TemplateStep ==
    ASSUME TypeOK, TemplateInv, [Next]_vars, [MakesOnce]_vars
    PROVE  TemplateInv'
<1>1. UNCHANGED types \/ \E t \in Threads : MakeType(t)
  <2>1. ASSUME NEW t \in Threads, Steps(t) PROVE UNCHANGED types \/ MakeType(t)
    BY <2>1 DEF Steps, Issue, IssueStart, FindType, DrawCode, DrawEnd, Insert, Applications,
       CreateApp, DeleteAppStart, CountCards, LoadCards, DeleteApp, Abort
  <2> QED
    BY <2>1 DEF Next, Steps, DeleteCard, vars
<1>2. CASE UNCHANGED types
  <2>1. TemplatesDiffer'
    BY <1>2 DEF TemplateInv, TemplatesDiffer
  <2>2. ASSUME NEW u \in Threads, req'[u].pc = "make"
        PROVE  \A i \in TypeIds : types'[i] # req'[u].terms
    <3>1. CASE req'[u] = req[u]
      BY <1>2, <2>2, <3>1 DEF TemplateInv
    <3>2. CASE FindType(u)
      BY <1>2, <2>2, <3>2 DEF FindType, TypeOK, Request
    <3> QED
      BY <2>2, <3>1, <3>2, RequestMoves, Arrives
  <2> QED
    BY <2>1, <2>2 DEF TemplateInv
<1>3. ASSUME NEW t \in Threads, MakeType(t)
      PROVE  TemplateInv'
  <2>1. PICK i \in TypeIds : /\ types' = [types EXCEPT ![i] = req[t].terms]
                             /\ req' = [req EXCEPT ![t].pc = "draw", ![t].type = i]
    BY <1>3 DEF MakeType, NextId
  <2>2. req[t].pc = "make" /\ req'[t].pc = "draw"
    BY <1>3, <2>1 DEF MakeType, TypeOK, Request
  <2>3. \A j \in TypeIds : types[j] # req[t].terms
    BY <2>2 DEF TemplateInv
  <2>4. \A j \in TypeIds : types'[j] = types[j] \/ (j = i /\ types'[j] = req[t].terms)
    BY <2>1 DEF TypeOK
  <2>5. TemplatesDiffer'
    BY <2>3, <2>4 DEF TemplateInv, TemplatesDiffer
  <2>6. MakesOnce
    BY <2>2 DEF vars
  <2>7. ASSUME NEW u \in Threads, req'[u].pc = "make"
        PROVE  \A j \in TypeIds : types'[j] # req'[u].terms
    <3>1. u # t /\ req'[u] = req[u]
      BY <1>3, <2>2, <2>7, StepsChangeOne DEF Steps, Issue
    <3>2. req[u].terms # req[t].terms
      BY <1>3, <2>6, <2>7, <3>1 DEF MakesOnce
    <3> QED
      BY <2>4, <2>7, <3>1, <3>2 DEF TemplateInv
  <2> QED
    BY <2>5, <2>7 DEF TemplateInv
<1> QED
  BY <1>1, <1>2, <1>3

\* "Identical combos collapse onto one template", unless two requests that
\* found none for the same terms both make one.
THEOREM OneTemplatePerTerms == Spec /\ [][MakesOnce]_vars => []TemplatesDiffer
<1>1. Init => TemplateInv
  BY DEF Init, Idle, TemplateInv, TemplatesDiffer
<1>2. TypeOK /\ TemplateInv /\ [Next]_vars /\ [MakesOnce]_vars => TemplateInv'
  BY TemplateStep
<1>3. TemplateInv => TemplatesDiffer
  BY DEF TemplateInv
<1> QED
  BY <1>1, <1>2, <1>3, IssueTypes, PTL DEF Spec

-----------------------------------------------------------------------------
(* Cards of an application that is deleted                                 *)

\* No batch arrives between the count of an application's cards and the load.
NoneAfterCount ==
    \A t, u \in Threads : Insert(t) /\ req[u].pc = "load" => req[u].app # req[t].app

\* An application whose cards were counted has none until they are loaded.
EmptyInv ==
    \A t \in Threads :
        /\ req[t].pc = "load" => CardsOf(req[t].app) = {}
        /\ req[t].pc = "delete" => req[t].loaded = {}

LEMMA EmptyStep ==
    ASSUME TypeOK, EmptyInv, [Next]_vars, [NoneAfterCount]_vars
    PROVE  EmptyInv'
<1> SUFFICES ASSUME NEW u \in Threads
             PROVE  /\ req'[u].pc = "load" => CardsOf(req[u].app)' = {}
                    /\ req'[u].pc = "delete" => req'[u].loaded = {}
  BY DEF EmptyInv
<1>1. CASE req'[u] = req[u] /\ req[u].pc = "load"
  <2> DEFINE a == req[u].app
  <2>0. \A c \in Codes : cards[c] = Null \/ cards[c].app # a
    BY <1>1 DEF EmptyInv, CardsOf
  <2>1. \A c \in Codes : cards'[c] = Null \/ cards'[c].app # a
    <3>1. CASE UNCHANGED cards
      BY <2>0, <3>1
    <3>2. ASSUME NEW t \in Threads, Insert(t) PROVE \A c \in Codes : cards'[c] = Null \/ cards'[c].app # a
      <4>1. req'[t] # req[t]
        BY <3>2 DEF Insert, Answer, Idle, TypeOK
      <4>2. a # req[t].app
        BY <1>1, <3>2, <4>1 DEF NoneAfterCount, vars
      <4> QED
        BY <2>0, <3>2, <4>2 DEF Insert
    <3>3. ASSUME NEW t \in Threads, DeleteApp(t) PROVE \A c \in Codes : cards'[c] = Null \/ cards'[c].app # a
      <4>1. req[t].loaded = {}
        BY <3>3 DEF EmptyInv, DeleteApp
      <4> QED
        BY <2>0, <3>3, <4>1 DEF DeleteApp
    <3>4. ASSUME NEW c \in Codes, DeleteCard(c) PROVE \A d \in Codes : cards'[d] = Null \/ cards'[d].app # a
      BY <2>0, <3>4 DEF DeleteCard, TypeOK
    <3> QED
      BY <3>1, <3>2, <3>3, <3>4, CardWriters
  <2> QED
    BY <1>1, <2>1 DEF CardsOf
<1>2. CASE req'[u] = req[u] /\ req[u].pc # "load"
  BY <1>2 DEF EmptyInv
<1>3. CASE Steps(u)
  <2>1. CASE CountCards(u)
    <3>1. UNCHANGED cards /\ req'[u].pc # "delete"
      BY <2>1 DEF CountCards, Answer, Idle, TypeOK, Request
    <3>2. req'[u].pc = "load" => CardsOf(req[u].app) = {} /\ req'[u].app = req[u].app
      BY <2>1 DEF CountCards, Answer, Idle, TypeOK, Request
    <3> QED
      BY <3>1, <3>2 DEF CardsOf
  <2>2. CASE LoadCards(u)
    <3>1. CardsOf(req[u].app) = {}
      BY <2>2 DEF LoadCards, EmptyInv
    <3>2. req'[u].pc = "delete" /\ req'[u].loaded = CardsOf(req[u].app)
      BY <2>2 DEF LoadCards, TypeOK, Request
    <3> QED
      BY <3>1, <3>2
  <2> QED
    BY <1>3, <2>1, <2>2, Arrives
<1> QED
  BY <1>1, <1>2, <1>3, RequestMoves

\* An application that has cards is not deleted, and no card loses its
\* application, unless a batch is inserted after the cards were counted and
\* before the session loads them: one that comes later is stopped by the
\* foreign key.
THEOREM OnlyAfterCount == Spec /\ [][NoneAfterCount]_vars => CardsKeepApplication
<1>1. Init => EmptyInv
  BY DEF Init, Idle, EmptyInv
<1>2. TypeOK /\ EmptyInv /\ [Next]_vars /\ [NoneAfterCount]_vars => EmptyInv'
  BY EmptyStep
<1>3. ASSUME TypeOK, EmptyInv, [Next]_vars PROVE [KeepsApplication]_vars
  <2>1. CASE UNCHANGED cards
    BY <2>1 DEF KeepsApplication
  <2>2. ASSUME NEW t \in Threads, Insert(t) PROVE KeepsApplication
    BY <2>2 DEF Insert, CodesAreNew, KeepsApplication
  <2>3. ASSUME NEW t \in Threads, DeleteApp(t) PROVE KeepsApplication
    <3>1. req[t].loaded = {}
      BY <1>3, <2>3 DEF EmptyInv, DeleteApp
    <3> QED
      BY <1>3, <2>3, <3>1 DEF DeleteApp, KeepsApplication, TypeOK
  <2>4. ASSUME NEW c \in Codes, DeleteCard(c) PROVE KeepsApplication
    BY <1>3, <2>4 DEF DeleteCard, KeepsApplication, TypeOK
  <2> QED
    BY <1>3, <2>1, <2>2, <2>3, <2>4, CardWriters
<1> QED
  BY <1>1, <1>2, <1>3, IssueTypes, PTL DEF Spec, CardsKeepApplication

-----------------------------------------------------------------------------
(* Batches and deletions that a constraint stops                           *)

Issuing == {"find", "make", "draw", "insert"}

\* No batch is inserted that shares a code with one under way, or whose
\* application is about to be deleted; no application is deleted for which a
\* batch is under way.
Undisturbed ==
    /\ \A t, u \in Threads : Insert(t) /\ u # t =>
          /\ req[u].pc \in {"draw", "insert"} => Batch(req[u]) \cap Batch(req[t]) = {}
          /\ req[u].pc \in {"load", "delete"} => req[u].app # req[t].app
    /\ \A t, u \in Threads : DeleteApp(t) /\ req[u].pc \in Issuing => req[u].app # req[t].app

\* What a request found out holds as long as it needs it: the application it
\* issues for is there, the codes it drew are free and differ, the application
\* it deletes has no cards.
StillSo(r) ==
    /\ r.pc \in Issuing => r.app \in apps
    /\ r.pc \in {"find", "make"} => r.created = <<>>
    /\ r.pc \in {"draw", "insert"} => CodesAreNew(r)
    /\ r.pc \in {"load", "delete"} => CardsOf(r.app) = {}
    /\ r.pc = "delete" => r.loaded = {}
    /\ r.answer # "conflict"

AdmittedInv == \A t \in Threads : StillSo(req[t])


LEMMA EmptyBatchIsNew ==
    ASSUME NEW r, r.created = <<>>
    PROVE  CodesAreNew(r)
<1>1. Len(r.created) = 0 /\ Batch(r) = {}
  BY DEF Batch
<1>2. Cardinality({}) = 0
  BY FS_EmptySet
<1> QED
  BY <1>1, <1>2 DEF CodesAreNew

\* A free code that the batch lacks makes the batch one longer and larger.
LEMMA LongerBatchIsNew ==
    ASSUME NEW r, r.created \in Seq(Codes), CodesAreNew(r),
           NEW code \in Codes, ~Taken(r, code),
           NEW s, s.created = Append(r.created, code)
    PROVE  CodesAreNew(s)
<1>1. code \notin Batch(r) /\ cards[code] = Null
  BY DEF Taken, Batch
<1>2. Batch(s) = Batch(r) \cup {code} /\ Len(s.created) = Len(r.created) + 1
  BY DEF Batch
<1>3. IsFiniteSet(Batch(r))
  <2>1. Batch(r) \subseteq Codes
    BY DEF Batch
  <2> QED
    BY <2>1, FS_Subset
<1>4. Cardinality(Batch(r) \cup {code}) = Cardinality(Batch(r)) + 1
  BY <1>1, <1>3, FS_AddElement
<1> QED
  BY <1>1, <1>2, <1>4 DEF CodesAreNew

\* A batch stays new while the table of cards does not change.
LEMMA NewStaysNew ==
    ASSUME NEW r, CodesAreNew(r), UNCHANGED cards,
           NEW t \in Threads, req'[t].created = r.created
    PROVE  CodesAreNew(req[t])'
<1>1. Batch(req[t])' = Batch(r)
  BY DEF Batch
<1> QED
  BY <1>1 DEF CodesAreNew

\* A request that goes on with `r' while the tables rest needs of `r' only
\* what the tables say of it.
LEMMA GoesOn ==
    ASSUME TypeOK, NEW t \in Threads, NEW r, StillSo(r),
           UNCHANGED <<apps, types, cards>>, req' = [req EXCEPT ![t] = r]
    PROVE  StillSo(req[t])'
<1>1. req'[t] = r
  BY DEF TypeOK
<1>2. r.pc \in {"draw", "insert"} => CodesAreNew(req[t])'
  BY <1>1, NewStaysNew DEF StillSo
<1>3. CardsOf(req[t].app)' = CardsOf(r.app)
  BY <1>1 DEF CardsOf
<1> QED
  BY <1>1, <1>2, <1>3 DEF StillSo

LEMMA Answers ==
    ASSUME TypeOK, NEW t \in Threads, NEW a \in {"ok", "refused", "failed"}, Answer(t, a)
    PROVE  StillSo(req[t])'
<1>1. req'[t].pc = "idle" /\ req'[t].answer = a
  BY DEF Answer, Idle, TypeOK
<1> QED
  BY <1>1 DEF StillSo, Issuing

LEMMA IssueStillSo ==
    ASSUME TypeOK, AdmittedInv, NEW t \in Threads, Issue(t)
    PROVE  StillSo(req[t])'
<1> DEFINE r == req[t]
<1>r. r \in Request /\ StillSo(r)
  BY DEF TypeOK, AdmittedInv
<1>1. CASE \E a \in AppIds, terms \in Terms, n \in 1..MaxCount : IssueStart(t, a, terms, n)
  <2>1. PICK a \in AppIds, terms \in Terms, n \in 1..MaxCount : IssueStart(t, a, terms, n)
    BY <1>1
  <2>2. UNCHANGED <<apps, types, cards>>
    BY <2>1 DEF IssueStart
  <2>3. CASE Answer(t, "refused")
    BY <2>3, Answers
  <2> DEFINE next == [Idle EXCEPT !.pc = "find", !.app = a, !.terms = terms, !.count = n]
  <2>4. CASE a \in apps /\ req' = [req EXCEPT ![t] = next]
    <3>1. /\ next.pc = "find" /\ next.app = a /\ next.created = <<>>
          /\ next.answer = "none"
      BY DEF Idle
    <3> HIDE DEF next
    <3>2. StillSo(next)
      BY <2>4, <3>1 DEF StillSo
    <3> QED
      BY <2>2, <2>4, <3>2, GoesOn
  <2> QED
    BY <2>1, <2>3, <2>4 DEF IssueStart
<1>2. CASE FindType(t)
  <2>1. UNCHANGED <<apps, types, cards>> /\ r.pc = "find" /\ CodesAreNew(r)
    BY <1>2, <1>r, EmptyBatchIsNew DEF FindType, StillSo
  <2>2. ASSUME NEW i \in TypeIds, req' = [req EXCEPT ![t].pc = "draw", ![t].type = i]
        PROVE  StillSo(req[t])'
    <3> DEFINE next == [r EXCEPT !.pc = "draw", !.type = i]
    <3>1. req' = [req EXCEPT ![t] = next]
      BY <2>2 DEF TypeOK
    <3>2. /\ next.pc = "draw" /\ next.app = r.app /\ next.created = r.created
          /\ next.answer = r.answer
      BY <1>r DEF Request
    <3> HIDE DEF next
    <3>3. StillSo(next)
      BY <1>r, <2>1, <3>2 DEF StillSo, Issuing, CodesAreNew, Batch
    <3> QED
      BY <2>1, <3>1, <3>3, GoesOn
  <2>3. ASSUME req' = [req EXCEPT ![t].pc = "make"]
        PROVE  StillSo(req[t])'
    <3> DEFINE next == [r EXCEPT !.pc = "make"]
    <3>1. req' = [req EXCEPT ![t] = next]
      BY <2>3 DEF TypeOK
    <3>2. /\ next.pc = "make" /\ next.app = r.app /\ next.created = r.created
          /\ next.answer = r.answer
      BY <1>r DEF Request
    <3> HIDE DEF next
    <3>3. StillSo(next)
      BY <1>r, <2>1, <3>2 DEF StillSo, Issuing
    <3> QED
      BY <2>1, <3>1, <3>3, GoesOn
  <2> QED
    BY <1>2, <2>2, <2>3 DEF FindType
<1>3. CASE MakeType(t)
  <2>1. PICK i : req' = [req EXCEPT ![t].pc = "draw", ![t].type = i]
    BY <1>3 DEF MakeType
  <2>2. req'[t] = [r EXCEPT !.pc = "draw", !.type = i]
    BY <2>1 DEF TypeOK
  <2>3. /\ req'[t].pc = "draw" /\ req'[t].app = r.app /\ req'[t].created = r.created
        /\ req'[t].answer = r.answer
    BY <1>r, <2>2 DEF Request
  <2>4. UNCHANGED <<apps, cards>> /\ r.pc = "make" /\ r.created = <<>>
    BY <1>3, <1>r DEF MakeType, StillSo
  <2>5. CodesAreNew(req[t])'
    BY <2>3, <2>4, EmptyBatchIsNew, NewStaysNew
  <2> QED
    BY <1>r, <2>3, <2>4, <2>5 DEF StillSo, Issuing
<1>4. CASE DrawCode(t)
  <2>1. PICK code \in Codes :
          req' = [req EXCEPT ![t].attempts = @ + 1,
                             ![t].created = IF Taken(r, code) THEN @ ELSE Append(@, code)]
    BY <1>4 DEF DrawCode
  <2> DEFINE longer == IF Taken(r, code) THEN r.created ELSE Append(r.created, code)
  <2> DEFINE next == [r EXCEPT !.attempts = @ + 1, !.created = longer]
  <2>2. req' = [req EXCEPT ![t] = next]
    BY <2>1 DEF TypeOK
  <2>3. /\ next.pc = r.pc /\ next.app = r.app /\ next.created = longer
        /\ next.answer = r.answer
    BY <1>r DEF Request
  <2>4. UNCHANGED <<apps, types, cards>> /\ r.pc = "draw" /\ CodesAreNew(r)
    BY <1>4, <1>r DEF DrawCode, StillSo
  <2> HIDE DEF next
  <2>5. CodesAreNew(next)
    <3>1. CASE Taken(r, code)
      BY <2>3, <2>4, <3>1 DEF CodesAreNew, Batch
    <3>2. CASE ~Taken(r, code)
      <4>1. r.created \in Seq(Codes) /\ next.created = Append(r.created, code)
        BY <1>r, <2>3, <3>2 DEF Request
      <4> QED
        BY <2>4, <3>2, <4>1, LongerBatchIsNew
    <3> QED
      BY <3>1, <3>2
  <2> HIDE DEF longer
  <2>6. StillSo(next)
    BY <1>r, <2>3, <2>4, <2>5 DEF StillSo, Issuing
  <2> QED
    BY <2>2, <2>4, <2>6, GoesOn
<1>5. CASE DrawEnd(t)
  <2> DEFINE next == [r EXCEPT !.pc = "insert"]
  <2>1. req' = [req EXCEPT ![t] = next]
    BY <1>5 DEF DrawEnd, TypeOK
  <2>2. /\ next.pc = "insert" /\ next.app = r.app /\ next.created = r.created
        /\ next.answer = r.answer
    BY <1>r DEF Request
  <2>3. UNCHANGED <<apps, types, cards>> /\ r.pc = "draw" /\ CodesAreNew(r)
    BY <1>5, <1>r DEF DrawEnd, StillSo
  <2> HIDE DEF next
  <2>4. StillSo(next)
    BY <1>r, <2>2, <2>3 DEF StillSo, Issuing, CodesAreNew, Batch
  <2> QED
    BY <2>1, <2>3, <2>4, GoesOn
<1>6. CASE Insert(t)
  <2>1. CodesAreNew(r) /\ ApplicationIsThere(r)
    BY <1>6, <1>r DEF Insert, StillSo, ApplicationIsThere, Issuing
  <2> QED
    BY <1>6, <2>1, Answers DEF Insert
<1> QED
  BY <1>1, <1>2, <1>3, <1>4, <1>5, <1>6 DEF Issue

LEMMA ApplicationStillSo ==
    ASSUME TypeOK, AdmittedInv, NEW t \in Threads, Applications(t)
    PROVE  StillSo(req[t])'
<1> DEFINE r == req[t]
<1>r. r \in Request /\ StillSo(r)
  BY DEF TypeOK, AdmittedInv
<1>1. CASE CreateApp(t)
  BY <1>1, Answers DEF CreateApp
<1>2. CASE \E a \in AppIds : DeleteAppStart(t, a)
  <2>1. PICK a \in AppIds : DeleteAppStart(t, a)
    BY <1>2
  <2> DEFINE next == [Idle EXCEPT !.pc = "count", !.app = a]
  <2>2. CASE req' = [req EXCEPT ![t] = next]
    <3>1. next.pc = "count" /\ next.answer = "none"
      BY DEF Idle
    <3> HIDE DEF next
    <3>2. StillSo(next) /\ UNCHANGED <<apps, types, cards>>
      BY <2>1, <3>1 DEF StillSo, Issuing, DeleteAppStart
    <3> QED
      BY <2>2, <3>2, GoesOn
  <2> QED
    BY <2>1, <2>2, Answers DEF DeleteAppStart
<1>3. CASE CountCards(t)
  <2> DEFINE next == [r EXCEPT !.pc = "load"]
  <2>1. CASE CardsOf(r.app) = {} /\ req' = [req EXCEPT ![t].pc = "load"]
    <3>1. req' = [req EXCEPT ![t] = next]
      BY <2>1 DEF TypeOK
    <3>2. next.pc = "load" /\ next.app = r.app /\ next.answer = r.answer
      BY <1>r DEF Request
    <3> HIDE DEF next
    <3>3. StillSo(next) /\ UNCHANGED <<apps, types, cards>>
      BY <1>3, <1>r, <2>1, <3>2 DEF StillSo, Issuing, CountCards
    <3> QED
      BY <3>1, <3>3, GoesOn
  <2> QED
    BY <1>3, <2>1, Answers DEF CountCards
<1>4. CASE LoadCards(t)
  <2>1. UNCHANGED <<apps, types, cards>> /\ CardsOf(r.app) = {}
    BY <1>4, <1>r DEF LoadCards, StillSo
  <2> DEFINE next == [r EXCEPT !.pc = "delete", !.loaded = {}]
  <2>2. req' = [req EXCEPT ![t] = next]
    BY <1>4, <2>1 DEF LoadCards, TypeOK
  <2>3. /\ next.pc = "delete" /\ next.app = r.app /\ next.loaded = {}
        /\ next.answer = r.answer
    BY <1>r DEF Request
  <2> HIDE DEF next
  <2>4. StillSo(next)
    BY <1>r, <2>1, <2>3 DEF StillSo, Issuing
  <2> QED
    BY <2>1, <2>2, <2>4, GoesOn
<1>5. CASE DeleteApp(t)
  <2>1. NoCardLeft(r) /\ r.loaded = {}
    BY <1>5, <1>r DEF DeleteApp, StillSo, NoCardLeft
  <2> QED
    BY <1>5, <2>1, Answers DEF DeleteApp
<1> QED
  BY <1>1, <1>2, <1>3, <1>4, <1>5 DEF Applications

\* What others do to the tables leaves what a waiting request found out.
LEMMA OthersStillSo ==
    ASSUME TypeOK, AdmittedInv, [Next]_vars, [Undisturbed]_vars,
           NEW u \in Threads, req'[u] = req[u]
    PROVE  StillSo(req[u])'
<1> DEFINE r == req[u]
<1>r. StillSo(r) /\ req'[u] = r
  BY DEF AdmittedInv
<1>s. ASSUME r.pc \in Issuing => r.app \in apps',
             r.pc \in {"draw", "insert"} => \A c \in Batch(r) : cards'[c] = Null,
             r.pc \in {"load", "delete"} =>
                \A c \in Codes : cards'[c] # Null => cards'[c].app # r.app
      PROVE  StillSo(req[u])'
  <2>1. r.pc \in {"draw", "insert"} => CodesAreNew(req[u])'
    BY <1>r, <1>s DEF StillSo, CodesAreNew, Batch
  <2>2. r.pc \in {"load", "delete"} => CardsOf(req[u].app)' = {}
    BY <1>r, <1>s DEF CardsOf
  <2> QED
    BY <1>r, <1>s, <2>1, <2>2 DEF StillSo
<1>t. /\ r.pc \in Issuing => r.app \in apps
      /\ r.pc \in {"draw", "insert"} => \A c \in Batch(r) : cards[c] = Null
      /\ r.pc \in {"load", "delete"} => \A c \in Codes : cards[c] # Null => cards[c].app # r.app
  BY <1>r DEF StillSo, CodesAreNew, CardsOf
<1>b. r.pc \in {"draw", "insert"} => Batch(r) \subseteq Codes
  BY DEF Batch, TypeOK, Request
<1>1. CASE UNCHANGED <<apps, cards>>
  BY <1>1, <1>s, <1>t
<1>2. CASE UNCHANGED cards /\ \E t \in Threads : CreateApp(t)
  BY <1>2, <1>s, <1>t DEF CreateApp
<1>3. ASSUME NEW t \in Threads, Insert(t) PROVE StillSo(req[u])'
  <2>1. req'[t] # req[t]
    BY <1>3 DEF Insert, Answer, Idle, TypeOK
  <2>2. t # u /\ Undisturbed
    BY <1>r, <2>1 DEF vars
  <2>3. /\ r.pc \in {"draw", "insert"} => Batch(r) \cap Batch(req[t]) = {}
        /\ r.pc \in {"load", "delete"} => r.app # req[t].app
    BY <1>3, <2>2 DEF Undisturbed
  <2>4. /\ UNCHANGED apps
        /\ \A c \in Codes : \/ cards'[c] = cards[c]
                            \/ c \in Batch(req[t]) /\ cards'[c].app = req[t].app
    BY <1>3 DEF Insert
  <2> QED
    BY <1>s, <1>t, <1>b, <2>3, <2>4
<1>4. ASSUME NEW t \in Threads, DeleteApp(t) PROVE StillSo(req[u])'
  <2>1. req'[t] # req[t]
    BY <1>4 DEF DeleteApp, Answer, Idle, TypeOK
  <2>2. r.pc \in Issuing => r.app # req[t].app
    BY <1>4, <2>1 DEF vars, Undisturbed
  <2>3. req[t].loaded = {}
    BY <1>4 DEF AdmittedInv, StillSo, DeleteApp
  <2>4. apps \ {req[t].app} \subseteq apps' /\ \A c \in Codes : cards'[c] = cards[c]
    BY <1>4, <2>3 DEF DeleteApp
  <2> QED
    BY <1>s, <1>t, <1>b, <2>2, <2>4
<1>5. ASSUME NEW c \in Codes, DeleteCard(c) PROVE StillSo(req[u])'
  <2>1. UNCHANGED apps /\ \A d \in Codes : cards'[d] = cards[d] \/ cards'[d] = Null
    BY <1>5 DEF DeleteCard, TypeOK
  <2> QED
    BY <1>s, <1>t, <1>b, <2>1
<1> QED
  BY <1>1, <1>2, <1>3, <1>4, <1>5, CardWriters

\* The codes of a batch are checked against the table when they are drawn,
\* and against each other since the table does not have them yet.  So a batch
\* or a deletion is stopped by a constraint of the tables only if two batches
\* drew one code, or a batch and the deletion of its application met.
THEOREM ConflictsNeedDisturbance == Spec /\ [][Undisturbed]_vars => []NoConflict
<1>1. Init => AdmittedInv
  BY DEF Init, Idle, AdmittedInv, StillSo, Issuing
<1>2. TypeOK /\ AdmittedInv /\ [Next]_vars /\ [Undisturbed]_vars => AdmittedInv'
  <2> SUFFICES ASSUME TypeOK, AdmittedInv, [Next]_vars, [Undisturbed]_vars, NEW u \in Threads
               PROVE  StillSo(req[u])'
    BY DEF AdmittedInv
  <2>1. ASSUME Abort(u) PROVE StillSo(req[u])'
    BY <2>1, Answers DEF Abort
  <2> QED
    BY <2>1, RequestMoves, OthersStillSo, IssueStillSo, ApplicationStillSo DEF Steps
<1>3. AdmittedInv => NoConflict
  BY DEF AdmittedInv, StillSo, NoConflict
<1> QED
  BY <1>1, <1>2, <1>3, IssueTypes, PTL DEF Spec

-----------------------------------------------------------------------------
(* Requests one at a time, the scene `alone' of the runs                    *)

\* At most one request is under way.
OneRuns == \A t, u \in Threads : ~Free(t) /\ ~Free(u) => t = u

LEMMA IssueSceneIsSpec == MCSpec => Spec
<1>1. MCInit => Init
  BY DEF MCInit
<1>2. [MCNext]_<<vars, alone>> => [Next]_vars
  BY DEF MCNext
<1> QED
  BY <1>1, <1>2, PTL DEF MCSpec, Spec

LEMMA OneRunsAlone == MCSpec => ([]alone /\ []OneRuns) \/ []~alone
<1>1. MCInit => OneRuns
  BY DEF MCInit, Init, Idle, OneRuns, Free
<1>2. alone /\ OneRuns /\ [MCNext]_<<vars, alone>> => alone' /\ OneRuns'
  BY DEF MCNext, Quiet, OneRuns, Free, vars
<1>3. ~alone /\ [MCNext]_<<vars, alone>> => ~alone'
  BY DEF MCNext
<1> QED
  BY <1>1, <1>2, <1>3, PTL DEF MCSpec

\* A request alone meets none of those steps.
LEMMA AloneIsUndisturbed ==
    ASSUME OneRuns
    PROVE  MakesOnce /\ NoneAfterCount /\ Undisturbed
<1>1. ASSUME NEW t \in Threads, NEW u \in Threads, t # u, ~Free(t) PROVE req[u].pc = "idle"
  BY <1>1 DEF OneRuns, Free
<1>2. \A t \in Threads : MakeType(t) => ~Free(t)
  BY DEF MakeType, Free
<1>3. \A t \in Threads : Insert(t) => req[t].pc = "insert" /\ ~Free(t)
  BY DEF Insert, Free
<1>4. \A t \in Threads : DeleteApp(t) => req[t].pc = "delete" /\ ~Free(t)
  BY DEF DeleteApp, Free
<1> QED
  BY <1>1, <1>2, <1>3, <1>4 DEF MakesOnce, NoneAfterCount, Undisturbed, Issuing

\* A batch alone, and the deletion of an application alone, meet no
\* constraint of the tables.
THEOREM BatchesAloneAreAdmitted == MCSpec => []AloneNoConflict
<1>1. OneRuns => [Undisturbed]_vars
  BY AloneIsUndisturbed
<1>2. ~alone \/ NoConflict => AloneNoConflict
  BY DEF AloneNoConflict
<1> QED
  BY <1>1, <1>2, OneRunsAlone, IssueSceneIsSpec, ConflictsNeedDisturbance, PTL

\* A request alone makes a template only if none has its terms.
THEOREM TemplatesAloneDiffer == MCSpec => []AloneTemplatesDiffer
<1>1. OneRuns => [MakesOnce]_vars
  BY AloneIsUndisturbed
<1>2. ~alone \/ TemplatesDiffer => AloneTemplatesDiffer
  BY DEF AloneTemplatesDiffer
<1> QED
  BY <1>1, <1>2, OneRunsAlone, IssueSceneIsSpec, OneTemplatePerTerms, PTL

\* An application that is deleted while no other request runs had no cards
\* when they were counted and has none when it goes: no card is cut loose.
THEOREM CardsAloneKeepApplication == MCSpec => AloneKeepsApplication
<1>1. OneRuns => [NoneAfterCount]_vars
  BY AloneIsUndisturbed
<1>2. ~alone \/ [KeepsApplication]_vars => [alone => KeepsApplication]_vars
  OBVIOUS
<1> QED
  BY <1>1, <1>2, OneRunsAlone, IssueSceneIsSpec, OnlyAfterCount, PTL
     DEF CardsKeepApplication, AloneKeepsApplication
=============================================================================
