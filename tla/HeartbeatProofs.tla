--------------------------- MODULE HeartbeatProofs ---------------------------
(* How old a licence may be for which the client accepts a beat, for every  *)
(* choice of intervals, timeouts, windows and clocks and any number of      *)
(* server threads.                                                          *)
EXTENDS Heartbeat, TLAPS

\* What was good when the request went out was good a timeout ago at most: in
\* "sent" the client is in one socket operation.
Recent(n) == n <= Timeout - client.timer

\* What a thread has read it read since the request went out.
Handled(w) ==
    worker[w] # "idle" =>
        /\ client.pc = "sent" /\ Recent(sinceCard)
        /\ worker[w] = "verified" => Recent(sinceBound)

\* An answer that is being read, and not too old yet, counts from its signing.
Read(n) ==
    client.pc = "reading" /\ reply.nonce = "current" /\ reply.age <= Slack =>
        n <= Timeout + reply.age

HeartbeatInv ==
    /\ TypeOK
    /\ cardOk => sinceCard = 0
    /\ bound => sinceBound = 0
    /\ request => client.pc = "sent"
    /\ \A w \in Workers : Handled(w)
    /\ answers # {} => client.pc = "sent" /\ Recent(sinceCard) /\ Recent(sinceBound)
    /\ Read(sinceCard) /\ Read(sinceBound)
    /\ RenewalIsRecent

ClientStates ==
    [pc: {"core", "asleep", "connecting", "sent", "reading", "stopped"},
     timer: Nat, every: 0..MaxSleep, renewed: BOOLEAN]

LEMMA Numbers ==
    /\ MinInterval \in Nat /\ MaxInterval \in Nat /\ Timeout \in Nat /\ MaxSleep \in Nat
    /\ MinInterval >= 1 /\ Timeout >= 1 /\ MinInterval <= MaxInterval
    /\ MaxInterval <= MaxSleep
    /\ Window \in Nat /\ Skews \subseteq Int
    /\ \A o \in Overrides : o \in 0..MaxSleep
    /\ Intervals = MinInterval..MaxInterval
BY HeartbeatAssumption DEF Intervals

\* What the invariant says of numbers.
LEMMA Measures ==
    ASSUME TypeOK
    PROVE  /\ skew \in Int /\ Slack \in Nat /\ Grace = Timeout + Slack + MaxSleep
           /\ sinceCard \in Nat /\ sinceBound \in Nat
           /\ sinceCard <= Grace + 1 /\ sinceBound <= Grace + 1
           /\ client \in ClientStates /\ reply.age \in Nat
           /\ client.pc \in {"connecting", "sent", "reading"} => client.timer <= Timeout
           /\ client.pc \notin {"connecting", "sent", "reading"} =>
                 client.timer <= client.every
           /\ Nothing \in [nonce: {"current", "old", "none"}, age: 0..(Slack + 1),
                           next: MinInterval..MaxInterval]
<1>1. skew \in Int
  BY Numbers DEF TypeOK
<1>2. Slack \in Nat
  BY <1>1, Numbers DEF Slack
<1>3. Grace = Timeout + Slack + MaxSleep /\ Grace \in Nat
  BY <1>2, Numbers DEF Grace
<1>4. sinceCard \in 0..(Grace + 1) /\ sinceBound \in 0..(Grace + 1)
  BY DEF TypeOK
<1>5. client \in ClientStates
  BY DEF TypeOK, ClientStates
<1>6. reply.age \in 0..(Slack + 1)
  BY DEF TypeOK
<1>7. client.timer <= IF Waiting THEN Timeout ELSE client.every
  BY DEF TypeOK
<1>8. Nothing \in [nonce: {"current", "old", "none"}, age: 0..(Slack + 1),
                   next: MinInterval..MaxInterval]
  BY <1>2, Numbers DEF Nothing
<1> QED BY <1>1, <1>2, <1>3, <1>4, <1>5, <1>6, <1>7, <1>8 DEF Waiting

LEMMA HeartbeatInit == Init => HeartbeatInv
<1> SUFFICES ASSUME Init PROVE HeartbeatInv
  OBVIOUS
<1>1. /\ client.pc = "core" /\ client.timer = 0 /\ client.every = 0 /\ client \in ClientStates
  BY Numbers DEF Init, At, ClientStates
<1>2. skew \in Int /\ Slack \in Nat /\ Grace \in Nat
  BY Numbers DEF Init, Slack, Grace
<1>3. reply \in [nonce: {"current", "old", "none"}, age: 0..(Slack + 1),
                 next: MinInterval..MaxInterval] /\ reply.nonce = "none"
  BY <1>2, Numbers DEF Init, Nothing
<1>4. 0 \in 0..(Grace + 1)
  BY <1>2
<1>5. TypeOK
  <2>1. client.timer <= IF Waiting THEN Timeout ELSE client.every
    BY <1>1 DEF Waiting
  <2>2. reply \in [nonce: {"current", "old", "none"}, age: 0..(Slack + 1),
                   next: MinInterval..MaxInterval]
    BY <1>3
  <2>3. answers \subseteq [age: 0..(Slack + 1), next: MinInterval..MaxInterval]
    BY DEF Init
  <2>4. worker \in [Workers -> {"idle", "card_read", "verified"}]
    BY DEF Init
  <2>5. sinceCard \in 0..(Grace + 1) /\ sinceBound \in 0..(Grace + 1)
    BY <1>4 DEF Init
  <2>6. skew \in Skews /\ override \in Overrides /\ cardOk \in BOOLEAN
        /\ bound \in BOOLEAN /\ request \in BOOLEAN
    BY DEF Init
  <2> QED BY <1>1, <2>1, <2>2, <2>3, <2>4, <2>5, <2>6 DEF TypeOK, ClientStates
<1> QED BY <1>1, <1>3, <1>5 DEF Init, HeartbeatInv, Handled, Read, RenewalIsRecent

-----------------------------------------------------------------------------
(* The client                                                              *)

\* The client goes on to where it has no answer in hand and no beat behind it.
LEMMA Elsewhere ==
    ASSUME HeartbeatInv, NEW c \in ClientStates, client' = c, c.pc # "sent", ~c.renewed,
           c.timer <= IF c.pc \in {"connecting", "reading"} THEN Timeout ELSE c.every,
           reply' \in [nonce: {"current", "old", "none"}, age: 0..(Slack + 1),
                       next: MinInterval..MaxInterval],
           Read(sinceCard)', Read(sinceBound)',
           (client.pc # "sent" /\ UNCHANGED <<network, worker>>) \/ Over,
           UNCHANGED <<world, history>>
    PROVE  HeartbeatInv'
<1>1. ~request' /\ answers' = {} /\ \A w \in Workers : worker'[w] = "idle"
  BY DEF HeartbeatInv, Handled, Over, network
<1>2. worker' \in [Workers -> {"idle", "card_read", "verified"}]
  BY DEF HeartbeatInv, TypeOK, Over
<1>3. Slack' = Slack /\ Grace' = Grace
  BY DEF Slack, Grace, world
<1>4. request' \in BOOLEAN
  BY DEF HeartbeatInv, TypeOK, Over, network
<1>5. TypeOK'
  BY <1>1, <1>2, <1>3, <1>4 DEF HeartbeatInv, TypeOK, ClientStates, Waiting, world, history
<1> QED BY <1>1, <1>5 DEF HeartbeatInv, Handled, RenewalIsRecent, world, history

LEMMA StopState == At("stopped", 0) \in ClientStates
BY Numbers DEF At, ClientStates

LEMMA SleepState ==
    ASSUME TypeOK, NEW next \in MinInterval..MaxInterval, NEW renewed \in BOOLEAN,
           Sleep(next, renewed)
    PROVE  /\ client' \in ClientStates /\ client'.pc = "asleep"
           /\ client'.timer = client'.every /\ client'.renewed = renewed
<1>1. Every(next) \in 0..MaxSleep
  BY Numbers DEF Every, TypeOK
<1> QED BY <1>1, Numbers DEF Sleep, ClientStates

LEMMA CoreReturnsStep == ASSUME HeartbeatInv, CoreReturns PROVE HeartbeatInv'
<1>1. client.pc = "core" /\ UNCHANGED <<world, reply, network, worker, history>>
  BY DEF CoreReturns
<1>2. CASE Stop
  BY <1>1, <1>2, StopState, Elsewhere DEF Stop, At, Read, HeartbeatInv, TypeOK
<1>3. ASSUME NEW next \in Intervals, Sleep(next, FALSE) PROVE HeartbeatInv'
  <2>1. /\ client' \in ClientStates /\ client'.pc = "asleep"
        /\ client'.timer = client'.every /\ ~client'.renewed
    BY <1>3, SleepState, Numbers DEF HeartbeatInv
  <2>2. client'.timer <= client'.every
    BY <2>1 DEF ClientStates
  <2> QED BY <1>1, <2>1, <2>2, Elsewhere DEF Read, HeartbeatInv, TypeOK
<1> QED BY <1>2, <1>3 DEF CoreReturns

LEMMA ConnectStep == ASSUME HeartbeatInv, Beat \/ Progress PROVE HeartbeatInv'
<1>1. /\ client' = At(client'.pc, Timeout) /\ client'.pc \in {"connecting", "reading"}
      /\ client.pc # "sent" /\ UNCHANGED <<world, reply, network, worker, history>>
      /\ client'.pc = "reading" => client.pc = "reading"
  BY DEF Beat, Progress, At
<1>2. /\ At(client'.pc, Timeout) \in ClientStates /\ client'.timer = Timeout
      /\ ~client'.renewed
  BY <1>1, Numbers DEF At, ClientStates
<1>3. Read(sinceCard)' /\ Read(sinceBound)'
  BY <1>1 DEF HeartbeatInv, Read, Slack, world, history
<1> QED BY <1>1, <1>2, <1>3, Numbers, Elsewhere DEF HeartbeatInv, TypeOK

LEMMA SendStep == ASSUME HeartbeatInv, Send PROVE HeartbeatInv'
<1>1. /\ client'.pc = "sent" /\ client'.timer = Timeout /\ ~client'.renewed
      /\ client' \in ClientStates
  BY Numbers DEF Send, At, ClientStates
<1>2. answers' = {} /\ \A w \in Workers : worker'[w] = "idle"
  BY DEF Send, HeartbeatInv, Handled
<1>3. Slack' = Slack /\ Grace' = Grace
  BY DEF Send, Slack, Grace, world
<1>4. TypeOK'
  BY <1>1, <1>2, <1>3, Numbers
     DEF Send, HeartbeatInv, TypeOK, ClientStates, Waiting, world, history
<1> QED BY <1>1, <1>2, <1>4 DEF Send, HeartbeatInv, Handled, Read, RenewalIsRecent, world, history

LEMMA FirstBytesStep == ASSUME HeartbeatInv, FirstBytes PROVE HeartbeatInv'
<1>1. /\ client' = At("reading", Timeout) /\ client.pc = "sent"
      /\ Over /\ UNCHANGED <<world, history>>
  BY DEF FirstBytes
<1>2. At("reading", Timeout) \in ClientStates /\ client'.timer = Timeout /\ ~client'.renewed
      /\ client'.pc = "reading"
  BY <1>1, Numbers DEF At, ClientStates
<1>3. Slack \in Nat /\ Slack' = Slack
  BY <1>1, Measures DEF HeartbeatInv, Slack, world
<1>4. /\ reply' \in [nonce: {"current", "old", "none"}, age: 0..(Slack + 1),
                     next: MinInterval..MaxInterval]
      /\ Read(sinceCard)' /\ Read(sinceBound)'
  <2> DEFINE Kept ==
         /\ reply' \in [nonce: {"current", "old", "none"}, age: 0..(Slack + 1),
                        next: MinInterval..MaxInterval]
         /\ Read(sinceCard)' /\ Read(sinceBound)'
  <2>1. ASSUME NEW a \in answers,
               reply' = [nonce |-> "current", age |-> a.age, next |-> a.next]
        PROVE  Kept
    <3>1. a \in [age: 0..(Slack + 1), next: MinInterval..MaxInterval]
      BY DEF HeartbeatInv, TypeOK
    <3>2. Recent(sinceCard) /\ Recent(sinceBound)
      BY DEF HeartbeatInv
    <3>3. /\ client.timer \in Nat /\ sinceCard \in Nat /\ sinceBound \in Nat
          /\ sinceCard' = sinceCard /\ sinceBound' = sinceBound
      BY <1>1, Measures DEF HeartbeatInv, ClientStates, history
    <3> QED BY <1>3, <2>1, <3>1, <3>2, <3>3, Numbers DEF Read, Recent
  <2>2. ASSUME NEW next \in Intervals, reply' = [nonce |-> "old", age |-> 0, next |-> next]
        PROVE  Kept
    BY <1>3, <2>2, Numbers DEF Read
  <2>3. ASSUME reply' = Nothing PROVE Kept
    BY <1>3, <2>3, Numbers DEF Read, Nothing
  <2> QED BY <2>1, <2>2, <2>3 DEF FirstBytes
<1> QED BY <1>1, <1>2, <1>4, Numbers, Elsewhere

\* The client gives up: nothing is kept.
LEMMA StopStep ==
    ASSUME HeartbeatInv, Stop, reply' = Nothing,
           (client.pc # "sent" /\ UNCHANGED <<network, worker>>) \/ Over,
           UNCHANGED <<world, history>>
    PROVE  HeartbeatInv'
<1>1. /\ At("stopped", 0).pc = "stopped" /\ At("stopped", 0).timer = 0
      /\ At("stopped", 0).every = 0 /\ ~At("stopped", 0).renewed
  BY DEF At
<1>2. Read(sinceCard)' /\ Read(sinceBound)'
  BY <1>1 DEF Read, Stop
<1> QED BY <1>1, <1>2, StopState, Measures, Elsewhere DEF Stop, HeartbeatInv

\* An accepted answer is in the window, so its age bounds that of the licence.
LEMMA ReceiveStep == ASSUME HeartbeatInv, Receive PROVE HeartbeatInv'
<1>1. client.pc = "reading" /\ reply' = Nothing
      /\ UNCHANGED <<world, network, worker, history>>
  BY DEF Receive
<1>2. CASE Stop
  BY <1>1, <1>2, StopStep
<1>3. CASE Accepted(reply) /\ Sleep(reply.next, TRUE)
  <2>1. /\ client' \in ClientStates /\ client'.pc = "asleep"
        /\ client'.timer = client'.every /\ client'.renewed
    BY <1>3, SleepState DEF HeartbeatInv, TypeOK
  <2>2. /\ skew \in Int /\ Window \in Nat /\ Slack \in Nat /\ reply.age \in Nat
        /\ sinceCard \in Nat /\ sinceBound \in Nat /\ Timeout \in Nat
    BY Measures, Numbers DEF HeartbeatInv
  <2>3. reply.age <= Slack
    BY <1>3, <2>2 DEF Accepted, InWindow, Slack
  <2>4. sinceCard <= Timeout + Slack /\ sinceBound <= Timeout + Slack
    BY <1>1, <1>3, <2>2, <2>3 DEF HeartbeatInv, Read, Accepted
  <2>5. Slack' = Slack /\ Grace' = Grace
    BY <1>1 DEF Slack, Grace, world
  <2>6. client'.every \in Nat /\ client'.every - client'.timer = 0
    BY <2>1, Numbers DEF ClientStates
  <2>7. RenewalIsRecent'
    BY <1>1, <2>2, <2>4, <2>5, <2>6 DEF RenewalIsRecent, history
  <2>8. ~request /\ answers = {} /\ \A w \in Workers : worker[w] = "idle"
    BY <1>1 DEF HeartbeatInv, Handled
  <2>9. TypeOK'
    <3>1. client'.timer <= client'.every
      BY <2>1, <2>6
    <3> QED BY <1>1, <2>1, <2>5, <3>1, Measures
            DEF HeartbeatInv, TypeOK, ClientStates, Waiting, world, network, history
  <2> QED BY <1>1, <2>1, <2>7, <2>8, <2>9 DEF HeartbeatInv, Handled, Read, world, network, history
<1> QED BY <1>2, <1>3 DEF Receive

LEMMA ClientKeeps == ASSUME HeartbeatInv, ClientStep PROVE HeartbeatInv'
<1>1. CASE Refused \/ TimedOut
  BY <1>1, StopStep DEF Refused, TimedOut
<1> QED BY <1>1, CoreReturnsStep, ConnectStep, SendStep, FirstBytesStep, ReceiveStep
        DEF ClientStep

-----------------------------------------------------------------------------
(* The server                                                              *)

LEMMA NowIsRecent == ASSUME HeartbeatInv, client.pc = "sent" PROVE Recent(0)
BY Measures, Numbers DEF HeartbeatInv, Recent, ClientStates

\* One thread goes on with what it may know, and nothing else changes.
LEMMA WorkerStep ==
    ASSUME HeartbeatInv, NEW w \in Workers, NEW r \in {"idle", "card_read", "verified"},
           worker' = [worker EXCEPT ![w] = r], Handled(w)',
           answers' \subseteq [age: 0..(Slack + 1), next: MinInterval..MaxInterval],
           answers' # {} => client.pc = "sent" /\ Recent(sinceCard) /\ Recent(sinceBound),
           UNCHANGED <<world, client, reply, request, history>>
    PROVE  HeartbeatInv'
<1>1. Slack' = Slack /\ Grace' = Grace
  BY DEF Slack, Grace, world
<1>2. TypeOK'
  BY <1>1 DEF HeartbeatInv, TypeOK, Waiting, world, history
<1>3. ASSUME NEW v \in Workers PROVE Handled(v)'
  <2>1. CASE v # w
    BY <2>1 DEF HeartbeatInv, TypeOK, Handled, Recent, history
  <2> QED BY <2>1
<1>4. RenewalIsRecent' /\ Read(sinceCard)' /\ Read(sinceBound)'
  BY <1>1 DEF HeartbeatInv, RenewalIsRecent, Read, history
<1> QED BY <1>2, <1>3, <1>4 DEF HeartbeatInv, Recent, world, history

LEMMA ServerKeeps == ASSUME HeartbeatInv, ServerStep PROVE HeartbeatInv'
<1>1. ASSUME NEW w \in Workers, ReadCard(w) PROVE HeartbeatInv'
  <2>1. /\ worker' = [worker EXCEPT ![w] = "card_read"] /\ worker'[w] = "card_read"
        /\ UNCHANGED <<world, client, reply, network, history>>
    BY <1>1 DEF ReadCard, HeartbeatInv, TypeOK
  <2>2. client.pc = "sent" /\ Recent(sinceCard)
    BY <1>1, NowIsRecent DEF ReadCard, HeartbeatInv
  <2>3. Handled(w)'
    BY <2>1, <2>2 DEF Handled, Recent, history
  <2> QED BY <2>1, <2>3, WorkerStep DEF HeartbeatInv, TypeOK, network
<1>2. ASSUME NEW w \in Workers, ReadBinding(w) PROVE HeartbeatInv'
  <2> DEFINE r == IF bound THEN "verified" ELSE "idle"
  <2>1. /\ worker' = [worker EXCEPT ![w] = r] /\ worker'[w] = r
        /\ r \in {"idle", "card_read", "verified"}
        /\ UNCHANGED <<world, client, reply, network, history>>
    BY <1>2 DEF ReadBinding, HeartbeatInv, TypeOK
  <2>2. client.pc = "sent" /\ Recent(sinceCard)
    BY <1>2 DEF ReadBinding, HeartbeatInv, Handled
  <2>3. r = "verified" => Recent(sinceBound)
    BY <2>2, NowIsRecent DEF HeartbeatInv
  <2> HIDE DEF r
  <2>4. Handled(w)'
    BY <2>1, <2>2, <2>3 DEF Handled, Recent, history
  <2> QED BY <2>1, <2>4, WorkerStep DEF HeartbeatInv, TypeOK, network
<1>3. ASSUME NEW w \in Workers, Sign(w) PROVE HeartbeatInv'
  <2>1. /\ worker' = [worker EXCEPT ![w] = "idle"] /\ worker'[w] = "idle"
        /\ UNCHANGED <<world, client, reply, request, history>>
    BY <1>3 DEF Sign, HeartbeatInv, TypeOK
  <2>2. client.pc = "sent" /\ Recent(sinceCard) /\ Recent(sinceBound)
    BY <1>3 DEF Sign, HeartbeatInv, Handled
  <2>3. PICK next \in MinInterval..MaxInterval :
            answers' = answers \cup {[age |-> 0, next |-> next]}
    BY <1>3, Numbers DEF Sign
  <2>4. [age |-> 0, next |-> next] \in [age: 0..(Slack + 1), next: MinInterval..MaxInterval]
    BY Measures DEF HeartbeatInv
  <2>5. answers' \subseteq [age: 0..(Slack + 1), next: MinInterval..MaxInterval]
    BY <2>3, <2>4 DEF HeartbeatInv, TypeOK
  <2>6. Handled(w)'
    BY <2>1 DEF Handled
  <2> QED BY <2>1, <2>2, <2>5, <2>6, WorkerStep
<1> QED BY <1>1, <1>2, <1>3 DEF ServerStep

-----------------------------------------------------------------------------
(* Administrators, the network, time                                       *)

\* The history of the card, or of the binding, starts again, the rest stays.
LEMMA HistoryStep ==
    ASSUME HeartbeatInv, UNCHANGED <<skew, override, client, reply, network, worker>>,
           cardOk' \in BOOLEAN, bound' \in BOOLEAN,
           sinceCard' \in {0, sinceCard}, sinceBound' \in {0, sinceBound},
           cardOk' => sinceCard' = 0, bound' => sinceBound' = 0
    PROVE  HeartbeatInv'
<1>1. Slack' = Slack /\ Grace' = Grace
  BY DEF Slack, Grace
<1>2. /\ sinceCard' \in Nat /\ sinceCard' <= sinceCard
      /\ sinceBound' \in Nat /\ sinceBound' <= sinceBound
      /\ sinceCard \in Nat /\ sinceBound \in Nat
      /\ Slack \in Nat /\ Timeout \in Nat /\ client \in ClientStates /\ reply.age \in Nat
  BY Measures, Numbers DEF HeartbeatInv
<1>3. sinceCard' \in 0..(Grace + 1) /\ sinceBound' \in 0..(Grace + 1)
  <2>1. sinceCard \in 0..(Grace + 1) /\ sinceBound \in 0..(Grace + 1)
    BY DEF HeartbeatInv, TypeOK
  <2>2. Grace \in Nat
    BY Measures, Numbers DEF HeartbeatInv
  <2>3. 0 \in 0..(Grace + 1)
    BY <2>2
  <2> QED BY <2>1, <2>3
<1>4. TypeOK'
  BY <1>1, <1>3 DEF HeartbeatInv, TypeOK, Waiting, network
<1>5. /\ Recent(sinceCard) => Recent(sinceCard)'
      /\ Recent(sinceBound) => Recent(sinceBound)'
  BY <1>2 DEF Recent, ClientStates
<1>6. Read(sinceCard)' /\ Read(sinceBound)'
  BY <1>1, <1>2 DEF HeartbeatInv, Read
<1>7. RenewalIsRecent'
  <2>1. client.every \in Nat /\ client.timer \in Nat
    BY <1>2, Numbers DEF ClientStates
  <2> QED BY <1>1, <1>2, <2>1 DEF HeartbeatInv, RenewalIsRecent
<1>8. \A w \in Workers : Handled(w)'
  BY <1>5 DEF HeartbeatInv, Handled
<1> QED BY <1>4, <1>5, <1>6, <1>7, <1>8 DEF HeartbeatInv, network

LEMMA LicenceStep == ASSUME HeartbeatInv, CardChanges \/ BindingChanges PROVE HeartbeatInv'
<1>1. /\ cardOk \in BOOLEAN /\ bound \in BOOLEAN
      /\ cardOk => sinceCard = 0
      /\ bound => sinceBound = 0
  BY DEF HeartbeatInv, TypeOK
<1>2. CASE CardChanges
  <2>1. cardOk' \in BOOLEAN /\ sinceCard' = 0 /\ UNCHANGED <<bound, sinceBound>>
        /\ UNCHANGED <<skew, override, client, reply, network, worker>>
    BY <1>1, <1>2 DEF CardChanges
  <2> QED BY <1>1, <2>1, HistoryStep
<1>3. CASE BindingChanges
  <2>1. bound' \in BOOLEAN /\ sinceBound' = 0 /\ UNCHANGED <<cardOk, sinceCard>>
        /\ UNCHANGED <<skew, override, client, reply, network, worker>>
    BY <1>1, <1>3 DEF BindingChanges
  <2> QED BY <1>1, <2>1, HistoryStep
<1> QED BY <1>2, <1>3

LEMMA LoseStep == ASSUME HeartbeatInv, Lose PROVE HeartbeatInv'
<1>1. answers' \subseteq answers /\ request' \in BOOLEAN /\ (request' => request)
  <2>1. CASE request /\ request' = FALSE /\ UNCHANGED answers
    BY <2>1
  <2>2. ASSUME NEW a \in answers, answers' = answers \ {a}, UNCHANGED request
        PROVE  answers' \subseteq answers /\ request' \in BOOLEAN /\ (request' => request)
    BY <2>2 DEF HeartbeatInv, TypeOK
  <2> QED BY <2>1, <2>2 DEF Lose
<1>2. UNCHANGED <<world, client, reply, worker, history>>
  BY DEF Lose
<1>3. Slack' = Slack /\ Grace' = Grace
  BY <1>2 DEF Slack, Grace, world
<1>4. TypeOK'
  BY <1>1, <1>2, <1>3 DEF HeartbeatInv, TypeOK, Waiting, world, history
<1> QED BY <1>1, <1>2, <1>3, <1>4
        DEF HeartbeatInv, Handled, Recent, Read, RenewalIsRecent, world, history

LEMMA OlderType ==
    ASSUME TypeOK, NEW age \in 0..(Slack + 1)
    PROVE  /\ Older(age) \in 0..(Slack + 1)
           /\ Older(age) <= Slack => Older(age) = age + 1
BY Measures DEF Older

\* A unit of time takes a unit off the timer, or adds one to the age of the
\* answer, and adds one at most to what is bounded by it.
LEMMA TickStep == ASSUME HeartbeatInv, Tick PROVE HeartbeatInv'
<1>0. Slack' = Slack /\ Grace' = Grace
  BY DEF Tick, Slack, Grace, world
<1>1. /\ sinceCard' \in 0..(Grace + 1) /\ sinceCard' <= sinceCard + 1
      /\ sinceBound' \in 0..(Grace + 1) /\ sinceBound' <= sinceBound + 1
      /\ sinceCard' \in Nat /\ sinceBound' \in Nat
  <2>1. \A n \in Nat : Cap(n + 1) \in 0..(Grace + 1) /\ Cap(n + 1) <= n + 1
    BY Measures, Numbers DEF Cap, HeartbeatInv
  <2>2. 0 \in 0..(Grace + 1)
    BY Measures, Numbers DEF HeartbeatInv
  <2> QED BY <2>1, <2>2, Measures DEF HeartbeatInv, Tick
<1>2. /\ sinceCard \in Nat /\ sinceBound \in Nat /\ Slack \in Nat /\ Timeout \in Nat
      /\ client \in ClientStates /\ client.timer \in Nat /\ client.every \in Nat
  BY Measures, Numbers DEF HeartbeatInv, ClientStates
<1>3. /\ client' \in ClientStates /\ client'.pc = client.pc
      /\ client'.every = client.every /\ client'.renewed = client.renewed
      /\ client'.timer \in Nat /\ client'.timer <= client.timer
      /\ client.pc \notin {"core", "stopped"} => client'.timer = client.timer - 1
  BY <1>2 DEF Tick, ClientStates
<1>4. /\ client.pc = "sent" /\ Recent(sinceCard) => Recent(sinceCard)'
      /\ client.pc = "sent" /\ Recent(sinceBound) => Recent(sinceBound)'
  BY <1>1, <1>2, <1>3 DEF Recent
<1>5. reply \in [nonce: {"current", "old", "none"}, age: 0..(Slack + 1),
                 next: MinInterval..MaxInterval]
  BY DEF HeartbeatInv, TypeOK
<1>6. reply' \in [nonce: {"current", "old", "none"}, age: 0..(Slack + 1),
                  next: MinInterval..MaxInterval]
  BY <1>5, OlderType DEF Tick, HeartbeatInv
<1>7. Read(sinceCard)' /\ Read(sinceBound)'
  <2> SUFFICES ASSUME client.pc = "reading", reply'.nonce = "current", reply'.age <= Slack
               PROVE  sinceCard' <= Timeout + reply'.age /\ sinceBound' <= Timeout + reply'.age
    BY <1>0, <1>3 DEF Read
  <2>1. reply'.nonce = reply.nonce /\ reply'.age = Older(reply.age)
    BY <1>5 DEF Tick
  <2>2. reply'.age = reply.age + 1 /\ reply.age \in Nat
    BY <1>2, <1>5, <2>1, OlderType DEF HeartbeatInv
  <2>3. sinceCard <= Timeout + reply.age /\ sinceBound <= Timeout + reply.age
    BY <1>2, <2>1, <2>2 DEF HeartbeatInv, Read
  <2> QED BY <1>1, <1>2, <2>2, <2>3
<1>8. RenewalIsRecent'
  <2> SUFFICES ASSUME client.pc = "asleep", client.renewed
               PROVE  /\ sinceCard' <= Timeout + Slack + (client'.every - client'.timer)
                      /\ sinceBound' <= Timeout + Slack + (client'.every - client'.timer)
    BY <1>0, <1>3 DEF RenewalIsRecent
  <2>1. /\ sinceCard <= Timeout + Slack + (client.every - client.timer)
        /\ sinceBound <= Timeout + Slack + (client.every - client.timer)
    BY DEF HeartbeatInv, RenewalIsRecent
  <2> QED BY <1>1, <1>2, <1>3, <2>1
<1>9. answers' \subseteq [age: 0..(Slack + 1), next: MinInterval..MaxInterval]
      /\ (answers' # {} => answers # {})
  <2>1. \A a \in answers : a \in [age: 0..(Slack + 1), next: MinInterval..MaxInterval]
    BY DEF HeartbeatInv, TypeOK
  <2>2. \A a \in answers : [a EXCEPT !.age = Older(@)] \in
                              [age: 0..(Slack + 1), next: MinInterval..MaxInterval]
    BY <2>1, OlderType DEF HeartbeatInv
  <2> QED BY <2>2 DEF Tick
<1>10. TypeOK'
  <2>1. client'.timer <= IF Waiting' THEN Timeout ELSE client'.every
    BY <1>2, <1>3, Measures DEF HeartbeatInv, Waiting
  <2> QED BY <1>0, <1>1, <1>3, <1>6, <1>9, <2>1
          DEF Tick, HeartbeatInv, TypeOK, ClientStates, world
<1>11. (cardOk' => sinceCard' = 0) /\ (bound' => sinceBound' = 0) /\ (request' => client'.pc = "sent")
  BY <1>3 DEF Tick, HeartbeatInv, world
<1>12. \A w \in Workers : Handled(w)'
  BY <1>3, <1>4 DEF Tick, HeartbeatInv, Handled
<1> QED BY <1>3, <1>4, <1>7, <1>8, <1>9, <1>10, <1>11, <1>12 DEF HeartbeatInv

-----------------------------------------------------------------------------
LEMMA HeartbeatNext == HeartbeatInv /\ [Next]_vars => HeartbeatInv'
<1> SUFFICES ASSUME HeartbeatInv, [Next]_vars PROVE HeartbeatInv'
  OBVIOUS
<1>1. CASE UNCHANGED vars
  BY <1>1 DEF vars, HeartbeatInv, TypeOK, Waiting, Slack, Grace, Recent, Handled, Read,
              RenewalIsRecent
<1> QED BY <1>1, ClientKeeps, ServerKeeps, LicenceStep, LoseStep, TickStep DEF Next

\* Timers, answers and the heartbeats in hand stay within their bounds.
THEOREM HeartbeatTypes == Spec => []TypeOK
<1>1. HeartbeatInv => TypeOK
  BY DEF HeartbeatInv
<1> QED BY HeartbeatInit, HeartbeatNext, <1>1, PTL DEF Spec

\* Whatever the network does, however slowly answers come in and whenever the
\* card or the binding goes, an accepted beat rests on a card and a binding
\* that were good a timeout, the window and the difference of the clocks before
\* (heartbeat_once).
THEOREM RenewalsAreRecent == Spec => []RenewalIsRecent
<1>1. HeartbeatInv => RenewalIsRecent
  BY DEF HeartbeatInv
<1> QED BY HeartbeatInit, HeartbeatNext, <1>1, PTL DEF Spec

=============================================================================
