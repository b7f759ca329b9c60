----------------------------- MODULE Heartbeat -----------------------------
(***************************************************************************)
(* A client that renews its licence by heartbeats, the server that answers *)
(* them, and the network between them.                                     *)
(*                                                                         *)
(* The client runs its core to the end and then beats: it sleeps for the   *)
(* interval it was given, sends a request with a fresh nonce and reads the *)
(* answer.  Timeout is that of urlopen and holds for each operation of the *)
(* socket, not for the exchange: while connections are tried or bytes come *)
(* in, however slowly, the client waits.  Only between the request and the *)
(* first bytes of an answer there is one operation; these bytes come when  *)
(* the server has signed, or are not of an answer to this request.         *)
(* Whatever is not a current, valid answer to this request stops the       *)
(* client.  The server decides in two reads, of the card and of the        *)
(* binding, either of which may change between them.  The network loses,   *)
(* delays, duplicates and reorders requests and answers, and may deliver   *)
(* an old answer again.                                                    *)
(*                                                                         *)
(* Clocks are relative, so that the model has no end of time: a timer for  *)
(* the client, an age for each answer, and for the card and the binding    *)
(* the time since they were last good.  Of nonces it matters only whether  *)
(* one is the current request's or an earlier one's.  Of earlier requests  *)
(* nothing is kept: answers to them may arrive at any time.                *)
(***************************************************************************)
EXTENDS Integers

CONSTANTS
    MinInterval, MaxInterval,  \* what the server draws `next' from
    Overrides,                 \* what --interval may be, 0 for the server's choice
    MaxSleep,                  \* bound: the longest sleep
    Timeout,                   \* of each socket operation (10 seconds)
    Window,                    \* oldest answer the client accepts (120 seconds)
    Skews,                     \* server clock minus client clock
    Workers                    \* threads of the server

ASSUME HeartbeatAssumption ==
    /\ MinInterval \in Nat \ {0} /\ MaxInterval \in Nat /\ MinInterval <= MaxInterval
    /\ MaxSleep \in Nat /\ MaxInterval <= MaxSleep /\ Overrides \subseteq 0..MaxSleep
    /\ Timeout \in Nat \ {0} /\ Window \in Nat
    /\ Skews \subseteq Int

VARIABLES
    skew,      \* the server's clock minus the client's
    override,  \* the --interval the client was started with
    cardOk,    \* the card is active and has not expired
    bound,     \* the machine is bound to it
    client,    \* program counter, timer, the sleep it is in, whether a beat gave it
    reply,     \* what the client is reading
    request,   \* the current request is on the network
    answers,   \* signed answers to it: age and next interval
    worker,    \* server thread |-> how far it is with it
    sinceCard, sinceBound  \* history: time since the card, the binding was good

vars == <<skew, override, cardOk, bound, client, reply, request, answers,
          worker, sinceCard, sinceBound>>

world   == <<skew, override, cardOk, bound>>
history == <<sinceCard, sinceBound>>
network == <<request, answers>>

\* How old an answer may be when the client accepts it, by the server's clock
\* read against the client's.
Slack == IF Window + skew < 0 THEN 0 ELSE Window + skew

\* bound: answers grow no older, the history counts no further.
Older(age) == IF age > Slack THEN age ELSE age + 1
Grace == Timeout + Slack + MaxSleep
Cap(n) == IF n > Grace THEN Grace + 1 ELSE n

\* Mutation: the draw goes one past the maximum.
IntervalsPastMax == MinInterval..(MaxInterval + 1)

Intervals == MinInterval..MaxInterval

-----------------------------------------------------------------------------
(* examples/client.py                                                      *)

At(pc, timer) == [pc |-> pc, timer |-> timer, every |-> 0, renewed |-> FALSE]

Stop == client' = At("stopped", 0)

\* `interval or next'
Every(next) == IF override # 0 THEN override ELSE next

Sleep(next, renewed) ==
    client' = [pc |-> "asleep", timer |-> Every(next), every |-> Every(next),
               renewed |-> renewed]

\* No answer, or one that is neither signed nor valid.
Nothing == [nonce |-> "none", age |-> 0, next |-> MinInterval]

\* The whole core has run.  Without --beats this is the end; with it comes the
\* first sleep, for the interval the session handshake brought.
CoreReturns ==
    /\ client.pc = "core"
    /\ Stop \/ \E next \in Intervals : Sleep(next, FALSE)
    /\ UNCHANGED <<world, reply, network, worker, history>>

\* The client takes no further answer to its request: what is still under way
\* is for one that is over.
Over ==
    /\ request' = FALSE /\ answers' = {}
    /\ worker' = [w \in Workers |-> "idle"]

\* Sleeping ends, and a request is made with a fresh nonce.
Beat ==
    /\ client.pc = "asleep" /\ client.timer = 0
    /\ client' = At("connecting", Timeout)
    /\ UNCHANGED <<world, reply, network, worker, history>>

\* One socket operation ends and the next begins: another address is tried,
\* more bytes of the answer are there.
Progress ==
    /\ client.pc \in {"connecting", "reading"}
    /\ client' = At(client.pc, Timeout)
    /\ UNCHANGED <<world, reply, network, worker, history>>

\* The request is out, and the client waits for the first bytes.
Send ==
    /\ client.pc = "connecting"
    /\ client' = At("sent", Timeout)
    /\ request' = TRUE
    /\ UNCHANGED <<world, reply, answers, worker, history>>

\* The first bytes of an answer to this request, of an earlier answer delivered
\* again, of a refusal or an error.
FirstBytes ==
    /\ client.pc = "sent"
    /\ client' = At("reading", Timeout)
    /\ \/ \E a \in answers : reply' = [nonce |-> "current", age |-> a.age, next |-> a.next]
       \/ \E next \in Intervals : reply' = [nonce |-> "old", age |-> 0, next |-> next]
       \/ reply' = Nothing
    /\ Over
    /\ UNCHANGED <<world, history>>

\* Mutation: the age of an answer is not looked at.
AnyAge(age) == TRUE

\* The time check of heartbeat_once, between the two clocks.
InWindow(age) == skew - age <= Window /\ age - skew <= Window

\* The sealed box and the nonce each tie an answer to its request.
Accepted(r) == r.nonce = "current" /\ InWindow(r.age)

\* The answer is complete.  The loop goes on, or this was the last of the beats.
Receive ==
    /\ client.pc = "reading"
    /\ \/ Accepted(reply) /\ Sleep(reply.next, TRUE)
       \/ Stop
    /\ reply' = Nothing
    /\ UNCHANGED <<world, network, worker, history>>

Waiting == client.pc \in {"connecting", "sent", "reading"}

\* The connection fails.
Refused ==
    /\ Waiting /\ Stop /\ Over
    /\ reply' = Nothing
    /\ UNCHANGED <<world, history>>

\* A socket operation has lasted for Timeout.
TimedOut ==
    /\ Waiting /\ client.timer = 0 /\ Stop /\ Over
    /\ reply' = Nothing
    /\ UNCHANGED <<world, history>>

-----------------------------------------------------------------------------
(* _do_heartbeat and verify                                                *)

\* A request arrives, for the first or another time: the card is read.
ReadCard(w) ==
    /\ worker[w] = "idle" /\ request
    /\ cardOk  \* otherwise it is refused
    /\ worker' = [worker EXCEPT ![w] = "card_read"]
    /\ UNCHANGED <<world, client, reply, network, history>>

\* Mutation: the binding is not looked up.
SignUnbound(w) ==
    /\ worker[w] = "card_read"
    /\ worker' = [worker EXCEPT ![w] = "verified"]
    /\ UNCHANGED <<world, client, reply, network, history>>

ReadBinding(w) ==
    /\ worker[w] = "card_read"
    /\ worker' = [worker EXCEPT ![w] = IF bound THEN "verified" ELSE "idle"]
    /\ UNCHANGED <<world, client, reply, network, history>>

\* The answer carries the nonce, the server's time and the next interval.
Sign(w) ==
    /\ worker[w] = "verified"
    /\ \E next \in Intervals : answers' = answers \cup {[age |-> 0, next |-> next]}
    /\ worker' = [worker EXCEPT ![w] = "idle"]
    /\ UNCHANGED <<world, client, reply, request, history>>

-----------------------------------------------------------------------------
(* Administrators, expiry, the network, time.                              *)

\* A ban, an unban, a reset, an expiry, an extension.
CardChanges ==
    /\ cardOk' = ~cardOk
    /\ sinceCard' = 0
    /\ UNCHANGED <<skew, override, bound, client, reply, network, worker, sinceBound>>

\* An unbinding, a binding.
BindingChanges ==
    /\ bound' = ~bound
    /\ sinceBound' = 0
    /\ UNCHANGED <<skew, override, cardOk, client, reply, network, worker, sinceCard>>

\* A request or an answer is lost, or the last copy of it was delivered.
Lose ==
    /\ \/ request /\ request' = FALSE /\ UNCHANGED answers
       \/ \E a \in answers : answers' = answers \ {a} /\ UNCHANGED request
    /\ UNCHANGED <<world, client, reply, worker, history>>

\* Time passes, but never past the client's own deadline.
Tick ==
    /\ client.pc \in {"core", "stopped"} \/ client.timer > 0
    /\ client' = [client EXCEPT !.timer = IF @ = 0 THEN 0 ELSE @ - 1]
    /\ reply' = IF client.pc = "reading" THEN [reply EXCEPT !.age = Older(@)] ELSE reply
    /\ answers' = {[a EXCEPT !.age = Older(@)] : a \in answers}
    /\ sinceCard' = IF cardOk THEN 0 ELSE Cap(sinceCard + 1)
    /\ sinceBound' = IF bound THEN 0 ELSE Cap(sinceBound + 1)
    /\ UNCHANGED <<world, request, worker>>

-----------------------------------------------------------------------------
\* The session handshake has succeeded, and the core is about to run.
Init ==
    /\ skew \in Skews /\ override \in Overrides
    /\ cardOk = TRUE /\ bound = TRUE
    /\ client = At("core", 0) /\ reply = Nothing
    /\ request = FALSE /\ answers = {}
    /\ worker = [w \in Workers |-> "idle"]
    /\ sinceCard = 0 /\ sinceBound = 0

ClientStep ==
    CoreReturns \/ Beat \/ Progress \/ Send \/ FirstBytes \/ Receive \/ Refused \/ TimedOut
ServerStep == \E w \in Workers : ReadCard(w) \/ ReadBinding(w) \/ Sign(w)

Next == ClientStep \/ ServerStep \/ CardChanges \/ BindingChanges \/ Lose \/ Tick

\* Time passes, a client whose sleep is over beats, and a socket operation that
\* has lasted for Timeout ends.  Nothing is assumed of the server or the
\* network, nor that the core returns.
Fairness == WF_vars(Tick) /\ WF_vars(Beat) /\ WF_vars(TimedOut)

Spec == Init /\ [][Next]_vars /\ Fairness

-----------------------------------------------------------------------------
TypeOK ==
    /\ skew \in Skews /\ override \in Overrides /\ cardOk \in BOOLEAN /\ bound \in BOOLEAN
    /\ client \in [pc: {"core", "asleep", "connecting", "sent", "reading", "stopped"},
                   timer: Nat, every: 0..MaxSleep, renewed: BOOLEAN]
    /\ client.timer <= IF Waiting THEN Timeout ELSE client.every
    /\ reply \in [nonce: {"current", "old", "none"}, age: 0..(Slack + 1),
                  next: MinInterval..MaxInterval]
    /\ request \in BOOLEAN
    /\ answers \subseteq [age: 0..(Slack + 1), next: MinInterval..MaxInterval]
    /\ worker \in [Workers -> {"idle", "card_read", "verified"}]
    /\ sinceCard \in 0..(Grace + 1) /\ sinceBound \in 0..(Grace + 1)

\* A beat that the client accepted speaks for a licence that was good a short
\* while ago, however long the exchange took: card and binding were good one
\* socket timeout (until the first bytes) and the window of the time stamp (for
\* the rest) before it was accepted, and the sleep it gave adds no more than it
\* lasts.  This needs all of nonce, time stamp and timeout, over both reads of
\* the server and clocks that differ.  How long the client then waits in its
\* next exchange, or ran its core before the first, nothing bounds.
RenewalIsRecent ==
    LET slept == client.every - client.timer IN
    client.pc = "asleep" /\ client.renewed =>
        /\ sinceCard <= Timeout + Slack + slept
        /\ sinceBound <= Timeout + Slack + slept

\* A client whose card stays revoked, or whose machine stays unbound, stops,
\* unless its core never returns or it waits for ever on connections that are
\* tried one after another or an answer that trickles in.
RevocationStops ==
    /\ <>[]~cardOk \/ <>[]~bound
    /\ []<>(client.pc \notin {"core", "connecting", "reading"})
    => <>(client.pc = "stopped")
=============================================================================
