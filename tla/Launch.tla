------------------------------- MODULE Launch -------------------------------
(***************************************************************************)
(* One launch after another of a protected program: the client asks the    *)
(* service for a session, the service activates the card, delivers the     *)
(* payload key of the card's application, and the client decrypts the core *)
(* with it and runs it.                                                    *)
(*                                                                         *)
(* Meanwhile the service stops and starts with its key files (KeyFiles),   *)
(* cards and applications change, payload keys are rotated and the core is *)
(* encrypted anew and distributed.  Requests and replies may be lost, late *)
(* or repeated.  A key is a pair: whose it is, and which of its versions.  *)
(***************************************************************************)
EXTENDS KeyFiles

CONSTANTS
    Apps, Software,  \* applications; the one whose core the client has
    Server,          \* the process that serves
    Launches,        \* bound: launches with messages under way
    MaxVersion       \* bound: versions of a payload key

ASSUME LaunchAssumption ==
    /\ Software \in Apps /\ Server \in Procs
    /\ MaxVersion \in Nat \ {0}
    /\ Null \notin Apps /\ Null \notin Launches

Sign == 1
Box == 2
Payload == 3

PayloadKey == ((Apps \cup {Null}) \X (1..MaxVersion)) \cup ({Null} \X (Key \cup {Empty}))

ASSUME NullAssumption == Null \notin PayloadKey

VARIABLES
    app,     \* application |-> active or not, version of its payload key
    card,    \* the card's application, valid or not, this machine bound, room left
    core,    \* the key the client's core.enc is encrypted with, Null without one
    tool,    \* the key `protect encrypt' works with, or Null
    client,  \* the launch in progress
    wire,    \* requests and replies under way
    serving  \* the request the service has activated the card for, or Null

launchvars == <<app, card, core, tool, client, wire, serving>>
vars == <<keyvars, launchvars>>

Card   == [app: Apps \cup {Null}, valid: BOOLEAN, bound: BOOLEAN, room: BOOLEAN]
Ask    == [launch: Launches, box: Key, app: {Software, Null}]
Reply  == [launch: Launches, ok: BOOLEAN, signer: Key \cup {Null},
           key: PayloadKey \cup {Null}]
Client == [pc: {"off", "wait", "decrypt", "running"}, launch: Launches \cup {Null},
           pins: [sign: Key, box: Key] \cup {Null},
           key: PayloadKey \cup {Null}, since: 0..MaxVersion]

Resting(pins) == [pc |-> "off", launch |-> Null, pins |-> pins, key |-> Null, since |-> 0]

Up == proc[Server].pc = "up"

-----------------------------------------------------------------------------
(* The client: run                                                         *)

\* Mutation: the ephemeral keys and the nonce of the first launch are used again.
SameLaunch(n) == n = CHOOSE m \in Launches : TRUE

\* Fresh keys and a fresh nonce: nothing under way belongs to them.
NewLaunch(n) ==
    /\ \A m \in wire : m.launch # n
    /\ serving # Null => serving.launch # n

\* /pubkey, at a launch whose client has no keys embedded.
FetchKeys ==
    /\ client.pc = "off" /\ client.pins = Null
    /\ Up /\ Usable(Sign) /\ Usable(Box)
    /\ client' = Resting([sign |-> file[Sign], box |-> file[Box]])
    /\ UNCHANGED <<keyvars, app, card, core, tool, wire, serving>>

CardVersion == IF card.app = Null THEN 0 ELSE app[card.app].version

\* The session request goes out, with or without the app_key to cross-check.
SendRequest ==
    /\ client.pc = "off" /\ client.pins # Null
    /\ \E n \in Launches, a \in {Software, Null} :
          /\ NewLaunch(n)
          /\ wire' = wire \cup {[launch |-> n, box |-> client.pins.box, app |-> a]}
          /\ client' = [client EXCEPT !.pc = "wait", !.launch = n, !.since = CardVersion]
    /\ UNCHANGED <<keyvars, app, card, core, tool, serving>>

\* open_reply has the key of this launch's request only.
Opens(m) == m \in Reply /\ m.launch = client.launch

\* open_session_response: signed by the pinned key over this launch's own
\* public key and nonce.
Verifies(m) == m.signer = client.pins.sign /\ m.launch = client.launch

\* Mutation: nothing of the launch is forgotten.
EndOnly == client' = [client EXCEPT !.pc = "off"]

\* A client without embedded keys fetches them with each launch.
EndLaunch ==
    \E pins \in {client.pins, Null} : client' = Resting(pins)

TakeReply ==
    /\ client.pc = "wait"
    /\ \E m \in wire :
          /\ Opens(m)
          /\ \/ /\ m.ok /\ Verifies(m)
                /\ client' = [client EXCEPT !.pc = "decrypt", !.key = m.key]
             \/ ~(m.ok /\ Verifies(m)) /\ EndLaunch
    /\ UNCHANGED <<keyvars, app, card, core, tool, wire, serving>>

\* A socket operation lasts longer than its timeout, or the connection fails.
TimeOut ==
    /\ client.pc = "wait" /\ EndLaunch
    /\ UNCHANGED <<keyvars, app, card, core, tool, wire, serving>>

\* The core opens with the key it was encrypted with.
Decrypt ==
    /\ client.pc = "decrypt"
    /\ \/ core = client.key /\ client' = [client EXCEPT !.pc = "running"]
       \/ core # client.key /\ EndLaunch
    /\ UNCHANGED <<keyvars, app, card, core, tool, wire, serving>>

\* The program ends, by itself or at a heartbeat (see Heartbeat).
Quit ==
    /\ client.pc = "running" /\ EndLaunch
    /\ UNCHANGED <<keyvars, app, card, core, tool, wire, serving>>

-----------------------------------------------------------------------------
(* The service: api_secure and _do_session                                 *)

Refusal(n) == [launch |-> n, ok |-> FALSE, signer |-> Null, key |-> Null]

\* Mutation: a machine that is bound needs a place like any other.
NeedsRoom == card.valid /\ card.room

\* activate, in short (see CardRequests): a machine that is bound keeps its
\* place, another takes one.
MayActivate == card.valid /\ (card.bound \/ card.room)

\* The envelope is opened and the card activated, which commits.  One sealed
\* with another key is answered by an error, as good as no answer.
Activate ==
    /\ Up /\ serving = Null
    /\ \E m \in wire :
          /\ m \in Ask /\ m.box = file[Box]
          /\ \/ /\ MayActivate
                /\ card' = [card EXCEPT !.bound = TRUE]
                /\ serving' = m
                /\ UNCHANGED wire
             \/ /\ ~MayActivate
                /\ wire' = wire \cup {Refusal(m.launch)}
                /\ UNCHANGED <<card, serving>>
    /\ UNCHANGED <<keyvars, app, core, tool, client>>

\* Mutation: the application the client names decides which key it gets.
KeyAskedFor(m) ==
    IF m.app # Null THEN <<m.app, app[m.app].version>> ELSE <<Null, file[Payload]>>

\* The key of the card's application; the common one for a card without.
KeyFor(m) ==
    IF card.app # Null THEN <<card.app, app[card.app].version>> ELSE <<Null, file[Payload]>>

\* The application is active, and the one the client says it is.
Serves(m) == card.app = Null \/ (app[card.app].active /\ m.app \in {Null, card.app})

\* The application is loaded and the answer built, or refused: by now the
\* machine is bound.
Respond ==
    /\ Up /\ serving # Null
    /\ wire' = wire \cup
          {IF Serves(serving) /\ Usable(Sign)
           THEN [launch |-> serving.launch, ok |-> TRUE, signer |-> file[Sign],
                 key |-> KeyFor(serving)]
           ELSE Refusal(serving.launch)}
    /\ serving' = Null
    /\ UNCHANGED <<keyvars, app, card, core, tool, client>>

\* A message disappears; until then it may arrive again.
Lose(m) ==
    /\ m \in wire /\ wire' = wire \ {m}
    /\ UNCHANGED <<keyvars, app, card, core, tool, client, serving>>

-----------------------------------------------------------------------------
(* Meanwhile                                                               *)

\* Of what CardRequests does to the card: it becomes valid or not, this
\* machine is unbound, others take the places or leave them.
CardChanges ==
    /\ \E valid, room \in BOOLEAN, bound \in {FALSE, card.bound} :
          card' = [card EXCEPT !.valid = valid, !.room = room, !.bound = bound]
    /\ UNCHANGED <<keyvars, app, core, tool, client, wire, serving>>

\* toggle_app
ToggleApp(a) ==
    /\ app' = [app EXCEPT ![a].active = ~@]
    /\ UNCHANGED <<keyvars, card, core, tool, client, wire, serving>>

\* rotate_key
RotateKey(a) ==
    /\ app[a].version < MaxVersion
    /\ app' = [app EXCEPT ![a].version = @ + 1]
    /\ UNCHANGED <<keyvars, card, core, tool, client, wire, serving>>

\* cmd_encrypt reads the key ...
EncryptRead ==
    /\ tool = Null
    /\ tool' = <<Software, app[Software].version>>
    /\ UNCHANGED <<keyvars, app, card, core, client, wire, serving>>

\* ... and writes the container, which reaches the machine later.
Distribute ==
    /\ tool # Null
    /\ core' = tool /\ tool' = Null
    /\ UNCHANGED <<keyvars, app, card, client, wire, serving>>

\* The request in hand is lost with the process.
Processes ==
    /\ KeysNext
    /\ serving' = IF proc'[Server].pc = "up" THEN serving ELSE Null
    /\ UNCHANGED <<app, card, core, tool, client, wire>>

-----------------------------------------------------------------------------
ClientStep == FetchKeys \/ SendRequest \/ TakeReply \/ TimeOut \/ Decrypt \/ Quit

Next ==
    \/ ClientStep
    \/ Activate \/ Respond \/ \E m \in wire : Lose(m)
    \/ CardChanges \/ \E a \in Apps : ToggleApp(a) \/ RotateKey(a)
    \/ EncryptRead \/ Distribute
    \/ Processes

Init ==
    /\ KeysInit
    /\ app = [a \in Apps |-> [active |-> TRUE, version |-> 1]]
    /\ card \in [app: Apps \cup {Null}, valid: {TRUE}, bound: {FALSE}, room: {TRUE}]
    /\ core = Null /\ tool = Null
    /\ client = Resting(Null)
    /\ wire = {} /\ serving = Null

Spec == Init /\ [][Next]_vars

\* A client to which answers keep coming in time takes one of them, and goes
\* on with it.
Fairness == SF_vars(TakeReply) /\ WF_vars(Decrypt)

FairSpec == Spec /\ Fairness

-----------------------------------------------------------------------------
\* The payload key is in the client's memory from the answer to the end of the
\* launch only.
TypeOK ==
    /\ KeysTypeOK
    /\ app \in [Apps -> [active: BOOLEAN, version: 1..MaxVersion]]
    /\ card \in Card
    /\ core \in PayloadKey \cup {Null} /\ tool \in PayloadKey \cup {Null}
    /\ client \in Client
    /\ client.key # Null <=> client.pc \in {"decrypt", "running"}
    /\ wire \subseteq Ask \cup Reply
    /\ serving \in Ask \cup {Null}

\* "a card issued for app A cannot unlock app B": the program runs only with
\* a card of its own application, over rotations and whatever the client asks.
CardsUnlockTheirApp == client.pc = "running" => card.app = Software

\* The key that runs the program was in force after the launch began: replies
\* that are late or repeated bring no older one.
NoStaleKey ==
    client.pc \in {"decrypt", "running"} /\ client.key[1] # Null =>
        client.key[2] >= client.since

\* Nothing stands in the way of a launch: the machine has its place even if
\* none is left, and the core was distributed after the last rotation.
Ready ==
    /\ card.app = Software /\ card.valid /\ card.bound
    /\ app[Software].active /\ core = <<Software, app[Software].version>>
    /\ Up /\ \A f \in {Sign, Box} : Usable(f)

\* An answer to the launch in progress has arrived.
Answered == client.pc = "wait" /\ \E m \in wire : Opens(m)

\* Then the program runs if answers arrive in time again and again, also with
\* keys pinned before earlier restarts and in a place that a refused
\* handshake took.
LaunchSucceeds == <>[]Ready /\ []<>Answered => []<>(client.pc = "running")
=============================================================================
