---------------------------- MODULE LaunchProofs ----------------------------
(* What holds of key files and launches for every number of processes,      *)
(* applications, launches and versions of a payload key.                    *)
EXTENDS Launch, TLAPS

-----------------------------------------------------------------------------
(* Key files                                                               *)

\* A file that was passed is there, and who is to write a file has its key.
Present(p) ==
    /\ \A f \in Ordinals : proc[p].pc = "up" \/ f < proc[p].at => file[f] # Null
    /\ proc[p].pc \in {"create", "write"} => proc[p].key # Null

KeysInv == KeysTypeOK /\ \A p \in Procs : Present(p)

LEMMA KeysInitInv == KeysInit => KeysInv
BY KeyFilesAssumption DEF KeysInit, KeysInv, KeysTypeOK, Present, Off, Process, Ordinals

\* A process that has passed its file is up, or at the next one.
LEMMA PassedIsProcess ==
    ASSUME NEW r \in Process
    PROVE  /\ Passed(r) \in Process /\ Passed(r).pc \in {"up", "check"}
           /\ Passed(r).pc = "up" => r.at = 3
           /\ Passed(r).pc = "check" => Passed(r).at = r.at + 1
BY DEF Passed, Process, Off, Ordinals

\* One process moves on, and no file disappears.
LEMMA ProcessMoves ==
    ASSUME KeysInv, NEW p \in Procs, NEW r \in Process,
           proc' = [proc EXCEPT ![p] = r],
           file' \in [Ordinals -> Key \cup {Null, Empty}],
           made' \in [Ordinals -> 0..MaxMade],
           \A f \in Ordinals : file[f] # Null => file'[f] # Null,
           \A f \in Ordinals : r.pc = "up" \/ f < r.at => file'[f] # Null,
           r.pc \in {"create", "write"} => r.key # Null
    PROVE  KeysInv'
<1>1. KeysTypeOK'
  BY DEF KeysInv, KeysTypeOK
<1>2. ASSUME NEW q \in Procs PROVE Present(q)'
  <2>1. CASE q = p
    BY <2>1 DEF KeysInv, KeysTypeOK, Present
  <2>2. CASE q # p
    BY <2>2 DEF KeysInv, KeysTypeOK, Present
  <2> QED BY <2>1, <2>2
<1> QED BY <1>1, <1>2 DEF KeysInv

LEMMA EnsureStep == ASSUME KeysInv, NEW p \in Procs, Ensure(p) PROVE KeysInv'
<1> DEFINE f == proc[p].at
<1>1. /\ proc[p] \in Process /\ f \in Ordinals /\ Present(p)
      /\ file \in [Ordinals -> Key \cup {Null, Empty}]
      /\ made \in [Ordinals -> 0..MaxMade]
  BY DEF KeysInv, KeysTypeOK, Process
<1>2. ASSUME proc' = [proc EXCEPT ![p] = Passed(@)], file'[f] # Null,
             \A g \in Ordinals : file[g] # Null => file'[g] # Null,
             file' \in [Ordinals -> Key \cup {Null, Empty}],
             made' \in [Ordinals -> 0..MaxMade]
      PROVE  KeysInv'
  <2> DEFINE r == Passed(proc[p])
  <2>1. /\ r \in Process /\ r.pc \in {"up", "check"}
        /\ r.pc = "up" => f = 3
        /\ r.pc = "check" => r.at = f + 1
    BY <1>1, PassedIsProcess
  <2>2. proc' = [proc EXCEPT ![p] = r]
    BY <1>2
  <2> HIDE DEF r
  <2>3. \A g \in Ordinals : r.pc = "up" \/ g < r.at => file'[g] # Null
    <3> SUFFICES ASSUME NEW g \in Ordinals, r.pc = "up" \/ g < r.at PROVE file'[g] # Null
      OBVIOUS
    <3>1. g = f \/ g < f
      BY <1>1, <2>1 DEF Ordinals
    <3> QED BY <1>1, <1>2, <3>1 DEF Present
  <2> QED BY <1>2, <2>1, <2>2, <2>3, ProcessMoves
<1>3. CASE Check(p)
  <2>1. CASE ~Missing(f)
    BY <1>1, <1>2, <1>3, <2>1 DEF Check, Missing
  <2>2. CASE Missing(f)
    <3> DEFINE k == made[f] + 1
               r == [proc[p] EXCEPT !.pc = "create", !.key = k]
    <3>1. made[f] < MaxMade /\ made[f] \in 0..MaxMade /\ k \in Key /\ k # Null
      BY <1>1, <1>3, <2>2, KeyFilesAssumption DEF Check, Key
    <3>2. made' \in [Ordinals -> 0..MaxMade]
      BY <1>1, <1>3, <2>2, <3>1, KeyFilesAssumption DEF Check, Key
    <3>3. proc' = [proc EXCEPT ![p] = r]
      BY <1>3, <2>2 DEF Check
    <3> HIDE DEF k
    <3>4. r \in Process /\ r.pc = "create" /\ r.at = f /\ r.key = k
      BY <1>1, <3>1 DEF Process
    <3> HIDE DEF r
    <3> QED BY <1>1, <1>3, <3>1, <3>2, <3>3, <3>4, ProcessMoves DEF Check, Present
  <2> QED BY <2>1, <2>2
<1>4. CASE Create(p)
  <2> DEFINE r == [proc[p] EXCEPT !.pc = "write"]
  <2>1. r \in Process /\ r.pc = "write" /\ r.at = f /\ r.key = proc[p].key
    BY <1>1 DEF Process
  <2>2. proc' = [proc EXCEPT ![p] = r] /\ file' = [file EXCEPT ![f] = Empty] /\ made' = made
    BY <1>4 DEF Create
  <2>3. proc[p].pc = "create"
    BY <1>4 DEF Create
  <2> HIDE DEF r
  <2> QED BY <1>1, <2>1, <2>2, <2>3, KeyFilesAssumption, ProcessMoves DEF Present
<1>5. CASE Write(p)
  <2>1. proc[p].key \in Key /\ proc[p].key # Null
    BY <1>1, <1>5 DEF Write, Present, Process
  <2> QED BY <1>1, <1>2, <1>5, <2>1 DEF Write
<1> QED BY <1>3, <1>4, <1>5 DEF Ensure

LEMMA KeysStep == ASSUME KeysInv, [KeysNext]_keyvars PROVE KeysInv'
<1>1. ASSUME NEW p \in Procs, StartProcess(p) PROVE KeysInv'
  <2> DEFINE r == [proc[p] EXCEPT !.pc = "check"]
  <2>1. proc[p] \in Process /\ Present(p)
    BY DEF KeysInv, KeysTypeOK
  <2>2. r \in Process /\ r.pc = "check" /\ r.at = proc[p].at
    BY <2>1 DEF Process
  <2>3. proc' = [proc EXCEPT ![p] = r] /\ UNCHANGED <<file, made>>
    BY <1>1 DEF StartProcess
  <2> HIDE DEF r
  <2> QED BY <2>1, <2>2, <2>3, ProcessMoves DEF KeysInv, KeysTypeOK, Present
<1>2. ASSUME NEW p \in Procs, Stop(p) PROVE KeysInv'
  <2>1. Off \in Process /\ Off.pc = "off" /\ \A f \in Ordinals : ~(f < Off.at)
    BY DEF Off, Process, Ordinals
  <2>2. proc' = [proc EXCEPT ![p] = Off] /\ UNCHANGED <<file, made>>
    BY <1>2 DEF Stop
  <2> QED BY <2>1, <2>2, ProcessMoves DEF KeysInv, KeysTypeOK
<1>3. CASE UNCHANGED keyvars
  BY <1>3 DEF keyvars, KeysInv, KeysTypeOK, Present
<1> QED BY <1>1, <1>2, <1>3, EnsureStep DEF KeysNext

\* Who is to create a file found none, and nobody has written it meanwhile.
Creating(p) == proc[p].pc \in {"create", "write"} => ~Usable(proc[p].at)

\* No process writes a file that another has found missing and is still to write.
WritesUnawaited ==
    \A p, q \in Procs : p # q /\ Write(p) /\ proc[q].pc \in {"create", "write"} =>
        proc[q].at # proc[p].at

LEMMA CreatingStep ==
    ASSUME KeysInv, \A p \in Procs : Creating(p), WritesUnawaited,
           NEW p \in Procs, StartProcess(p) \/ Ensure(p) \/ Stop(p)
    PROVE  Kept /\ \A q \in Procs : Creating(q)'
<1>1. /\ proc[p] \in Process /\ Creating(p)
      /\ file \in [Ordinals -> Key \cup {Null, Empty}] /\ proc \in [Procs -> Process]
  BY DEF KeysInv, KeysTypeOK
<1>2. Kept
  BY <1>1 DEF Kept, StartProcess, Ensure, Check, Create, Write, Stop, Creating
<1>3. Creating(p)'
  <2>1. CASE Check(p)
    <3>1. CASE ~Missing(proc[p].at)
      <4>1. proc'[p] = Passed(proc[p])
        BY <1>1, <2>1, <3>1 DEF Check
      <4> QED BY <1>1, <4>1, PassedIsProcess DEF Creating
    <3>2. CASE Missing(proc[p].at)
      <4>1. proc'[p].at = proc[p].at /\ file' = file
        BY <1>1, <2>1, <3>2 DEF Check, Process
      <4>2. ~Usable(proc[p].at)
        BY <3>2, KeyFilesAssumption DEF Missing, Usable, Key
      <4> QED BY <4>1, <4>2 DEF Creating, Usable
    <3> QED BY <3>1, <3>2
  <2>2. CASE Create(p)
    <3>1. proc'[p].at = proc[p].at /\ file'[proc[p].at] = Empty
      BY <1>1, <2>2 DEF Create, Process
    <3> QED BY <3>1, KeyFilesAssumption DEF Creating, Usable, Key
  <2>3. CASE Write(p)
    <3>1. proc'[p] = Passed(proc[p])
      BY <1>1, <2>3 DEF Write
    <3> QED BY <1>1, <3>1, PassedIsProcess DEF Creating
  <2>4. CASE StartProcess(p) \/ Stop(p)
    BY <1>1, <2>4 DEF StartProcess, Stop, Off, Process, Creating
  <2> QED BY <2>1, <2>2, <2>3, <2>4 DEF Ensure
<1>4. ASSUME NEW q \in Procs \ {p} PROVE Creating(q)'
  <2>1. proc'[q] = proc[q] /\ proc[q] \in Process /\ Creating(q)
    BY <1>1 DEF StartProcess, Ensure, Check, Create, Write, Stop
  <2>2. CASE proc[q].pc \in {"create", "write"}
    <3>1. CASE Write(p)
      <4>1. file'[proc[q].at] = file[proc[q].at]
        BY <1>1, <2>1, <2>2, <3>1 DEF Write, WritesUnawaited, Process
      <4> QED BY <2>1, <4>1 DEF Creating, Usable
    <3>2. CASE Create(p)
      <4>1. file'[proc[q].at] \in {file[proc[q].at], Empty}
        BY <1>1, <2>1, <3>2 DEF Create, Process
      <4> QED BY <2>1, <4>1, KeyFilesAssumption DEF Creating, Usable, Key
    <3>3. CASE StartProcess(p) \/ Check(p) \/ Stop(p)
      <4>1. file' = file
        BY <3>3 DEF StartProcess, Check, Stop
      <4> QED BY <2>1, <4>1 DEF Creating, Usable
    <3> QED BY <3>1, <3>2, <3>3 DEF Ensure
  <2>3. CASE proc[q].pc \notin {"create", "write"}
    BY <2>1, <2>3 DEF Creating
  <2> QED BY <2>2, <2>3
<1> QED BY <1>2, <1>3, <1>4

\* The one way a key that was written is replaced: its file was written between
\* another process's finding it missing and that one's own write (ensure_keys).
\* Any number of processes may start, stop and create other files meanwhile.
THEOREM KeysLostByOverlap ==
    KeysInit /\ [][KeysNext]_keyvars /\ [][WritesUnawaited]_keyvars => KeysKept
<1> DEFINE I == KeysInv /\ \A p \in Procs : Creating(p)
<1>1. KeysInit => I
  BY KeysInitInv DEF KeysInit, Off, Creating
<1>2. I /\ [KeysNext]_keyvars /\ [WritesUnawaited]_keyvars => I' /\ [Kept]_keyvars
  <2> SUFFICES ASSUME I, [KeysNext]_keyvars, [WritesUnawaited]_keyvars
               PROVE  I' /\ [Kept]_keyvars
    OBVIOUS
  <2>1. KeysInv'
    BY KeysStep
  <2>2. CASE UNCHANGED keyvars
    BY <2>1, <2>2 DEF keyvars, Creating, Usable
  <2>3. CASE KeysNext /\ WritesUnawaited
    BY <2>1, <2>3, CreatingStep DEF KeysNext
  <2> QED BY <2>2, <2>3
<1> QED BY <1>1, <1>2, PTL DEF KeysKept

Alone == \A p, q \in Procs : p # q /\ proc[p].pc \notin {"off", "up"} =>
             proc[q].pc \in {"off", "up"}

\* If one process at a time creates key files, a key that was written stays,
\* wherever processes stop.
THEOREM WrittenKeysStay == KeysInit /\ [][KeysNext /\ InTurn]_keyvars => KeysKept
<1>1. KeysInit => Alone
  BY DEF KeysInit, Off, Alone
<1>2. Alone /\ [KeysNext /\ InTurn]_keyvars =>
          Alone' /\ [KeysNext]_keyvars /\ [WritesUnawaited]_keyvars
  <2>1. Alone /\ KeysNext /\ InTurn => Alone' /\ WritesUnawaited
    BY DEF Alone, InTurn, Write, WritesUnawaited
  <2>2. Alone /\ UNCHANGED keyvars => Alone'
    BY DEF Alone, keyvars
  <2> QED BY <2>1, <2>2
<1> QED BY <1>1, <1>2, KeysLostByOverlap, PTL

-----------------------------------------------------------------------------
(* Launches                                                                *)

\* What an answer under way brings to the card, and to its launch.
Delivers(m) ==
    m \in Reply /\ m.ok =>
        /\ m.key \in PayloadKey /\ m.key[1] = card.app
        /\ m.launch = client.launch /\ m.key[1] # Null => m.key[2] >= client.since

\* What the launch in progress has taken from an answer.
Taken ==
    /\ client.pc \in {"wait", "decrypt", "running"} => client.launch # Null
    /\ client.pc \in {"decrypt", "running"} =>
          /\ client.key[1] = card.app
          /\ client.key[1] # Null => client.key[2] >= client.since

\* What is encrypted, or about to be, is the one program.
Distributed ==
    /\ core # Null => core[1] = Software
    /\ tool # Null => tool[1] = Software

LaunchInv ==
    /\ KeysInv /\ TypeOK
    /\ client.since <= CardVersion
    /\ \A m \in wire : Delivers(m)
    /\ Taken /\ Distributed
    /\ CardsUnlockTheirApp

LEMMA AskIsNoReply == ASSUME NEW m \in Ask PROVE m \notin Reply
<1>1. "box" \in DOMAIN m
  BY DEF Ask
<1>2. m \in Reply => "box" \notin DOMAIN m
  BY DEF Reply
<1> QED BY <1>1, <1>2

LEMMA CardVersionType == ASSUME TypeOK PROVE CardVersion \in 0..MaxVersion
BY LaunchAssumption DEF TypeOK, CardVersion, Card

\* A client without a launch: nothing under way is for it.
LEMMA RestingIsFine ==
    ASSUME LaunchInv, NEW pins \in [sign: Key, box: Key] \cup {Null},
           client' = Resting(pins),
           UNCHANGED <<keyvars, app, card, core, tool, wire, serving>>
    PROVE  LaunchInv'
<1>1. /\ client' \in Client /\ client'.pc = "off" /\ client'.launch = Null
      /\ client'.key = Null /\ client'.since = 0
  BY LaunchAssumption DEF Resting, Client
<1>2. TypeOK' /\ KeysInv'
  BY <1>1 DEF LaunchInv, TypeOK, KeysInv, KeysTypeOK, Present, keyvars
<1>3. client'.since <= CardVersion'
  BY <1>1, <1>2, CardVersionType DEF LaunchInv, CardVersion
<1>4. ASSUME NEW m \in wire PROVE Delivers(m)'
  <2>1. m \in Reply => m.launch # Null
    BY LaunchAssumption DEF Reply
  <2> QED BY <1>1, <2>1 DEF LaunchInv, Delivers
<1> QED BY <1>1, <1>2, <1>3, <1>4 DEF LaunchInv, Taken, Distributed, CardsUnlockTheirApp

\* The client goes on with its launch.
LEMMA ClientGoesOn ==
    ASSUME LaunchInv, NEW c \in Client, client' = c,
           c.launch = client.launch, c.since = client.since, Taken',
           c.key # Null <=> c.pc \in {"decrypt", "running"},
           c.pc = "running" => card.app = Software,
           UNCHANGED <<keyvars, app, card, core, tool, wire, serving>>
    PROVE  LaunchInv'
<1>1. TypeOK' /\ KeysInv'
  BY DEF LaunchInv, TypeOK, KeysInv, KeysTypeOK, Present, keyvars
<1>2. client'.since <= CardVersion' /\ \A m \in wire' : Delivers(m)'
  BY DEF LaunchInv, CardVersion, Delivers
<1> QED BY <1>1, <1>2 DEF LaunchInv, Distributed, CardsUnlockTheirApp

LEMMA SendStep == ASSUME LaunchInv, SendRequest PROVE LaunchInv'
<1> PICK n \in Launches, a \in {Software, Null} :
       /\ NewLaunch(n)
       /\ wire' = wire \cup {[launch |-> n, box |-> client.pins.box, app |-> a]}
       /\ client' = [client EXCEPT !.pc = "wait", !.launch = n, !.since = CardVersion]
  BY DEF SendRequest
<1> DEFINE ask == [launch |-> n, box |-> client.pins.box, app |-> a]
<1>1. /\ client \in Client /\ client.pc = "off" /\ client.pins # Null /\ client.key = Null
      /\ CardVersion \in 0..MaxVersion
  BY CardVersionType DEF SendRequest, LaunchInv, TypeOK
<1>2. ask \in Ask
  BY <1>1 DEF Ask, Client
<1>3. /\ client' \in Client /\ client'.pc = "wait" /\ client'.launch = n
      /\ client'.key = Null /\ client'.since = CardVersion
  BY <1>1 DEF Client
<1>4. n # Null /\ UNCHANGED <<keyvars, app, card, core, tool, serving>>
  BY LaunchAssumption DEF SendRequest
<1>5. wire' = wire \cup {ask}
  OBVIOUS
<1> HIDE DEF ask
<1>6. TypeOK' /\ KeysInv'
  BY <1>2, <1>3, <1>4, <1>5 DEF LaunchInv, TypeOK, KeysInv, KeysTypeOK, Present, keyvars
<1>7. client'.since <= CardVersion'
  BY <1>1, <1>3, <1>4 DEF CardVersion
<1>8. ASSUME NEW m \in wire' PROVE Delivers(m)'
  <2>1. CASE m = ask
    BY <1>2, <2>1, AskIsNoReply DEF Delivers
  <2>2. CASE m \in wire
    BY <1>3, <1>4, <2>2 DEF NewLaunch, LaunchInv, Delivers
  <2> QED BY <1>5, <2>1, <2>2
<1> QED BY <1>3, <1>4, <1>6, <1>7, <1>8 DEF LaunchInv, Taken, Distributed, CardsUnlockTheirApp

LEMMA ClientInv == ASSUME LaunchInv, ClientStep PROVE LaunchInv'
<1>1. client \in Client /\ client.pins \in [sign: Key, box: Key] \cup {Null}
  BY DEF LaunchInv, TypeOK, Client
<1>2. CASE EndLaunch /\ UNCHANGED <<keyvars, app, card, core, tool, wire, serving>>
  BY <1>1, <1>2, RestingIsFine DEF EndLaunch
<1>3. CASE FetchKeys
  <2>1. [sign |-> file[Sign], box |-> file[Box]] \in [sign: Key, box: Key]
    BY <1>3 DEF FetchKeys, Usable
  <2> QED BY <1>3, <2>1, RestingIsFine DEF FetchKeys
<1>4. CASE TakeReply
  <2>1. PICK m \in wire :
           /\ Opens(m)
           /\ \/ m.ok /\ client' = [client EXCEPT !.pc = "decrypt", !.key = m.key]
              \/ EndLaunch
    BY <1>4 DEF TakeReply
  <2>2. CASE EndLaunch
    BY <1>2, <1>4, <2>2 DEF TakeReply
  <2>3. CASE m.ok /\ client' = [client EXCEPT !.pc = "decrypt", !.key = m.key]
    <3> DEFINE c == [client EXCEPT !.pc = "decrypt", !.key = m.key]
    <3>1. /\ m.key \in PayloadKey /\ m.key # Null /\ m.key[1] = card.app
          /\ m.key[1] # Null => m.key[2] >= client.since
      BY <2>1, <2>3, NullAssumption DEF Opens, LaunchInv, Delivers
    <3>2. /\ c \in Client /\ c.pc = "decrypt" /\ c.key = m.key
          /\ c.launch = client.launch /\ c.since = client.since
      BY <1>1, <3>1 DEF Client
    <3>3. client' = c /\ client.launch # Null
      BY <1>4, <2>3 DEF TakeReply, LaunchInv, Taken
    <3>4. UNCHANGED <<keyvars, app, card, core, tool, wire, serving>>
      BY <1>4 DEF TakeReply
    <3> HIDE DEF c
    <3>5. Taken'
      BY <3>1, <3>2, <3>3, <3>4 DEF Taken
    <3> QED BY <3>1, <3>2, <3>3, <3>4, <3>5, ClientGoesOn
  <2> QED BY <2>1, <2>2, <2>3
<1>5. CASE Decrypt
  <2>1. CASE EndLaunch
    BY <1>2, <1>5, <2>1 DEF Decrypt
  <2>2. CASE core = client.key /\ client' = [client EXCEPT !.pc = "running"]
    <3> DEFINE c == [client EXCEPT !.pc = "running"]
    <3>1. /\ c \in Client /\ c.pc = "running" /\ c.key = client.key
          /\ c.launch = client.launch /\ c.since = client.since
      BY <1>1 DEF Client
    <3>2. client' = c /\ UNCHANGED <<keyvars, app, card, core, tool, wire, serving>>
      BY <1>5, <2>2 DEF Decrypt
    <3>3. client.key # Null /\ card.app = Software
      BY <1>5, <2>2 DEF Decrypt, LaunchInv, TypeOK, Taken, Distributed
    <3>4. client.pc = "decrypt"
      BY <1>5 DEF Decrypt
    <3> HIDE DEF c
    <3>5. Taken'
      BY <3>1, <3>2, <3>4 DEF LaunchInv, Taken
    <3> QED BY <3>1, <3>2, <3>3, <3>5, ClientGoesOn
  <2> QED BY <1>5, <2>1, <2>2 DEF Decrypt
<1>6. CASE TimeOut
  BY <1>2, <1>6 DEF TimeOut
<1>7. CASE Quit
  BY <1>2, <1>7 DEF Quit
<1> QED BY <1>3, <1>4, <1>5, <1>6, <1>7, SendStep DEF ClientStep

-----------------------------------------------------------------------------
(* The service, and what goes on around the launch                         *)

\* The wire and the request in hand change, or the card in ways that leave
\* it with its application, or keys move on.
LEMMA AroundTheClient ==
    ASSUME LaunchInv, UNCHANGED client, KeysInv', Distributed',
           app' \in [Apps -> [active: BOOLEAN, version: 1..MaxVersion]],
           \A a \in Apps : app'[a].version >= app[a].version,
           card' \in Card, card'.app = card.app,
           core' \in PayloadKey \cup {Null}, tool' \in PayloadKey \cup {Null},
           serving' \in Ask \cup {Null},
           wire' \subseteq Ask \cup Reply,
           \A m \in wire' : m \in wire \/ Delivers(m)
    PROVE  LaunchInv'
<1>1. TypeOK'
  BY DEF LaunchInv, TypeOK, KeysInv
<1>2. CardVersion \in 0..MaxVersion /\ CardVersion' \in 0..MaxVersion
  BY <1>1, CardVersionType DEF LaunchInv, TypeOK, CardVersion, Card
<1>3. CardVersion <= CardVersion'
  BY <1>2 DEF CardVersion, LaunchInv, TypeOK, Card
<1>4. client'.since <= CardVersion'
  BY <1>2, <1>3, LaunchAssumption DEF LaunchInv, TypeOK, Client
<1>5. \A m \in wire' : Delivers(m)'
  BY DEF LaunchInv, Delivers
<1>6. Taken' /\ CardsUnlockTheirApp'
  BY DEF LaunchInv, Taken, CardsUnlockTheirApp
<1> QED BY <1>1, <1>4, <1>5, <1>6 DEF LaunchInv

LEMMA RefusalIsReply ==
    ASSUME NEW n \in Launches PROVE Refusal(n) \in Reply /\ Delivers(Refusal(n))
BY DEF Refusal, Reply, Delivers

LEMMA KeysUnchanged == ASSUME KeysInv, UNCHANGED keyvars PROVE KeysInv'
BY KeysStep

LEMMA ActivateStep == ASSUME LaunchInv, Activate PROVE LaunchInv'
<1> PICK m \in wire :
       /\ m \in Ask
       /\ \/ card' = [card EXCEPT !.bound = TRUE] /\ serving' = m /\ UNCHANGED wire
          \/ wire' = wire \cup {Refusal(m.launch)} /\ UNCHANGED <<card, serving>>
  BY DEF Activate
<1>1. card' \in Card /\ card'.app = card.app /\ serving' \in Ask \cup {Null}
  BY DEF LaunchInv, TypeOK, Card
<1>2. Refusal(m.launch) \in Reply /\ Delivers(Refusal(m.launch))
  BY RefusalIsReply DEF Ask
<1>3. /\ wire' \subseteq Ask \cup Reply
      /\ \A k \in wire' : k \in wire \/ Delivers(k)
  BY <1>2 DEF LaunchInv, TypeOK
<1>4. /\ UNCHANGED <<app, core, tool, client>> /\ KeysInv' /\ Distributed'
  BY KeysUnchanged DEF Activate, LaunchInv, Distributed
<1> QED BY <1>1, <1>3, <1>4, AroundTheClient DEF LaunchInv, TypeOK

LEMMA RespondStep == ASSUME LaunchInv, Respond PROVE LaunchInv'
<1> DEFINE key == KeyFor(serving)
           yes == [launch |-> serving.launch, ok |-> TRUE, signer |-> file[Sign], key |-> key]
           m   == IF Serves(serving) /\ Usable(Sign) THEN yes ELSE Refusal(serving.launch)
<1>1. serving.launch \in Launches
  BY DEF Respond, LaunchInv, TypeOK, Ask
<1>2. file[Payload] \in Key \cup {Empty}
  <2>1. file[Payload] # Null
    BY LaunchAssumption DEF Respond, Up, LaunchInv, KeysInv, Present, Ordinals, Payload
  <2> QED BY <2>1 DEF LaunchInv, KeysInv, KeysTypeOK, Ordinals, Payload
<1>3. /\ key \in PayloadKey /\ key[1] = card.app
      /\ card.app # Null => key[2] = CardVersion
  <2>1. card.app \in Apps \cup {Null} /\ (card.app # Null => app[card.app].version \in 1..MaxVersion)
    BY DEF LaunchInv, TypeOK, Card
  <2> QED BY <1>2, <2>1 DEF KeyFor, PayloadKey, CardVersion
<1>4. client.since <= CardVersion /\ client.since \in Nat /\ CardVersion \in Nat
  BY CardVersionType, LaunchAssumption DEF LaunchInv, TypeOK, Client
<1>5. m \in Reply /\ Delivers(m)
  <2>1. CASE Serves(serving) /\ Usable(Sign)
    <3>1. yes \in Reply /\ yes.key = key
      <4> HIDE DEF key
      <4> QED BY <1>1, <1>3, <2>1 DEF Reply, Usable
    <3> HIDE DEF key
    <3>2. key[1] # Null => key[2] >= client.since
      BY <1>3, <1>4
    <3>3. Delivers(yes)
      BY <1>3, <3>1, <3>2 DEF Delivers
    <3> QED BY <2>1, <3>1, <3>3
  <2>2. CASE ~(Serves(serving) /\ Usable(Sign))
    BY <1>1, <2>2, RefusalIsReply
  <2> QED BY <2>1, <2>2
<1>6. wire' = wire \cup {m} /\ serving' = Null
  BY DEF Respond
<1> HIDE DEF m
<1>7. wire' \subseteq Ask \cup Reply /\ \A k \in wire' : k \in wire \/ Delivers(k)
  BY <1>5, <1>6 DEF LaunchInv, TypeOK
<1>8. UNCHANGED <<app, card, core, tool, client>> /\ KeysInv' /\ Distributed'
  BY KeysUnchanged DEF Respond, LaunchInv, Distributed
<1> QED BY <1>6, <1>7, <1>8, AroundTheClient DEF LaunchInv, TypeOK

LEMMA MeanwhileStep ==
    ASSUME LaunchInv,
           \/ \E m \in wire : Lose(m)
           \/ CardChanges \/ \E a \in Apps : ToggleApp(a) \/ RotateKey(a)
           \/ EncryptRead \/ Distribute \/ Processes
    PROVE  LaunchInv'
<1>0. /\ app \in [Apps -> [active: BOOLEAN, version: 1..MaxVersion]]
      /\ \A a \in Apps : app[a].version >= app[a].version
  BY DEF LaunchInv, TypeOK
<1>1. ASSUME NEW m \in wire, Lose(m) PROVE LaunchInv'
  BY <1>0, <1>1, KeysUnchanged, AroundTheClient DEF Lose, LaunchInv, TypeOK, Distributed
<1>2. CASE CardChanges
  <2>1. card' \in Card /\ card'.app = card.app
    BY <1>2 DEF CardChanges, LaunchInv, TypeOK, Card
  <2>2. UNCHANGED <<keyvars, app, core, tool, client, wire, serving>>
    BY <1>2 DEF CardChanges
  <2> QED BY <1>0, <2>1, <2>2, KeysUnchanged, AroundTheClient DEF LaunchInv, TypeOK, Distributed
<1>3. ASSUME NEW a \in Apps, ToggleApp(a) \/ RotateKey(a) PROVE LaunchInv'
  <2>1. /\ app' \in [Apps -> [active: BOOLEAN, version: 1..MaxVersion]]
        /\ \A b \in Apps : app'[b].version >= app[b].version
    <3>1. CASE ToggleApp(a)
      BY <1>0, <3>1 DEF ToggleApp
    <3>2. CASE RotateKey(a)
      BY <1>0, <3>2, LaunchAssumption DEF RotateKey
    <3> QED BY <1>3, <3>1, <3>2
  <2>2. UNCHANGED <<keyvars, card, core, tool, client, wire, serving>>
    BY <1>3 DEF ToggleApp, RotateKey
  <2> QED BY <2>1, <2>2, KeysUnchanged, AroundTheClient DEF LaunchInv, TypeOK, Distributed
<1>4. CASE EncryptRead
  <2> DEFINE k == <<Software, app[Software].version>>
  <2>1. k \in PayloadKey /\ k[1] = Software
    BY <1>0, LaunchAssumption DEF PayloadKey
  <2>2. tool' = k /\ UNCHANGED <<keyvars, app, card, core, client, wire, serving>>
    BY <1>4 DEF EncryptRead
  <2> HIDE DEF k
  <2> QED BY <1>0, <2>1, <2>2, KeysUnchanged, AroundTheClient DEF LaunchInv, TypeOK, Distributed
<1>5. CASE Distribute
  <2>1. /\ core' = tool /\ tool # Null /\ tool' = Null
        /\ UNCHANGED <<keyvars, app, card, client, wire, serving>>
    BY <1>5 DEF Distribute
  <2> QED BY <1>0, <2>1, KeysUnchanged, AroundTheClient DEF LaunchInv, TypeOK, Distributed
<1>6. CASE Processes
  <2>1. KeysInv' /\ UNCHANGED <<app, card, core, tool, client, wire>>
    BY <1>6, KeysStep DEF Processes, LaunchInv
  <2>2. serving' \in Ask \cup {Null}
    BY <1>6 DEF Processes, LaunchInv, TypeOK
  <2> QED BY <1>0, <2>1, <2>2, AroundTheClient DEF LaunchInv, TypeOK, Distributed
<1> QED BY <1>1, <1>2, <1>3, <1>4, <1>5, <1>6

-----------------------------------------------------------------------------
LEMMA LaunchInitInv == Init => LaunchInv
<1> SUFFICES ASSUME Init PROVE LaunchInv
  OBVIOUS
<1>1. /\ KeysInv /\ client \in Client /\ client.pc = "off" /\ client.key = Null
      /\ client.since = 0 /\ wire = {} /\ core = Null /\ tool = Null /\ serving = Null
  BY KeysInitInv, LaunchAssumption DEF Init, Resting, Client
<1>2. card \in Card /\ app \in [Apps -> [active: BOOLEAN, version: 1..MaxVersion]]
  <2>1. card \in Card
    BY DEF Init, Card
  <2>2. [active |-> TRUE, version |-> 1] \in [active: BOOLEAN, version: 1..MaxVersion]
    BY LaunchAssumption
  <2> QED BY <2>1, <2>2 DEF Init
<1>3. TypeOK
  BY <1>1, <1>2 DEF TypeOK, KeysInv
<1>4. client.since <= CardVersion
  BY <1>1, <1>3, CardVersionType
<1> QED BY <1>1, <1>3, <1>4 DEF LaunchInv, Taken, Distributed, CardsUnlockTheirApp

LEMMA LaunchNextInv == LaunchInv /\ [Next]_vars => LaunchInv'
<1> SUFFICES ASSUME LaunchInv, [Next]_vars PROVE LaunchInv'
  OBVIOUS
<1>1. CASE UNCHANGED vars
  <2>1. KeysInv'
    BY <1>1, KeysUnchanged DEF vars, LaunchInv
  <2> QED BY <1>1, <2>1 DEF vars, keyvars, launchvars, LaunchInv, TypeOK, KeysTypeOK, Taken,
                            Distributed, CardsUnlockTheirApp, Delivers, CardVersion
<1> QED BY <1>1, ClientInv, ActivateStep, RespondStep, MeanwhileStep DEF Next

\* Whatever is lost, late or repeated, a payload key is in the client's
\* memory from the answer to the end of its launch only.
THEOREM LaunchTypes == Spec => []TypeOK
<1>1. LaunchInv => TypeOK
  BY DEF LaunchInv
<1> QED BY LaunchInitInv, LaunchNextInv, <1>1, PTL DEF Spec

\* No card of another application, nor one without, runs the program,
\* whatever the client asks for.
THEOREM OtherCardsUnlockNothing == Spec => []CardsUnlockTheirApp
<1>1. LaunchInv => CardsUnlockTheirApp
  BY DEF LaunchInv
<1> QED BY LaunchInitInv, LaunchNextInv, <1>1, PTL DEF Spec

\* No reply brings a launch a key from before it began.
THEOREM NoOldKeyIsTaken == Spec => []NoStaleKey
<1>1. LaunchInv => NoStaleKey
  BY DEF LaunchInv, Taken, NoStaleKey
<1> QED BY LaunchInitInv, LaunchNextInv, <1>1, PTL DEF Spec

=============================================================================
