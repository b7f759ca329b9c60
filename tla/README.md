# cardkey-auth-admin: TLA+ models, model checking and proofs

The repository is a licence-card service: administrators issue card keys for
applications, customers activate a card on their machine and keep it alive by
signed heartbeats. It is one Python process (FastAPI, SQLAlchemy, SQLite) with
synchronous handlers, so **every request runs on a thread of a pool with a
database session of its own**. Most of what can go wrong is there: a handler
reads rows, decides, and commits later, and other requests commit in between.

This directory holds modules for that behaviour, configurations for TLC, and
proofs that TLAPS checks. `PROJECT.json` lists components, runs, mutants, the
map from definitions to source lines, hazards, findings and theorems.

## 1. The system

| Part | State | Operations | Interacts with |
| --- | --- | --- | --- |
| card state (`models/card.py`, `services/verify.py`, `services/cards.py`, `routers/cards.py`) | row of `cards`: stored status, limit, two dates | activate, verify, ban, unban, edit, reset, unbind devices, delete | devices (relationship with cascade), settings (two switches) |
| device bindings (`models/device.py`, `services/devices.py`, `routers/devices.py`) | row of `devices`: card, machine code, status | bind (in activate), touch, self-unbind, re-point, unbind, delete | card (foreign key, limit) |
| database sessions (`database.py`) | loaded rows of each request | SELECT, flush, commit, rollback | everything |
| issue (`services/cards.py`, `generate_do`) | `card_types`, new rows of `cards` | find or create a template, draw codes, insert a batch | applications |
| applications (`services/applications.py`, `routers/applications.py`) | rows of `applications` with their payload key | create, toggle, rotate, delete | cards, grants |
| settings (`services/settings.py`, `routers/system.py`) | table, copy in a global variable | save, refresh, read, draw an interval | heartbeat, activation |
| heartbeat (`_do_heartbeat`, `examples/client.py`) | where the client is, timer of the sleep or socket operation, nonce | run the core, sleep, beat, answer, time-out, stop | card state, settings, network |
| session handshake, sealed transport (`crypto.py`, `_do_session`, `examples/client.py`) | keys and nonce of a launch, payload key in memory | request, activation, checks, signed answer, decryption of the core | activation, applications, key files |
| key files (`crypto.py`, `tools/protect.py`) | three files under `data/keys` | first-use creation by each process, empty then written | every answer that is signed, every start |
| administrators and scope (`services/scope.py`, `routers/system.py`, `deps.py`) | accounts, roles, grants | create, toggle, delete, grant, filter, check | every page |
| login (`routers/auth.py`, `security.py`) | the account id in a signed cookie | sign in and out, redirections | accounts |
| start-up (`main.py`) | first account, key files, empty copy of the settings | once per process | accounts, key files, settings |
| logs, pages, tools | append-only logs | views and assembly | - |

What makes each part correct, and what is hard:

* **cards and devices** - no orphaned row; the limit; the status and the dates
  of a row agree; a ban and an unbinding last. Hard: stale row copies of
  overlapping requests, columns written one by one, ids that SQLite gives again.
* **issue** - codes unique, batches whole, templates not doubled, a card keeps
  its application. Hard: lookup and insertion are separate; a batch is not
  visible to its own queries before the flush.
* **settings** - the settings in force are those stored; an interval can always
  be drawn. Hard: a five-step save, a copy published late, a first use.
* **heartbeat** - a beat that the client accepts speaks for a recent licence,
  and a client whose licence stays revoked stops. Hard: lost, late, slow and
  repeated messages, a timeout per socket operation, two reads at two times, two
  clocks.
* **launches** - a card unlocks its own application only, with the key in force;
  a launch that failed half-way does not cost the next one. Hard: the activation
  commits before the application is checked, keys are rotated while an answer
  is under way, the machine that encrypts and the one that runs differ.
* **key files** - a key that clients pinned is never replaced. Hard: a stop
  between creating and writing, two processes at once.
* **accounts** - somebody can always administer; an operator stays within its
  grants; the rules written twice agree; no grant outlives its ends. Hard:
  accounts, grants and rows read at three times, ids and names given again.
* **login** - a cookie of an account that is gone neither works nor loops.

`PROJECT.json` lists the hazards at their lines with the properties that cover
them.

## 2. Modules

| Module | What it is |
| --- | --- |
| `CardRequests` | the tables `cards` and `devices` and all twelve operations on them as steps of threads; safety and action properties that hold for any interleaving |
| `CardContract` | the state machine of a card that the repository's README draws, every operation atomic: the abstract specification |
| `CardClaims` | what the documentation and comments claim, over the state of `CardRequests`, and the refinement mapping to `CardContract` |
| `CardRequestsProofs` | theorems of `CardRequests` for any interleaving |
| `CardClaimsProofs` | the claims, and the refinement, while requests that overlap work on different cards |
| `CardOverlapProofs` | the claims under overlap on one card: which overlap alone breaks each |
| `CardIssue`, `CardIssueProofs` | templates, batches of cards, creation and deletion of applications; theorems |
| `SettingsCache`, `SettingsCacheProofs` | the settings table, its copy in the process, draws of the interval; theorems |
| `Heartbeat`, `HeartbeatProofs` | client, network and server of the heartbeat; theorems |
| `Accounts`, `AccountsProofs` | sign-in, accounts, grants, scope of cards; theorems |
| `KeyFiles` | the server's key files and the processes that create them |
| `Launch`, `LaunchProofs` | extends `KeyFiles`: session handshakes, payload keys, the encrypted core; theorems about both |
| `MC...` | instances for TLC |

### CardRequests

State: `cards[c]` and `devices[i]` are the committed tables (`Null`: no row),
`now` the clock, `req[t]` the request thread t runs. A request record holds what
the session holds: `seen`, the card row as loaded; `want`, the row as the
handler has changed it in memory; `rows`, the device rows it loaded.

A handler is cut at its SELECTs and at its commit, and nowhere else:

| Handler | Actions |
| --- | --- |
| `activate` | `ActivateLoad` (card, checks), `ActivateFind` (bound row of the machine, auto-bind switch), `ActivateCount` (active rows against the loaded limit), `Commit` |
| `verify` (verify, heartbeat) | `VerifyLoad`, `FindBinding`, `Commit` |
| `self_unbind` | `SelfUnbindLoad`, `FindBinding`, `Commit` |
| `card_ban`, `card_unban`, `card_edit` | `Ban`, `Unban`, `Edit` (load and change), `Commit` |
| `card_reset`, `card_unbind_devices`, `card_delete` | `...Load`, `...List` (the relationship is loaded), `Commit` |
| device pages | `DeviceEdit`, `DeviceUnbind`, `DeviceDelete` (load by row id), `Commit` |

`Commit` is the session's flush: `FlushedCard` writes a column only if its value
differs from the loaded one (`Column`), `RowAfter` does the same for device
rows, `UpdatesFindTheirRows` and `ForeignKeysHold` are what the tables demand.
`Abort` is any failure before it, a stop of the process included: nothing of a
request survives but its committed rows, so a crash is an abort of all requests.

What justifies this of the library: `SessionLocal` has `autoflush=False`,
`expire_on_commit=False`; the SQLite driver opens a transaction at the first
INSERT, UPDATE or DELETE, so the SELECTs before it belong to none; an UPDATE that
matches no row raises `StaleDataError`, a DELETE only warns; `PRAGMA
foreign_keys=ON` is set on every connection; `devices.id` is an
`INTEGER PRIMARY KEY` without `AUTOINCREMENT`, so the largest id, once free, is
given again.

Abstractions: names, addresses, remarks and times of last use are written and
never read by a decision; a device edit that keeps the machine code writes only
such columns and is left out. `remaining_count` is written at issue and reset
only - no code decrements it - so it is the constant `Credits`. The two
switches of the settings may change at any time and are free choices.

### CardIssue

`apps`, `types`, `cards` are the tables; a request is cut as above: `IssueStart`,
`FindType`, `MakeType` (a commit of its own), `DrawCode` (one draw with its
query), `DrawEnd`, `Insert`; for deletion `DeleteAppStart`, `CountCards`,
`LoadCards` (the session's load of `Application.cards` at the flush),
`DeleteApp`. A code stands for the row that carries it. Grants and keys of
applications are not in it; the clamping of the form is in the bounds of the
inputs. `cards.application_id` is a foreign key in a database that this code
created; a file migrated from before applications has the column without it.

### SettingsCache

`table`, `cache` and, for each thread, a save and a draw. A save is
`SaveStart` (clamped form), `SaveLoadMin`, `SaveLoadMax`, `SaveCommit`,
`SaveReload`, `SavePublish`. A draw reads the copy twice (`DrawMin`, `DrawMax`),
or fills it first (`FillLoad`, `FillPublish`). `Restart` loses the copy and all
requests. Only the two intervals are modelled: they are the settings that relate.

### Heartbeat

`client.pc` is where `run` is: `core`, `asleep`, `connecting`, `sent`, `reading`,
`stopped`.

| Code | Actions |
| --- | --- |
| the core runs to its end (`client.py:157`); without `--beats` the client ends with it | `CoreReturns` |
| `time.sleep(every)`, where `--interval` overrides the server's interval | `Sleep`, `Every`, `Tick` |
| `urlopen`: connect, send, wait for the first bytes, read | `Beat`, `Send`, `FirstBytes`, `Receive` |
| its timeout, which holds for each socket operation (`client.py:73`) and starts again with the next | `TimedOut`, `Progress` |
| the checks of `heartbeat_once`: nonce, time stamp; whatever else is wrong | `Accepted`, `Refused`, `Stop` |
| `verify` and `_do_heartbeat` on a server thread | `ReadCard`, `ReadBinding`, `Sign` |

`Lose`, and the fact that no message is consumed on delivery, are the network.
Whether the card is active and the machine bound is decided by an environment
that may change either at any time. Clocks are relative, so time does not end;
time stamps count whole units. Signatures and sealing appear as what they
decide: whether an answer belongs to the current request. A server thread that
still handles a request when the client has read the first bytes of an answer is
dropped: what it signs belongs to an exchange that is over.

What the code does not bound, and the model leaves open: how long the core runs
before the first beat, how many addresses are tried one after another, and how
long an answer takes whose bytes keep coming within the timeout of each read.
While it waits in such an exchange the client neither goes on nor stops. The
model assumes one thing of an exchange: the first bytes that arrive for it are
an answer's that the server has signed, an old answer's, or no valid answer's,
so that nobody opens the reply early and completes it with a signature made
later.

### Accounts

State: the tables `admins`, `grants` (`admin_applications`), `apps` and `cards`
(of which only application and issuer are kept), `cookie[b]` and the request
`req[b]` of each browser. As above a request is cut at its queries and its
commit; `me` is the account as `get_current_admin` read it at the head of the
page and the handler goes on using it.

| Handler | Actions |
| --- | --- |
| login and logout, `/` and `/login` | `LoginRead`, `LoginCommit`, `Logout`, `Open`, `LoginPage`, `Dashboard`, `Bounce` (the `AuthRequired` handler) |
| `admin_create` | `CreateStart`, `FindName`, `PickApps`, `Insert` |
| `admin_set_apps` | `SetAppsStart`, `SetAppsTarget`, `PickApps`, `LoadOld` (the session loads the collection that is replaced), `Replace` (the difference is committed) |
| `admin_toggle`, `admin_delete` | `...Start`, `LoadTarget`, then `Toggle`, or `LoadGrants` and `Delete` |
| `generate_do` | `IssueStart`, `IssueScope`, `IssueCard` |
| pages of a card | `CardStart`, `LoadCard`, `ScopeCard`, `ActOnCard` |
| `bootstrap_admin` | `Init` and `Restart` |

`Listed` is `card_criterion` (SQL: `NULL` is in no list, an empty list selects
nothing), `CanAccessCard` its Python twin. The batch, and what a page does to a
card, are those of `CardIssue` and `CardRequests`; here a batch has one card and
a page changes or deletes it. A new row gets the id after the largest in use.

### KeyFiles and Launch

`file[f]` is one of the three files: absent, empty, or the number of the key in
it. `Check`, `Create`, `Write` are the body of `ensure_keys` for one file (an
existence test, `write_bytes` opening and truncating, the bytes reaching the
file); `StartProcess` and `Stop` may come at any point. `Procs` may be several:
the service and `tools.protect keyinfo` run the same function.

`Launch` follows one installed client. `FetchKeys`, `SendRequest`, `TakeReply`,
`TimeOut`, `Decrypt`, `Quit` are `run`, `_session` and `open_reply` of the
client; `Activate` (envelope opened, card activated and committed) and `Respond`
(application loaded, key chosen, answer signed) are the two halves of
`_do_session`; `wire` keeps messages until they are lost, so they may be late or
arrive twice; `EncryptRead` and `Distribute` are `protect encrypt` and the copy
to the customer. A payload key is a pair, whose it is and its version.
Encryption is the relation it establishes: an envelope opens with the box key
it was made for, an answer with the keys of its launch, a core with its key.
The client forgets a launch when it ends: its process ends. `CardChanges` is the
rest of `CardRequests` as far as a launch can tell. A card keeps its application
here; how it may lose it is `CardIssue`'s `DeleteApp`.

## 3. Runs

`tlc -config X.cfg M` for module M of the run. All bounds are constants.

| Run | Question | Instance |
| --- | --- | --- |
| `Serial` | do requests that run one after another implement the documented state machine (`ContractSpec`), do the columns agree, are the limit and bans kept, is re-pointing the only way to a second row of a machine? | 1 card, 2 machines, 1 thread, all operations, limits 0..2 submitted, extensions -1..1, 2 times, 3 device rows |
| `Concurrent` | orphans, overshoot, released rows, the dates of a card, foreign columns, two requests overlapping | 2 threads, 2 machines, limit 1, 2 times, 2 rows, all operations |
| `Issue` | batches, templates and deletions of applications, alone and overlapping; does the drawing loop end when codes run out? | 2 threads, 2 codes, 2 templates, batches of 1 or 2, one draw more than needed, fairness |
| `Settings` | ranges, draws and the copy in force, alone and overlapping, over restarts | 2 threads, range 2..4, forms below, in and above it |
| `HeartbeatLossy` | how recent is the licence behind a beat that the client accepts, and does a client whose licence stays revoked stop? | 2 server threads, intervals 1..2, no option or one of 3, timeout 2 per socket operation, window 2, clock skews -4, 0, 1, 3, fairness |
| `Accounts` | names, grants, the two rules of scope, the last super account, redirections | 2 browsers, 2 names, 2 or 3 account ids, 2 applications, 1 card, restarts, fairness |
| `Launch` | which key runs which program, over restarts, rotations and lost or repeated messages; does a launch succeed? | 2 processes, 2 keys per file, 2 applications, 2 versions, 2 launches, 1 or 2 messages, fairness |

Four runs hold several *scenes* in one: a variable of the MC module (`alone`,
`scene`) is chosen at the start and never changes, and the next-state relation
is narrowed accordingly. In `Issue` and `Settings`, `alone` says that a request
begins only when no other runs; properties named `Alone...` are claimed of that
scene, the others of both. In `Accounts` the scenes are requests alone with every
page and two applications; two overlapping requests that create accounts (three
ids); that manage two accounts and their grants; that manage them while one
works on cards. In `Launch`: two processes over the key files that start in
turn and stop anywhere; launches while keys are rotated and cores distributed;
launches while the card changes and the service stops and starts. The scenes
cut products that tell nothing more: which account creates another while a
third cancels a card, or a rotation while the key files are being created.

Runs that expect a violation show where the code departs from what its
documentation or comments say (the findings of `PROJECT.json`):

| Run | What TLC finds |
| --- | --- |
| `LimitOvershot` | two activations both count before either inserts: two machines on a card for one |
| `BanLost` | an activation that loaded an unused card commits over a ban |
| `RebindDuplicates` | a binding re-pointed to a machine that is bound: unbinding one row leaves the other (one thread is enough) |
| `ApplicationLost` | cards issued during the deletion of an application lose it |
| `GrantsMerged` | of two forms for an operator without grants one ticks application 1, the other 2; both load the empty set and insert their difference to it, and the operator has 1 and 2, which no order of the two leaves |

`GrantsMerged` starts when both forms are about to load the grants.
`OneFormStands` is `SetAppsReplaces` for the forms that change the grants: one
that overlaps another and changes nothing may count as served before it, and is
no merge. `NewBindingWithinLimit`, `BanIsSticky`, `CardsKeepApplication` and
`SetAppsReplaces` are each stated of requests alone in a passing run too: the
violation shows an overlap that breaks them. A theorem of section 4 says that no other kind of
overlap does. More properties fail in the same way under overlap and have no run
of their own; for each of these, too, a theorem says how:

* `LifecycleCoherent` - an unban stores a status chosen from a date that an
  activation or a reset changes meanwhile, and leaves an active card without
  dates, which never expires (`routers/cards.py:255`); or an activation commits
  over an extension and a reset, and does not write the expiry since it equals
  the one it read;
* `TemplatesDiffer` - two requests that find no template for a term both make
  one (`services/cards.py:62`); `NoConflict` - two batches draw one code, and the
  second fails as a whole;
* `CopyIsCurrent` - an older copy of the settings is published last, and in force
  until the next save or start (`services/settings.py:32`);
* `KeepsScope` - grants withdrawn between the check and the commit;
* the last super account: two that disable each other. `LastSuperByOverlap`
  says that this is the only way;
* `OnlyRepointingDoubles` - two activations of one machine both find no row;
* `KeysKept` when two processes create files at once: the second truncates the
  file the first has written (`KeysLostByOverlap`). Without overlap an interrupted
  start leaves an empty file for good (the test is for existence), so `LaunchSucceeds` asks for
  usable files (`Ready`).

Why the bounds are enough: a race of this code is between two requests on one
card (account, application, batch), rows are told apart by machine, name and
id, and each table invariant names at most two rows; that the overshoot grows
with the number of threads and no further is proved for any number of threads
and any limits that no edit lowers. Three rows in
`Serial` allow a released row, an active one and a reused id at once; two in
`Concurrent` allow the reuse and the overshoot. The clock reaches the expiry of a
card activated at 0, so a card expires, is reset and activated again within a
run, at another time than another request saw. In `Concurrent` an edit submits
the one limit there is, so it lowers none, and no extension; `Serial` varies both, and
`ColumnsHaveOwners` is proved for all. Two codes for batches of two run out
within one batch and are drawn twice within it. Three account ids let a name be
asked for by two forms beside the account that signed them in; two let an id be
given again after a deletion. Two versions and two launches let an answer with
the first version arrive in the second launch; two keys per file let a start
replace one if it could. The other invariants of `Accounts`, `Launch` and
`Heartbeat` are proved for all bounds.
Machines and threads are symmetric in `Serial` and `Concurrent` (no definition
names one); symmetry is not used in runs with fairness. Deadlock is checked in
every run.

Fairness. `HeartbeatLossy` assumes that time passes, that `time.sleep` returns,
and that one socket operation which has lasted for the timeout raises. An exchange
need not end by this, since `Progress` starts the timer again, nor does the core
return: `RevocationStops` has both as premises (the client is again and again
outside the core, connecting and reading). Nothing is assumed of server, network
or administrators. `Issue`
assumes that a thread in the drawing loop runs on; nothing in the loop blocks.
`Accounts` assumes that a browser follows a redirection and that the service
answers it. `Launch` assumes that a client to which answers of its launch keep
coming takes one (`SF`: each launch may time out, but not every one), and that
decryption, a local computation, is carried out (`WF`); that answers do keep
coming is the premise of `LaunchSucceeds`, not an assumption about the network.

## 4. Proofs

Eight modules of theorems, `tlapm <Module>.tla` for each. The assumptions are
those named with the constants: finite sets, bounds that are natural numbers,
`Null` outside the value sets. The theorems hold for every number of cards,
machines, codes, threads, accounts, browsers, applications, launches, processes
and versions. Every invariant and action property of the passing runs is the
conclusion of a theorem.

Some claims are false under overlap. Their theorems have the form
`Spec /\ [][A]_vars => P`: A is a predicate of one step that excludes one thing a
commit may meet, and nothing else; every other interleaving is covered. Read the
other way round, a behaviour that violates P has a step that violates A, so A
is what a lock or a check at the commit would have to ensure:

| Claim | broken only by | Theorem |
| --- | --- | --- |
| `BanIsSticky` | a ban commits while an activation that loaded the card unused is in flight (`NoBanMeanwhile`) | `BansOutlastRequests` |
| `NewBindingWithinLimit` | another activation binds after the count, or an edit lowers the limit under an activation (`CountStands`) | `LimitNeedsStableCount` |
| `OvershootBounded` | an edit lowers a limit (`LimitsStand`) | `OvershootIsBounded` |
| `LifecycleCoherent` | an unban or a reset commits over a start it has not read, an activation over an expiry it has not read (`DatesStand`) | `LifecycleNeedsFreshDates` |
| `OnlyRepointingDoubles` | the machine is bound between query and insertion (`MachineStands`); a page re-points a row whose id was given again (`RowsStand`) | `DoublesNeedRace` |
| `TemplatesDiffer` | two requests that found no template for the same terms both make one (`MakesOnce`) | `OneTemplatePerTerms` |
| `CardsKeepApplication` | a batch is inserted between the count of the cards and their loading (`NoneAfterCount`) | `OnlyAfterCount` |
| `NoConflict` | two batches drew one code; a batch and the deletion of its application meet (`Undisturbed`) | `ConflictsNeedDisturbance` |
| `CopyIsCurrent` | a save commits between another thread's reading and its publishing (`CommitsInTurn`) | `StaleByCommitBetween` |
| `SetAppsReplaces` | another commit changes the operator's grants or account after the form loaded them, or an application gets a reused id (`FormsApart`) | `FormsReplace` |
| `KeepsScope` | the account, the grants, the card or the application change after the check (`ScopeStands`) | `OperatorsKeepScope` |
| `KeysKept` | a key file is written between another process's finding it missing and that one's write (`WritesUnawaited`) | `KeysLostByOverlap` |

The premises are not stronger than they need to be in the parts that were tried:
for the four claims of a card, TLC finds the claim violated, with two requests on
one card, when either conjunct of a premise is dropped or its condition narrowed.
The claims of one request at a time that the runs check are corollaries
(`TemplatesAloneDiffer`, `CardsAloneKeepApplication`, `BatchesAloneAreAdmitted`,
`SavesTakeEffect`, `FormsAloneReplace`, `OperatorsAloneKeepScope`): in the scene
`alone` the excluded steps do not occur.

Cards, any interleaving (`CardRequestsProofs`):

* `TypesHold`: `TypeOK` is not inductive, because a commit needs to know what
  its request carries. `TypeInv` adds `WellFormed`: a request in flight has its
  card, and its loaded and wanted rows unless it is about a device.
* `NoOrphanDevices`: with `TypeInv`, by the three ways `Commit` writes devices
  (`CommittedRow`): an insertion needs the card, the deletion of a card needs
  every row of it among those it deletes, nothing else changes a row's card.
* `ReleasedForGood`: no commit writes `active` over an existing row.
* `ColumnsHaveOwners`: `OwnedInv` says of each request in flight that `want`
  differs from `seen` only in columns its operation owns; with the column-wise
  flush, so does the table.

* `TermsAreWhole`: the expiry of a started time card is its start plus its term,
  with one assumption on the constants, `NoEditMovesExpiry` (no edit or no
  extension), which is what the property is about. `DatesInv` says of each
  request in flight that the dates it loaded belong together and that it
  changes both or neither.

Cards, one request per card (`CardClaimsProofs`): the premise is the state
predicate `OnePerCard`: requests in flight work on different cards. One thread
implies it (`OneThreadIsEnough`), which is the run `Serial`. `SerialInv` says
that what a request loaded is still what the tables hold (`Current`), what it has
decided follows from it (`Decided`), and the columns of each row agree
(`Coherent`). `SerialStep` uses the premise by `InFlightElsewhere` and
`OtherCardsKeepRows`: whoever is in flight during a commit works on another card,
whose rows stay. From it `LifecycleHolds`, `LimitHolds`, `BansHold`; with
`LookedInv` (an activation about to insert has found no row of the machine)
`MachinesBindOnce`; and `ContractHolds`, the refinement: `CommittedCard` and
`CommittedCount` say what a commit makes of the card and of the number of its
bindings, `MappedCommit` finds the operation of `CardContract` it is, every other
step is a stutter.

Cards, overlap on one card (`CardOverlapProofs`). Nothing a request has loaded
can be taken to be current, so the argument starts from what is true of the
request by itself: `JudgedInv` says what it means to write, judged from the row it
loaded, `OwnedInv` that it writes no other column, and `FlushedColumns` what the
flush makes of the row as it is by then. Both hold of all behaviours. Then one
invariant per claim, kept by every step that satisfies the premise:
`UnbannedInv` (an activation that will write the status finds the card not
banned), `RoomInv` (the limit an activation read is not above the limit, and who
has counted has room), `AgreeInv` (columns agree in the table and in what was
loaded; `FlushAgrees` mixes the two), `LookedInv` again.

`OvershootIsBounded` says how far overlap goes: the bindings of a card exceed the
card's own limit by at most one per other thread. Its premise is `LimitsStand`:
an edit that lowers a limit of two to one under two bindings exceeds it with no
other thread, so the claim is of cards whose limit no edit lowers (in
`Concurrent`, where there is one limit, that is every card). The bound counts
bound rows *and* requests that passed the check (`Binding`); over the rows alone
it is not inductive. `OnlyCountLeadsToBinding` says that only `ActivateCount`
adds a request to the set, and then the rows are below the limit it read, which
is not above the limit (`ReadLimitInv`), and at most all other threads are in the
set; an insertion moves one from the set to the rows (`BindingsGrowByInsertion`).

Issue: `CardsAreNotOrphaned`, `CardsAreIssuedOnce`, `IssueTypes` over `IssueInv`,
which adds to the types that a batch being drawn or inserted has its template.
For the three theorems under overlap: `TemplateInv` (who is about to make a
template finds none), `EmptyInv` (who is about to load or delete found no card
and there is none), `AdmittedInv` (`StillSo`: the application is there, the codes
drawn are free and differ).

Settings: `IntervalsInRange`, `DrawsSucceed` over `SettingsInv`, which adds that a
copy about to be published exists and that a draw on its way to the maximum has
its minimum and a copy to read. `StaleByCommitBetween` over `CopyInv`: what is
about to be published is the table's, and a copy in force that is not will be
replaced by a save in progress.

Heartbeat: `RenewalsAreRecent`. An answer is accepted at an age that the window
allows (`Slack`), so it remains to be shown that what it was signed over was good
one timeout before it was signed, however long it took to be read (`Read`). The
server reads card and binding after the request went out and signs before the
first bytes come, and in between the client is in one socket operation, so what
a thread has read so far, and what an answer under way says, was good within the
part of the timeout that has passed (`Recent`, `Handled`). The nonce excludes the
answers to earlier requests, the time stamp bounds the rest of the exchange, and
the sleep adds what has passed of it. With the window alone, or the timeout alone,
there is no bound.

Accounts, over `AccountsInv` (`TypeOK` and `Carries`, what a request has read by
each of its steps): `AccountTypes`; `NamesAreUnique`; `GrantsHaveBothEnds`, for
which the ends of a new grant are checked at the commit and the deletion of
either end takes the grants made since they were loaded; `ListsFollowScope`, by
the types alone: a card without an issuer has no application, which is what
makes the two rules agree on `NULL`; `LastSuperGoesByOverlap`, because a page
that switches or deletes never has its own account as target. `FormsReplace` needs
`FormsInv`, that the set a form has loaded is still the operator's as far as its
applications are there; `OperatorsKeepScope` needs `RightsInv`, which follows an
operator from the page to the commit: its account has the name it was read
under, its grants contain what was checked, the card is the one it read.

Key files and launches: `KeysLostByOverlap` from `KeysInv` and `Creating` (nobody
has written a file that a process is about to create). Its premise,
`WritesUnawaited`, leaves processes free to start, stop and create other files at
any moment. `WrittenKeysStay`, for starts that follow one another (`InTurn`, as
in the run), is a corollary: alone, a process writes no file another waits to
write. `LaunchTypes`, `OtherCardsUnlockNothing`, `NoOldKeyIsTaken` from `LaunchInv`: an answer under way
carries the key of the card's application, and if it is for the launch in
progress, one not older than its start (`Delivers`); what the client took has
both properties (`Taken`); a core is that of the program (`Distributed`). Neither
property is inductive without what is said of the messages.

Only model-checked: `RevocationStops`, `IssueEnds`, `RedirectsEnd` and
`LaunchSucceeds`. They are liveness properties, and fairness and `ENABLED` are out
of the prover's reach.

## 5. Not modelled

Hashing, key derivation, encryption and signatures are the library's and appear
only as the relations they establish; passwords with them, so the reset of a
password changes nothing here. Rendering, flash messages and the wording of
answers decide nothing, nor do the logs: that a log entry is a commit of its own
and may be missing after a stop is a hazard without a property. MySQL is
mentioned by the configuration; the sessions of the models are those of SQLite.
The migration of older files runs once before requests are served; it adds
`cards.application_id` without a foreign key, so on such a file the last check
of an issue against the deletion of its application (`ApplicationIsThere` in
`CardIssue`) is missing. Demonstration data is written while the service is down.

Two identities are what the code makes them, and no property says what they
should be: the cookie holds an account id, which a later account may be given,
and the issuer of a card is a name, which a later account may take.

## 6. Plan

Done in this order: cards and devices with their proofs; settings; heartbeat;
issue; accounts, scope and login; key files and launches; the claims of one
request at a time and the refinement as theorems; the claims under overlap, key
files with them. To do, most important first:

1. The safety half of `RevocationStops` and `LaunchSucceeds`: the measures that
   decrease, as action properties that can be proved.
2. `KeyFiles` and the migration of older files as one start-up, with the writes
   of `main.py` in their order.
3. Pure functions against reference definitions: pagination, the framing of
   signed transcripts, grouping of codes.
