------------------------------ MODULE KeyFiles ------------------------------
(***************************************************************************)
(* The server's key files under data/keys and ensure_keys, which every     *)
(* process runs when it starts and before each use of a key: a file that   *)
(* is not there is created empty, then written.  A process may stop        *)
(* anywhere in between, and a second one may be at it too: the service and *)
(* `tools.protect keyinfo', or the service under a reloader.               *)
(***************************************************************************)
EXTENDS Integers

CONSTANTS
    Procs,    \* processes that use the files
    MaxMade,  \* bound: keys ever generated for a file
    Empty, Null

\* In the order of ensure_keys.
Files == <<"ed25519_priv.key", "x25519_priv.key", "payload.key">>

Ordinals == 1..3

ASSUME KeyFilesAssumption == MaxMade \in Nat \ {0} /\ {Empty, Null} \cap Nat = {} /\ Empty # Null

VARIABLES
    file,  \* ordinal |-> Null, Empty or the number of the key it holds
    made,  \* ordinal |-> how many keys were generated for it
    proc   \* process |-> where it is in ensure_keys, and with which key

keyvars == <<file, made, proc>>

Key     == 1..MaxMade
Process == [pc: {"off", "check", "create", "write", "up"}, at: Ordinals, key: Key \cup {Null}]
Off     == [pc |-> "off", at |-> 1, key |-> Null]

Usable(f) == file[f] \in Key

StartProcess(p) ==
    /\ proc[p].pc = "off"
    /\ proc' = [proc EXCEPT ![p].pc = "check"]
    /\ UNCHANGED <<file, made>>

Passed(r) == IF r.at = 3 THEN [Off EXCEPT !.pc = "up"]
             ELSE [pc |-> "check", at |-> r.at + 1, key |-> Null]

\* Mutation: keys are made anew with each start.
AlwaysMissing(f) == TRUE

\* The test is for existence: an empty file counts as a key.
Missing(f) == file[f] = Null

\* A file that is there is left alone; for another a key is generated.
Check(p) ==
    LET f == proc[p].at IN
    /\ proc[p].pc = "check"
    /\ \/ /\ ~Missing(f)
          /\ proc' = [proc EXCEPT ![p] = Passed(@)]
          /\ UNCHANGED made
       \/ /\ Missing(f) /\ made[f] < MaxMade
          /\ proc' = [proc EXCEPT ![p].pc = "create", ![p].key = made[f] + 1]
          /\ made' = [made EXCEPT ![f] = @ + 1]
    /\ UNCHANGED file

\* write_bytes opens the file, which empties it whatever it holds by now ...
Create(p) ==
    /\ proc[p].pc = "create"
    /\ file' = [file EXCEPT ![proc[p].at] = Empty]
    /\ proc' = [proc EXCEPT ![p].pc = "write"]
    /\ UNCHANGED made

\* ... and writes the key as it closes it.
Write(p) ==
    /\ proc[p].pc = "write"
    /\ file' = [file EXCEPT ![proc[p].at] = proc[p].key]
    /\ proc' = [proc EXCEPT ![p] = Passed(@)]
    /\ UNCHANGED made

Stop(p) ==
    /\ proc[p].pc # "off"
    /\ proc' = [proc EXCEPT ![p] = Off]
    /\ UNCHANGED <<file, made>>

Ensure(p) == Check(p) \/ Create(p) \/ Write(p)

KeysNext == \E p \in Procs : StartProcess(p) \/ Ensure(p) \/ Stop(p)

KeysInit ==
    /\ file = [f \in Ordinals |-> Null]
    /\ made = [f \in Ordinals |-> 0]
    /\ proc = [p \in Procs |-> Off]

KeysTypeOK ==
    /\ file \in [Ordinals -> Key \cup {Null, Empty}]
    /\ made \in [Ordinals -> 0..MaxMade]
    /\ proc \in [Procs -> Process]

\* One process at a time creates key files.
InTurn ==
    \A p, q \in Procs : p # q /\ proc'[p].pc \notin {"off", "up"} =>
        proc'[q].pc \in {"off", "up"}

\* A key that was written stays: what clients pinned goes on verifying, over
\* restarts and over stops in the middle of a start.
Kept == \A f \in Ordinals : Usable(f) => file'[f] = file[f]
KeysKept == [][Kept]_keyvars
=============================================================================
