--------------------------- MODULE SettingsCache ---------------------------
(***************************************************************************)
(* The `settings' table, the copy of it that the process keeps in a global *)
(* variable, the requests that save settings and those that draw the next  *)
(* heartbeat interval from them.                                           *)
(*                                                                         *)
(* A save loads the row of each key, changes it in memory, commits, loads  *)
(* the whole table again and replaces the copy: five steps, and another    *)
(* save may stand between any two of them.  Of a row only a value that     *)
(* differs from the loaded one is written.  A draw reads the copy twice,   *)
(* for the minimum and for the maximum.                                    *)
(***************************************************************************)
EXTENDS Integers

CONSTANTS
    Threads,   \* pool threads
    Floor,     \* the shortest interval the service accepts (10 seconds)
    Ceiling,   \* the longest (3600 seconds)
    Submitted, \* what administrators type into the form
    DefaultMin, DefaultMax,  \* DEFAULTS: 45 and 90 seconds
    Null

Keys == {"heartbeat_min", "heartbeat_max"}

ASSUME SettingsAssumption ==
    /\ Floor \in Nat \ {0} /\ Ceiling \in Nat /\ Floor <= Ceiling
    /\ Submitted \subseteq Int
    /\ DefaultMin \in Floor..Ceiling /\ DefaultMax \in DefaultMin..Ceiling
    /\ Null \notin Int /\ Null \notin [Keys -> Int]

Intervals == Floor..Ceiling
Stored    == [Keys -> Intervals \cup {Null}]
Settings  == [Keys -> Intervals]
NoRows    == [k \in Keys |-> Null]

VARIABLES
    table,  \* the committed `settings' table: key |-> value, or Null without a row
    cache,  \* the process's copy, Null before the first use
    save,   \* thread |-> the save it runs
    draw    \* thread |-> the draw of an interval it runs

vars == <<table, cache, save, draw>>

SaveRequest == [pc: {"idle", "load_min", "load_max", "commit", "reload", "publish"},
                form: Settings, loaded: Stored, copy: Settings \cup {Null}]
DrawRequest == [pc: {"idle", "fill", "max", "failed"}, copy: Settings \cup {Null},
                lo: Intervals \cup {Null}, drawn: Intervals \cup {Null}]

Merged(rows) ==
    [k \in Keys |-> IF rows[k] # Null THEN rows[k]
                    ELSE IF k = "heartbeat_min" THEN DefaultMin ELSE DefaultMax]

Larger(a, b)  == IF a >= b THEN a ELSE b
Smaller(a, b) == IF a <= b THEN a ELSE b

-----------------------------------------------------------------------------
(* settings_save and set_many                                              *)

\* Mutation: the form value is stored as submitted if it is not too large.
ClampAbove(v) == Smaller(v, Ceiling)

Clamp(v) == Larger(Floor, Smaller(v, Ceiling))

\* The two values a submitted form stores: each clamped, the maximum raised
\* to the minimum.
FormOf(min, max) ==
    [k \in Keys |-> IF k = "heartbeat_min" THEN Clamp(min)
                    ELSE Larger(Clamp(min), Clamp(max))]

SaveStart(t, min, max) ==
    /\ save[t].pc = "idle" /\ draw[t].pc = "idle"
    /\ save' = [save EXCEPT ![t] = [pc |-> "load_min", form |-> FormOf(min, max),
                                    loaded |-> NoRows, copy |-> Null]]
    /\ UNCHANGED <<table, cache, draw>>

SaveLoad(t, at, key, next) ==
    /\ save[t].pc = at
    /\ save' = [save EXCEPT ![t].pc = next, ![t].loaded[key] = table[key]]
    /\ UNCHANGED <<table, cache, draw>>

SaveLoadMin(t) == SaveLoad(t, "load_min", "heartbeat_min", "load_max")
SaveLoadMax(t) == SaveLoad(t, "load_max", "heartbeat_max", "commit")

\* A row that was there is updated if its value changed; a row that was not
\* is inserted, which fails when another save inserted it meanwhile.
SaveCommit(t) ==
    LET r == save[t]
        inserted == {k \in Keys : r.loaded[k] = Null} IN
    /\ r.pc = "commit"
    /\ \/ /\ \A k \in inserted : table[k] = Null
          /\ table' = [k \in Keys |->
                IF r.form[k] = r.loaded[k] THEN table[k] ELSE r.form[k]]
          /\ save' = [save EXCEPT ![t].pc = "reload"]
       \/ /\ \E k \in inserted : table[k] # Null
          /\ save' = [save EXCEPT ![t].pc = "idle"]
          /\ UNCHANGED table
    /\ UNCHANGED <<cache, draw>>

\* refresh_cache reads the table ...
SaveReload(t) ==
    /\ save[t].pc = "reload"
    /\ save' = [save EXCEPT ![t].pc = "publish", ![t].copy = Merged(table)]
    /\ UNCHANGED <<table, cache, draw>>

\* Mutation: the copy is left as it was.
PublishNothing(t) ==
    /\ save[t].pc = "publish"
    /\ save' = [save EXCEPT ![t].pc = "idle", ![t].copy = Null]
    /\ UNCHANGED <<table, cache, draw>>

\* ... and then replaces the copy.
SavePublish(t) ==
    /\ save[t].pc = "publish"
    /\ cache' = save[t].copy
    /\ save' = [save EXCEPT ![t].pc = "idle", ![t].copy = Null]
    /\ UNCHANGED <<table, draw>>

-----------------------------------------------------------------------------
(* _next_interval                                                          *)

Ready(t) == save[t].pc = "idle" /\ draw[t].pc = "idle"

ReadMin(t, settings) ==
    draw' = [draw EXCEPT ![t] = [pc |-> "max", copy |-> Null, drawn |-> Null,
                lo |-> Larger(Floor, settings["heartbeat_min"])]]

DrawMin(t) ==
    /\ Ready(t) /\ cache # Null
    /\ ReadMin(t, cache)
    /\ UNCHANGED <<table, cache, save>>

\* The first use: get_settings loads the table, then sets the copy, even if
\* a save has set a newer one in between.
FillLoad(t) ==
    /\ Ready(t) /\ cache = Null
    /\ draw' = [draw EXCEPT ![t] = [pc |-> "fill", copy |-> Merged(table),
                                    lo |-> Null, drawn |-> Null]]
    /\ UNCHANGED <<table, cache, save>>

FillPublish(t) ==
    /\ draw[t].pc = "fill"
    /\ cache' = draw[t].copy
    /\ ReadMin(t, draw[t].copy)
    /\ UNCHANGED <<table, save>>

\* Mutation: the maximum is taken as it is stored.
UpperAsStored(lo, max) == max

Upper(lo, max) == Larger(lo, max)

\* One of lo..hi is drawn; an empty range would be an error.
DrawMax(t) ==
    LET lo == draw[t].lo
        hi == Upper(lo, cache["heartbeat_max"]) IN
    /\ draw[t].pc = "max"
    /\ \/ \E n \in lo..hi :
             draw' = [draw EXCEPT ![t] = [pc |-> "idle", copy |-> Null,
                                              lo |-> Null, drawn |-> n]]
       \/ /\ lo > hi
          /\ draw' = [draw EXCEPT ![t].pc = "failed"]
    /\ UNCHANGED <<table, cache, save>>

-----------------------------------------------------------------------------
IdleSave == [pc |-> "idle", form |-> Merged(NoRows), loaded |-> NoRows, copy |-> Null]
IdleDraw == [pc |-> "idle", copy |-> Null, lo |-> Null, drawn |-> Null]

\* The process ends and starts again: requests and copy are lost.
Restart ==
    /\ cache' = Null
    /\ save' = [t \in Threads |-> IdleSave]
    /\ draw' = [t \in Threads |-> IdleDraw]
    /\ UNCHANGED table

Init ==
    /\ table = NoRows
    /\ cache = Null
    /\ save = [t \in Threads |-> IdleSave]
    /\ draw = [t \in Threads |-> IdleDraw]

Next ==
    \/ \E t \in Threads :
          \/ \E min, max \in Submitted : SaveStart(t, min, max)
          \/ SaveLoadMin(t)
          \/ SaveLoadMax(t)
          \/ SaveCommit(t)
          \/ SaveReload(t)
          \/ SavePublish(t)
          \/ DrawMin(t)
          \/ FillLoad(t)
          \/ FillPublish(t)
          \/ DrawMax(t)
    \/ Restart

Spec == Init /\ [][Next]_vars

-----------------------------------------------------------------------------
\* Every interval stored, copied or drawn is one the service accepts, from
\* 10 seconds to an hour, whatever the forms say.
TypeOK ==
    /\ table \in Stored
    /\ cache \in Settings \cup {Null}
    /\ save \in [Threads -> SaveRequest]
    /\ draw \in [Threads -> DrawRequest]

\* No draw meets an empty range.  Two saves that overlap may leave a minimum
\* above the maximum in the table, and a draw may take its minimum from one
\* copy and its maximum from the next: the draw has to cope with both.
DrawNeverFails == \A t \in Threads : draw[t].pc # "failed"

\* With no request running, the intervals in force are the stored ones: what
\* was saved takes effect.  Requests that overlap break this until the next
\* save or start: an older copy may be published last.
CopyIsCurrent ==
    (\A t \in Threads : Ready(t)) /\ cache # Null => cache = Merged(table)
=============================================================================
