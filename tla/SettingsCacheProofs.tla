------------------------ MODULE SettingsCacheProofs ------------------------
(***************************************************************************)
(* For any number of threads and any forms: every interval that is stored, *)
(* copied or drawn is in range, and no draw fails, however saves, draws    *)
(* and restarts interleave.  The copy in force is that of the table unless *)
(* a save commits between another thread's reading and its publishing.     *)
(***************************************************************************)
EXTENDS MCSettingsCache, TLAPS

USE SettingsAssumption

\* What the steps of saves and draws rely on: a copy to publish is there, a
\* save that commits has loaded rows of the right shape, a draw that goes on
\* to the maximum has its minimum and the copy is not empty.
InStep ==
    /\ \A t \in Threads : save[t].pc = "publish" => save[t].copy # Null
    /\ \A t \in Threads : draw[t].pc = "fill" => draw[t].copy # Null
    /\ \A t \in Threads : draw[t].pc = "max" => draw[t].lo # Null /\ cache # Null

SettingsInv == TypeOK /\ InStep /\ DrawNeverFails

GoodSave(r) == r \in SaveRequest /\ (r.pc = "publish" => r.copy # Null)
GoodDraw(r, c) ==
    /\ r \in DrawRequest /\ r.pc # "failed"
    /\ r.pc = "fill" => r.copy # Null
    /\ r.pc = "max" => r.lo # Null /\ c # Null

LEMMA SettingsAreNotNull == \A s \in Settings : s # Null
BY DEF Settings, Intervals

\* The form's values and the copies are intervals.
LEMMA ClampInRange == \A v \in Int : Clamp(v) \in Intervals
BY DEF Clamp, Larger, Smaller, Intervals

LEMMA FormInRange == \A min, max \in Int : FormOf(min, max) \in Settings
<1> SUFFICES ASSUME NEW min \in Int, NEW max \in Int PROVE FormOf(min, max) \in Settings
  OBVIOUS
<1>1. Clamp(min) \in Intervals /\ Clamp(max) \in Intervals
  BY ClampInRange
<1>2. Larger(Clamp(min), Clamp(max)) \in Intervals
  BY <1>1 DEF Larger
<1> QED
  BY <1>1, <1>2 DEF FormOf, Settings

LEMMA MergedInRange == \A rows \in Stored : Merged(rows) \in Settings
BY DEF Merged, Stored, Settings, Keys, Intervals

LEMMA NoRowsStored == NoRows \in Stored
BY DEF NoRows, Stored

\* A step that replaces one save, or one draw, by a good one.
LEMMA OneSaveChanges ==
    ASSUME SettingsInv, NEW t \in Threads, NEW r, GoodSave(r), save' = [save EXCEPT ![t] = r]
    PROVE  /\ save' \in [Threads -> SaveRequest]
           /\ \A u \in Threads : save'[u].pc = "publish" => save'[u].copy # Null
BY DEF SettingsInv, TypeOK, InStep, GoodSave

LEMMA OneDrawChanges ==
    ASSUME SettingsInv, NEW t \in Threads, NEW r, GoodDraw(r, cache'),
           draw' = [draw EXCEPT ![t] = r], cache # Null => cache' # Null
    PROVE  /\ draw' \in [Threads -> DrawRequest]
           /\ \A u \in Threads : draw'[u].pc = "fill" => draw'[u].copy # Null
           /\ \A u \in Threads : draw'[u].pc = "max" => draw'[u].lo # Null /\ cache' # Null
           /\ \A u \in Threads : draw'[u].pc # "failed"
BY DEF SettingsInv, TypeOK, InStep, DrawNeverFails, GoodDraw

LEMMA IdleRequestsAreGood ==
    GoodSave(IdleSave) /\ (\A c : GoodDraw(IdleDraw, c))
<1>1. IdleSave \in SaveRequest
  BY NoRowsStored, MergedInRange DEF IdleSave, SaveRequest
<1>2. IdleDraw \in DrawRequest
  BY DEF IdleDraw, DrawRequest
<1> QED
  BY <1>1, <1>2 DEF GoodSave, GoodDraw, IdleSave, IdleDraw

\* The five steps of a save.
LEMMA SaveStepKeeps ==
    ASSUME SettingsInv, NEW t \in Threads,
           \/ \E min, max \in Submitted : SaveStart(t, min, max)
           \/ SaveLoadMin(t) \/ SaveLoadMax(t) \/ SaveCommit(t)
           \/ SaveReload(t) \/ SavePublish(t)
    PROVE  SettingsInv'
<1> DEFINE r == save[t]
<1>1. r \in SaveRequest /\ (r.pc = "publish" => r.copy # Null) /\ table \in Stored
  BY DEF SettingsInv, TypeOK, InStep
<1> DEFINE SavesGood == /\ save' \in [Threads -> SaveRequest]
                        /\ \A u \in Threads : save'[u].pc = "publish" => save'[u].copy # Null
<1>2. CASE \E min, max \in Submitted : SaveStart(t, min, max)
  <2>1. PICK min \in Submitted, max \in Submitted : SaveStart(t, min, max)
    BY <1>2
  <2> DEFINE next == [pc |-> "load_min", form |-> FormOf(min, max), loaded |-> NoRows, copy |-> Null]
  <2>2. FormOf(min, max) \in Settings
    BY FormInRange
  <2>3. GoodSave(next)
    BY <2>2, NoRowsStored DEF GoodSave, SaveRequest
  <2>4. save' = [save EXCEPT ![t] = next]
    BY <2>1 DEF SaveStart
  <2>5. SavesGood
    <3> HIDE DEF next
    <3> QED BY <2>3, <2>4, OneSaveChanges
  <2> QED
    BY <2>1, <2>5 DEF SaveStart, SettingsInv, TypeOK, InStep, DrawNeverFails
<1>3. ASSUME NEW key \in Keys, NEW at, NEW next \in {"load_max", "commit"}, SaveLoad(t, at, key, next)
      PROVE  SettingsInv'
  <2> DEFINE later == [r EXCEPT !.pc = next, !.loaded = [r.loaded EXCEPT ![key] = table[key]]]
  <2>1. [r.loaded EXCEPT ![key] = table[key]] \in Stored
    BY <1>1 DEF SaveRequest, Stored
  <2>2. GoodSave(later)
    BY <1>1, <2>1 DEF GoodSave, SaveRequest
  <2>3. save' = [save EXCEPT ![t] = later]
    BY <1>3 DEF SaveLoad, SettingsInv, TypeOK
  <2>4. SavesGood
    <3> HIDE DEF later
    <3> QED BY <2>2, <2>3, OneSaveChanges
  <2> QED
    BY <1>3, <2>4 DEF SaveLoad, SettingsInv, TypeOK, InStep, DrawNeverFails
<1>4. CASE SaveCommit(t)
  <2>1. r.form \in Settings /\ r.loaded \in Stored
    BY <1>1 DEF SaveRequest
  <2>2. table' \in Stored
    BY <1>1, <1>4, <2>1 DEF SaveCommit, Settings, Stored
  <2>3. PICK pc \in {"reload", "idle"} : save' = [save EXCEPT ![t] = [r EXCEPT !.pc = pc]]
    BY <1>4 DEF SaveCommit, SettingsInv, TypeOK
  <2>4. GoodSave([r EXCEPT !.pc = pc])
    BY <1>1 DEF GoodSave, SaveRequest
  <2>5. SavesGood
    BY <2>3, <2>4, OneSaveChanges
  <2> QED
    BY <1>4, <2>2, <2>5 DEF SaveCommit, SettingsInv, TypeOK, InStep, DrawNeverFails
<1>5. CASE SaveReload(t)
  <2> DEFINE next == [r EXCEPT !.pc = "publish", !.copy = Merged(table)]
  <2>1. Merged(table) \in Settings /\ Merged(table) # Null
    BY <1>1, MergedInRange, SettingsAreNotNull
  <2>2. GoodSave(next)
    BY <1>1, <2>1 DEF GoodSave, SaveRequest
  <2>3. save' = [save EXCEPT ![t] = next]
    BY <1>5 DEF SaveReload, SettingsInv, TypeOK
  <2>4. SavesGood
    <3> HIDE DEF next
    <3> QED BY <2>2, <2>3, OneSaveChanges
  <2> QED
    BY <1>5, <2>4 DEF SaveReload, SettingsInv, TypeOK, InStep, DrawNeverFails
<1>6. CASE SavePublish(t)
  <2>1. cache' \in Settings /\ cache' # Null
    BY <1>1, <1>6, SettingsAreNotNull DEF SavePublish, SaveRequest
  <2>2. GoodSave([r EXCEPT !.pc = "idle", !.copy = Null])
    BY <1>1 DEF GoodSave, SaveRequest
  <2>3. save' = [save EXCEPT ![t] = [r EXCEPT !.pc = "idle", !.copy = Null]]
    BY <1>6 DEF SavePublish, SettingsInv, TypeOK
  <2>4. SavesGood
    BY <2>2, <2>3, OneSaveChanges
  <2> QED
    BY <1>6, <2>1, <2>4 DEF SavePublish, SettingsInv, TypeOK, InStep, DrawNeverFails
<1> QED
  BY <1>2, <1>3, <1>4, <1>5, <1>6 DEF SaveLoadMin, SaveLoadMax, Keys

\* The steps of a draw.
LEMMA DrawStepKeeps ==
    ASSUME SettingsInv, NEW t \in Threads,
           DrawMin(t) \/ FillLoad(t) \/ FillPublish(t) \/ DrawMax(t)
    PROVE  SettingsInv'
<1> DEFINE r == draw[t]
<1>1. /\ r \in DrawRequest /\ table \in Stored /\ cache \in Settings \cup {Null}
      /\ r.pc = "fill" => r.copy # Null
      /\ r.pc = "max" => r.lo # Null /\ cache # Null
  BY DEF SettingsInv, TypeOK, InStep
<1> DEFINE DrawsGood ==
      /\ draw' \in [Threads -> DrawRequest]
      /\ \A u \in Threads : draw'[u].pc = "fill" => draw'[u].copy # Null
      /\ \A u \in Threads : draw'[u].pc = "max" => draw'[u].lo # Null /\ cache' # Null
      /\ \A u \in Threads : draw'[u].pc # "failed"
<1>2. ASSUME NEW s \in Settings, ReadMin(t, s), cache' \in Settings PROVE DrawsGood
  <2>1. s["heartbeat_min"] \in Intervals
    BY DEF Settings, Keys
  <2>2. Larger(Floor, s["heartbeat_min"]) \in Intervals
    BY <2>1 DEF Larger, Intervals
  <2> DEFINE next == [pc |-> "max", copy |-> Null, drawn |-> Null,
                      lo |-> Larger(Floor, s["heartbeat_min"])]
  <2>3. next.lo # Null /\ cache' # Null
    BY <1>2, <2>2, SettingsAreNotNull DEF Intervals
  <2>4. GoodDraw(next, cache')
    BY <2>2, <2>3 DEF GoodDraw, DrawRequest
  <2>5. draw' = [draw EXCEPT ![t] = next]
    BY <1>2 DEF ReadMin
  <2> HIDE DEF next
  <2> QED BY <2>3, <2>4, <2>5, OneDrawChanges
<1>3. CASE DrawMin(t)
  <2>1. DrawsGood
    BY <1>1, <1>2, <1>3 DEF DrawMin
  <2> QED
    BY <1>3, <2>1 DEF DrawMin, SettingsInv, TypeOK, InStep, DrawNeverFails
<1>4. CASE FillLoad(t)
  <2> DEFINE next == [pc |-> "fill", copy |-> Merged(table), lo |-> Null, drawn |-> Null]
  <2>1. Merged(table) \in Settings /\ Merged(table) # Null
    BY <1>1, MergedInRange, SettingsAreNotNull
  <2>2. GoodDraw(next, cache')
    BY <2>1 DEF GoodDraw, DrawRequest
  <2>3. draw' = [draw EXCEPT ![t] = next] /\ UNCHANGED cache
    BY <1>4 DEF FillLoad
  <2>4. DrawsGood
    <3> HIDE DEF next
    <3> QED BY <2>2, <2>3, OneDrawChanges
  <2> QED
    BY <1>4, <2>4 DEF FillLoad, SettingsInv, TypeOK, InStep, DrawNeverFails
<1>5. CASE FillPublish(t)
  <2>1. r.copy \in Settings /\ cache' = r.copy /\ ReadMin(t, r.copy)
    BY <1>1, <1>5 DEF FillPublish, DrawRequest
  <2>2. DrawsGood
    BY <1>2, <2>1
  <2> QED
    BY <1>5, <2>1, <2>2 DEF FillPublish, SettingsInv, TypeOK, InStep, DrawNeverFails
<1>6. CASE DrawMax(t)
  <2>1. /\ r.lo \in Intervals /\ cache["heartbeat_max"] \in Intervals
        /\ r.pc = "max" /\ UNCHANGED cache
    BY <1>1, <1>6 DEF DrawMax, DrawRequest, Settings, Keys
  <2> DEFINE hi == Upper(r.lo, cache["heartbeat_max"])
  <2>2. hi \in Intervals /\ ~(r.lo > hi)
    BY <2>1 DEF Upper, Larger, Intervals
  <2>3. PICK n \in r.lo..hi :
          draw' = [draw EXCEPT ![t] = [pc |-> "idle", copy |-> Null, lo |-> Null, drawn |-> n]]
    <3> HIDE DEF hi
    <3> QED BY <1>6, <2>2 DEF DrawMax, hi
  <2>4. n \in Intervals
    <3> HIDE DEF hi
    <3> QED BY <2>1, <2>2, <2>3 DEF Intervals
  <2> DEFINE next == [pc |-> "idle", copy |-> Null, lo |-> Null, drawn |-> n]
  <2>5. GoodDraw(next, cache')
    BY <2>4 DEF GoodDraw, DrawRequest
  <2>6. DrawsGood
    <3> HIDE DEF next
    <3>1. draw' = [draw EXCEPT ![t] = next]
      BY <2>3 DEF next
    <3> QED BY <2>1, <2>5, <3>1, OneDrawChanges
  <2> QED
    BY <1>6, <2>6 DEF DrawMax, SettingsInv, TypeOK, InStep, DrawNeverFails
<1> QED
  BY <1>3, <1>4, <1>5, <1>6

LEMMA SettingsInvHolds == Spec => []SettingsInv
<1>1. Init => SettingsInv
  BY IdleRequestsAreGood, NoRowsStored
  DEF Init, SettingsInv, TypeOK, InStep, DrawNeverFails, GoodSave, GoodDraw
<1>2. SettingsInv /\ [Next]_vars => SettingsInv'
  <2> SUFFICES ASSUME SettingsInv, [Next]_vars PROVE SettingsInv'
    OBVIOUS
  <2>1. CASE Restart
    BY <2>1, IdleRequestsAreGood
    DEF Restart, SettingsInv, TypeOK, InStep, DrawNeverFails, GoodSave, GoodDraw
  <2>2. CASE UNCHANGED vars
    BY <2>2 DEF vars, SettingsInv, TypeOK, InStep, DrawNeverFails
  <2> QED
    BY <2>1, <2>2, SaveStepKeeps, DrawStepKeeps DEF Next
<1> QED
  BY <1>1, <1>2, PTL DEF Spec

\* Every interval stored, copied or drawn is in range, for any range, forms
\* and number of threads.
THEOREM IntervalsInRange == Spec => []TypeOK
<1>1. SettingsInv => TypeOK
  BY DEF SettingsInv
<1> QED
  BY <1>1, SettingsInvHolds, PTL

\* No draw meets an empty range: the maximum is raised to the minimum read,
\* whichever copy each of them comes from.
THEOREM DrawsSucceed == Spec => []DrawNeverFails
<1>1. SettingsInv => DrawNeverFails
  BY DEF SettingsInv
<1> QED
  BY <1>1, SettingsInvHolds, PTL

-----------------------------------------------------------------------------
(* The copy in force                                                       *)

\* No save commits while a copy that was read before waits to be published.
CommitsInTurn ==
    \A t, u \in Threads : SaveCommit(t) => save[u].pc # "publish" /\ draw[u].pc # "fill"

\* A save that has committed and not yet replaced the copy.
Overdue(t) == save[t].pc \in {"reload", "publish"}

\* A copy on its way to be published is that of the table, and the one in
\* force lags behind only while a save that has committed is on its way.
CopyInv ==
    /\ \A t \in Threads : /\ save[t].pc = "publish" => save[t].copy = Merged(table)
                          /\ draw[t].pc = "fill" => draw[t].copy = Merged(table)
    /\ cache # Null => cache = Merged(table) \/ \E t \in Threads : Overdue(t)

LEMMA SaveKeepsCopy ==
    ASSUME SettingsInv, CopyInv, [CommitsInTurn]_vars, NEW t \in Threads,
           \/ \E min, max \in Submitted : SaveStart(t, min, max)
           \/ SaveLoadMin(t) \/ SaveLoadMax(t) \/ SaveCommit(t)
           \/ SaveReload(t) \/ SavePublish(t)
    PROVE  CopyInv'
<1> DEFINE r == save[t]
           q == save'[t]
<1>1. save \in [Threads -> SaveRequest] /\ draw' = draw
  BY DEF SettingsInv, TypeOK, SaveStart, SaveLoadMin, SaveLoadMax, SaveLoad, SaveCommit,
         SaveReload, SavePublish
<1>2. \A u \in Threads \ {t} : save'[u] = save[u]
  BY <1>1 DEF SaveStart, SaveLoadMin, SaveLoadMax, SaveLoad, SaveCommit, SaveReload, SavePublish
<1>3. table' = table => Merged(table)' = Merged(table)
  BY DEF Merged
<1>4. CASE \/ \E min, max \in Submitted : SaveStart(t, min, max)
           \/ SaveLoadMin(t) \/ SaveLoadMax(t)
  <2>1. /\ q.pc \in {"load_min", "load_max", "commit"} /\ table' = table /\ cache' = cache
        /\ ~Overdue(t)
    BY <1>1, <1>4 DEF SaveStart, SaveLoadMin, SaveLoadMax, SaveLoad, Overdue, SaveRequest
  <2>2. \A u \in Threads : Overdue(u) => Overdue(u)'
    BY <1>2, <2>1 DEF Overdue
  <2> QED BY <1>1, <1>2, <1>3, <2>1, <2>2 DEF CopyInv
<1>5. CASE SaveCommit(t)
  <2>1. r.pc = "commit" /\ cache' = cache /\ q.pc \in {"reload", "idle"} /\ ~Overdue(t)
    BY <1>1, <1>5 DEF SaveCommit, SaveRequest, Overdue
  <2>2. \A u \in Threads : save[u].pc # "publish" /\ draw[u].pc # "fill"
    BY <1>5, <2>1 DEF CommitsInTurn, vars
  <2>3. \A u \in Threads : save'[u].pc # "publish" /\ draw'[u].pc # "fill"
    BY <1>1, <1>2, <2>1, <2>2
  <2>4. CASE q.pc = "reload"
    <3>1. Overdue(t)'
      BY <2>4 DEF Overdue
    <3> QED BY <2>3, <3>1 DEF CopyInv
  <2>5. CASE q.pc = "idle"
    <3>1. table' = table
      BY <1>1, <1>5, <2>5 DEF SaveCommit, SaveRequest
    <3>2. \A u \in Threads : Overdue(u) => Overdue(u)'
      BY <1>2, <2>1 DEF Overdue
    <3> QED BY <1>3, <2>1, <2>3, <3>1, <3>2 DEF CopyInv
  <2> QED BY <2>1, <2>4, <2>5
<1>6. CASE SaveReload(t)
  <2>1. /\ r.pc = "reload" /\ q.pc = "publish" /\ q.copy = Merged(table)
        /\ table' = table /\ cache' = cache
    BY <1>1, <1>6 DEF SaveReload, SaveRequest
  <2>2. Overdue(t)'
    BY <2>1 DEF Overdue
  <2> QED BY <1>1, <1>2, <1>3, <2>1, <2>2 DEF CopyInv
<1>7. CASE SavePublish(t)
  <2>1. r.pc = "publish" /\ q.pc = "idle" /\ cache' = r.copy /\ table' = table
    BY <1>1, <1>7 DEF SavePublish
  <2> QED BY <1>1, <1>2, <1>3, <2>1 DEF CopyInv
<1> QED BY <1>4, <1>5, <1>6, <1>7

LEMMA DrawKeepsCopy ==
    ASSUME SettingsInv, CopyInv, NEW t \in Threads,
           DrawMin(t) \/ FillLoad(t) \/ FillPublish(t) \/ DrawMax(t)
    PROVE  CopyInv'
<1> DEFINE q == draw'[t]
<1>1. draw \in [Threads -> DrawRequest] /\ save' = save /\ table' = table
  BY DEF SettingsInv, TypeOK, DrawMin, FillLoad, FillPublish, DrawMax
<1>2. \A u \in Threads \ {t} : draw'[u] = draw[u]
  BY <1>1 DEF DrawMin, FillLoad, FillPublish, DrawMax, ReadMin
<1>3. /\ Merged(table)' = Merged(table)
      /\ \A u \in Threads : Overdue(u)' <=> Overdue(u)
  BY <1>1 DEF Merged, Overdue
<1>4. q.pc = "fill" => q.copy = Merged(table)
  BY <1>1 DEF DrawMin, FillLoad, FillPublish, DrawMax, ReadMin, DrawRequest
<1>5. cache' = cache \/ cache' = Merged(table)
  BY DEF CopyInv, DrawMin, FillLoad, FillPublish, DrawMax
<1> QED BY <1>1, <1>2, <1>3, <1>4, <1>5 DEF CopyInv

\* "Saved settings take effect": the copy in force when no request runs is
\* that of the table, first use and restarts included.  The one way to a
\* stale copy is a save that commits between another thread's reading the
\* table and its publishing what it read.
THEOREM StaleByCommitBetween == Spec /\ [][CommitsInTurn]_vars => []CopyIsCurrent
<1>1. Init => CopyInv
  BY DEF Init, CopyInv, IdleSave, IdleDraw
<1>2. SettingsInv /\ CopyInv /\ [Next]_vars /\ [CommitsInTurn]_vars => CopyInv'
  <2> SUFFICES ASSUME SettingsInv, CopyInv, [Next]_vars, [CommitsInTurn]_vars PROVE CopyInv'
    OBVIOUS
  <2>1. CASE UNCHANGED vars
    BY <2>1 DEF vars, CopyInv, Overdue, Merged
  <2>2. CASE Restart
    BY <2>2 DEF Restart, CopyInv, IdleSave, IdleDraw
  <2> QED BY <2>1, <2>2, SaveKeepsCopy, DrawKeepsCopy DEF Next
<1>3. CopyInv => CopyIsCurrent
  BY DEF CopyInv, CopyIsCurrent, Ready, Overdue
<1> QED BY <1>1, <1>2, <1>3, SettingsInvHolds, PTL DEF Spec

-----------------------------------------------------------------------------
(* Requests one at a time, the scene `alone' of the run                     *)

OneRuns == \A t, u \in Threads : ~Ready(t) /\ ~Ready(u) => t = u

LEMMA SettingsSceneIsSpec == MCSpec => Spec
<1>1. MCInit => Init
  BY DEF MCInit
<1>2. [MCNext]_<<vars, alone>> => [Next]_vars
  BY DEF MCNext
<1> QED BY <1>1, <1>2, PTL DEF MCSpec, Spec

LEMMA OneRunsAlone == MCSpec => ([]alone /\ []OneRuns) \/ []~alone
<1>1. MCInit => OneRuns
  BY DEF MCInit, Init, IdleSave, IdleDraw, OneRuns, Ready
<1>2. alone /\ OneRuns /\ [MCNext]_<<vars, alone>> => alone' /\ OneRuns'
  BY DEF MCNext, Quiet, OneRuns, Ready, vars
<1>3. ~alone /\ [MCNext]_<<vars, alone>> => ~alone'
  BY DEF MCNext
<1> QED BY <1>1, <1>2, <1>3, PTL DEF MCSpec

\* A thread that saves does not draw.
Apart == \A t \in Threads : save[t].pc = "idle" \/ draw[t].pc = "idle"

LEMMA ApartHolds == Spec => []Apart
<1>1. Init => Apart
  <2>1. IdleDraw.pc = "idle"
    BY DEF IdleDraw
  <2> QED BY <2>1 DEF Init, Apart
<1>2. SettingsInv /\ Apart /\ [Next]_vars => Apart'
  <2> SUFFICES ASSUME SettingsInv, Apart, [Next]_vars PROVE Apart'
    OBVIOUS
  <2>0. save \in [Threads -> SaveRequest] /\ draw \in [Threads -> DrawRequest]
    BY DEF SettingsInv, TypeOK
  <2>1. CASE UNCHANGED vars \/ Restart
    BY <2>1 DEF vars, Apart, Restart, IdleSave, IdleDraw
  <2>2. ASSUME NEW t \in Threads,
               \/ \E min, max \in Submitted : SaveStart(t, min, max)
               \/ SaveLoadMin(t) \/ SaveLoadMax(t) \/ SaveCommit(t)
               \/ SaveReload(t) \/ SavePublish(t)
        PROVE  Apart'
    <3>1. draw' = draw /\ draw[t].pc = "idle"
      BY <2>2 DEF Apart, SaveStart, SaveLoadMin, SaveLoadMax, SaveLoad, SaveCommit,
         SaveReload, SavePublish
    <3>2. \A u \in Threads \ {t} : save'[u] = save[u]
      BY <2>0, <2>2 DEF SaveStart, SaveLoadMin, SaveLoadMax, SaveLoad, SaveCommit, SaveReload,
         SavePublish
    <3> QED BY <3>1, <3>2 DEF Apart
  <2>3. ASSUME NEW t \in Threads, DrawMin(t) \/ FillLoad(t) \/ FillPublish(t) \/ DrawMax(t)
        PROVE  Apart'
    <3>1. save' = save /\ save[t].pc = "idle"
      BY <2>3 DEF Apart, Ready, DrawMin, FillLoad, FillPublish, DrawMax
    <3>2. \A u \in Threads \ {t} : draw'[u] = draw[u]
      BY <2>0, <2>3 DEF DrawMin, FillLoad, FillPublish, DrawMax, ReadMin
    <3> QED BY <3>1, <3>2 DEF Apart
  <2> QED BY <2>1, <2>2, <2>3 DEF Next
<1> QED BY <1>1, <1>2, SettingsInvHolds, PTL DEF Spec

\* One save or draw at a time leaves no stale copy: what waits to be published
\* is never another's, and a thread that commits has none waiting itself.
THEOREM SavesTakeEffect == MCSpec => []AloneCopyIsCurrent
<1>1. ASSUME OneRuns, Apart PROVE CommitsInTurn
  <2> SUFFICES ASSUME NEW t \in Threads, NEW u \in Threads, save[t].pc = "commit"
               PROVE  save[u].pc # "publish" /\ draw[u].pc # "fill"
    BY DEF CommitsInTurn, SaveCommit
  <2> QED BY <1>1 DEF OneRuns, Apart, Ready
<1>2. OneRuns /\ Apart => [CommitsInTurn]_vars
  BY <1>1
<1>3. ~alone \/ CopyIsCurrent => AloneCopyIsCurrent
  BY DEF AloneCopyIsCurrent
<1> QED
  BY <1>2, <1>3, OneRunsAlone, SettingsSceneIsSpec, ApartHolds, StaleByCommitBetween, PTL
=============================================================================
