-------------------------- MODULE MCSettingsCache --------------------------
(* The settings with intervals of 2 to 4 units instead of 10 to 3600, and   *)
(* forms that go below, above and through that range.  `alone' is chosen at *)
(* the start: requests run one at a time, or two of them overlap.           *)
EXTENDS SettingsCache

CONSTANTS t1, t2

VARIABLE alone

FormValues == {1, 2, 4, 5}

Quiet == \A t, u \in Threads : t # u /\ ~Ready(t)' => Ready(u)'

MCInit == Init /\ alone \in BOOLEAN
MCNext == Next /\ (alone => Quiet) /\ UNCHANGED alone
MCSpec == MCInit /\ [][MCNext]_<<vars, alone>>

\* One save or draw at a time leaves no stale copy, first use and restarts
\* included: what was saved takes effect.
AloneCopyIsCurrent == alone => CopyIsCurrent
============================================================================
