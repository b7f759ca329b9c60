---------------------------- MODULE MCCardIssue ----------------------------
(* Issuing with two codes, two templates and one draw more than cards.      *)
(* `alone' is chosen at the start: two applications and requests that run   *)
(* one at a time, cards being deleted in between; or one application and    *)
(* two requests that overlap.                                               *)
EXTENDS CardIssue

CONSTANTS k1, k2, t1, t2

VARIABLE alone

OneId  == {1}
TwoIds == {1, 2}

Quiet ==
    /\ \A t, u \in Threads : t # u /\ ~Free(t)' => Free(u)'
    /\ (\E t \in Threads : ~Free(t)) => req' # req

MCInit == Init /\ alone \in BOOLEAN
MCNext == Next /\ (alone => Quiet) /\ (~alone => apps' \subseteq OneId) /\ UNCHANGED alone
MCSpec == MCInit /\ [][MCNext]_<<vars, alone>>
                 /\ \A t \in Threads : WF_vars(DrawCode(t) \/ DrawEnd(t))

OverlapSpec == Init /\ alone = FALSE /\ [][Next /\ UNCHANGED alone]_<<vars, alone>>

\* Alone, no batch meets a constraint of the tables,
AloneNoConflict == alone => NoConflict

\* no two templates are the same,
AloneTemplatesDiffer == alone => TemplatesDiffer

\* and no card loses its application to a deletion.
AloneKeepsApplication == [][alone => KeepsApplication]_vars
============================================================================
