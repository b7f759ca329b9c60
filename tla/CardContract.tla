---------------------------- MODULE CardContract ----------------------------
(***************************************************************************)
(* What the service promises of one licence card, as the state machine of  *)
(* the project's documentation draws it: no requests, no sessions, no      *)
(* rows, every operation atomic.  A card is unused, active or banned; it   *)
(* binds at most `limit' machines; an unban returns it to where it was; a  *)
(* reset releases every machine and makes it unused again.                 *)
(***************************************************************************)
EXTENDS Naturals

CONSTANTS Cards, MaxLimit

VARIABLES
    life,     \* card |-> stored status, or "deleted"
    started,  \* card |-> TRUE once activated, until a reset
    bound,    \* card |-> number of machines bound
    limit     \* card |-> most machines a binding may bring it to

contractVars == <<life, started, bound, limit>>

Init ==
    /\ life = [c \in Cards |-> "unused"]
    /\ started = [c \in Cards |-> FALSE]
    /\ bound = [c \in Cards |-> 0]
    /\ limit \in [Cards -> 1..MaxLimit]

\* A machine is admitted: the first admission starts the card, a machine that
\* is not bound yet takes one of the free places.
Admit(c) ==
    /\ life[c] \in {"unused", "active"}
    /\ life' = [life EXCEPT ![c] = "active"]
    /\ started' = [started EXCEPT ![c] = TRUE]
    /\ \/ bound[c] > 0 /\ UNCHANGED bound
       \/ bound[c] < limit[c] /\ bound' = [bound EXCEPT ![c] = @ + 1]
    /\ UNCHANGED limit

Ban(c) ==
    /\ life[c] # "deleted"
    /\ life' = [life EXCEPT ![c] = "banned"]
    /\ UNCHANGED <<started, bound, limit>>

Unban(c) ==
    /\ life[c] # "deleted"
    /\ life' = [life EXCEPT ![c] = IF started[c] THEN "active" ELSE "unused"]
    /\ UNCHANGED <<started, bound, limit>>

\* Some machines are unbound; whatever the card's status.
Release(c) ==
    /\ \E n \in 0..bound[c] : bound' = [bound EXCEPT ![c] = n]
    /\ UNCHANGED <<life, started, limit>>

\* A lower limit leaves the machines already bound.
SetLimit(c) ==
    /\ life[c] # "deleted"
    /\ \E n \in 1..MaxLimit : limit' = [limit EXCEPT ![c] = n]
    /\ UNCHANGED <<life, started, bound>>

Reset(c) ==
    /\ life[c] # "deleted"
    /\ life' = [life EXCEPT ![c] = "unused"]
    /\ started' = [started EXCEPT ![c] = FALSE]
    /\ bound' = [bound EXCEPT ![c] = 0]
    /\ UNCHANGED limit

Delete(c) ==
    /\ life' = [life EXCEPT ![c] = "deleted"]
    /\ started' = [started EXCEPT ![c] = FALSE]
    /\ bound' = [bound EXCEPT ![c] = 0]
    /\ limit' = [limit EXCEPT ![c] = 1]

Next == \E c \in Cards :
    Admit(c) \/ Ban(c) \/ Unban(c) \/ Release(c) \/ SetLimit(c) \/ Reset(c) \/ Delete(c)

Spec == Init /\ [][Next]_contractVars
=============================================================================
