----------------------------- MODULE CardClaims -----------------------------
(***************************************************************************)
(* What the documentation, comments and interface of the service claim of  *)
(* a card, stated over the requests of CardRequests.  The claims hold when *)
(* requests run one after another (one thread); most fail when requests    *)
(* overlap, because every handler decides from rows it read earlier.       *)
(***************************************************************************)
EXTENDS CardRequests

\* The columns of a card agree: activated exactly while it was activated and
\* not reset, and an activated time card has an expiry.  An active card
\* without one never expires.
LifecycleCoherent ==
    \A c \in Cards : cards[c] # Null =>
       LET row == cards[c] IN
       /\ row.status = "unused" => row.activated = Null
       /\ row.status = "active" => row.activated # Null
       /\ row.activated # Null /\ ComputeExpiry(c) # Null => row.expires # Null

\* A machine has one active row of a card at most, as far as activations go:
\* the schema does not say so, the query before the insertion has to see to
\* it.  A second row comes about only when a row is re-pointed by hand.
OnlyRepointingDoubles ==
    [][\A c \in Cards, m \in Machines :
         Cardinality(BoundTo(c, m)') > 1 /\ Cardinality(BoundTo(c, m)) <= 1 =>
            \E t \in Committing(c) : req[t].op = "device_edit"]_vars

\* "Once the limit is reached, activation on a new device is refused": no
\* step brings the number of bound devices above max_devices.
NewBindingWithinLimit ==
    [][\A c \in Cards :
         cards'[c] # Null /\ Cardinality(Bindings(c)') > Cardinality(Bindings(c)) =>
            Cardinality(Bindings(c)') <= cards'[c].limit]_vars

\* A banned card stays banned until an administrator unbans, resets or
\* deletes it: no request of a client ends the ban.
BanIsSticky ==
    [][\A c \in Cards :
         cards[c] # Null /\ cards[c].status = "banned" =>
            \/ cards'[c] = Null
            \/ cards'[c].status = "banned"
            \/ \E t \in Committing(c) : req[t].op \in {"unban", "reset"}]_vars

\* When a machine has been unbound, by an administrator or by its user, it is
\* not bound any more and its next heartbeat is refused.
UnbindEndsAccess ==
    [][\A c \in Cards, m \in Machines, t \in Threads :
         /\ t \in Committing(c)
         /\ req[t].op \in {"device_unbind", "self_unbind"}
         /\ req[t].machine = m
         => BoundTo(c, m)' = {}]_vars

\* The documented state machine, read off the committed tables.
Contract == INSTANCE CardContract WITH
    life    <- [c \in Cards |-> IF cards[c] = Null THEN "deleted" ELSE cards[c].status],
    started <- [c \in Cards |-> cards[c] # Null /\ cards[c].activated # Null],
    bound   <- [c \in Cards |-> Cardinality(Bindings(c))],
    limit   <- [c \in Cards |-> IF cards[c] = Null THEN 1 ELSE cards[c].limit]

\* One request at a time implements the documented state machine.
ContractSpec == Contract!Spec
=============================================================================
