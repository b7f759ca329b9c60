-------------------------- MODULE MCCardRequests --------------------------
(* Small instances of the card requests: one card, two machines, one or    *)
(* two requests in flight.                                                 *)
EXTENDS CardClaims, TLC

CONSTANTS c1, m1, m2, t1, t2

TimedKind == [c \in Cards |-> "time"]
CountKind == [c \in Cards |-> "count"]
OneTick   == [c \in Cards |-> 1]
NoCredits == [c \in Cards |-> 0]

NoExtension == {0}
MoreOrLess  == {-1, 0, 1}

MachineSymmetry == Permutations(Machines)
Symmetry        == MachineSymmetry \cup Permutations(Threads)
===========================================================================
