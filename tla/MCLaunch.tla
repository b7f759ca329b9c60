------------------------------ MODULE MCLaunch ------------------------------
(* The program of one of two applications, launched with a card of either   *)
(* or of none; two payload keys per application, two launches and one or    *)
(* two messages under way.  Three scenes: two processes over the key files; *)
(* launches while keys are rotated; while the card changes and the service  *)
(* stops and starts.                                                        *)
EXTENDS Launch, FiniteSets

CONSTANTS server, cli, p1, p2

VARIABLE scene

TwoLaunches == {1, 2}

\* Only the application of the card is toggled; nothing is read of others.
Matters ==
    \A a \in Apps : /\ a # card.app => app'[a].active = app[a].active
                    /\ a \notin {card.app, Software} => app'[a] = app[a]

\* Requests are under way only while the service is up.
Served == proc'[cli].pc = "off" /\ (~Up => client'.pc \in {"off", client.pc})

InScene ==
    CASE scene = "keys"   -> InTurn /\ UNCHANGED launchvars
      [] scene = "rotate" -> /\ Served /\ Matters /\ Cardinality(wire') <= 2
                             /\ \A a \in Apps : app'[a].active
                             /\ proc[server].pc = "up" => proc' = proc
                             /\ card'.valid /\ card'.room /\ (card.bound => card'.bound)
                             /\ tool' \notin {Null, tool} => core # tool'
      [] scene = "refuse" -> /\ ~card'.valid => card'.room
                             /\ Served /\ Matters /\ Cardinality(wire' \cap Ask) <= 1
                             /\ Cardinality(wire' \cap Reply) <= 1
                             /\ client'.launch \in {1, Null}
                             /\ \A a \in Apps : app'[a].version = 1
                             /\ ~Up => <<app, card, core, tool>>' = <<app, card, core, tool>>

MCInit == Init /\ scene \in {"keys", "rotate", "refuse"}
MCNext == Next /\ InScene /\ UNCHANGED scene
MCSpec == MCInit /\ [][MCNext]_<<vars, scene>> /\ Fairness
============================================================================
