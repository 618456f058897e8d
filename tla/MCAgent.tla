------------------------------ MODULE MCAgent ------------------------------
(* The whole agent with one edge, a one-place queue and two flushes: every   *)
(* interleaving of the read loop, the flush loop, delivery and shutdown.     *)
EXTENDS Agent

Obs(p, f) ==
  [source |-> [class |-> "workload", id |-> "a"], target |-> [class |-> "workload", id |-> "b"],
   port |-> p, ts |-> 1, failed |-> f, latency |-> NoLatency]

MCNode == {"a", "b"}
MCInfraPorts == {53}
MCObservations == {Obs(80, FALSE), Obs(0, TRUE)}
MCOne == {Obs(80, FALSE)}
MCRefused == {2}
MCNone == {}
=============================================================================
