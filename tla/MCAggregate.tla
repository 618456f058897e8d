---------------------------- MODULE MCAggregate ----------------------------
(* The aggregator fed with one observation per interesting case: two edges,  *)
(* success with and without a latency sample, failure, events out of order,  *)
(* every filter, and a connection attempt to port 0.                         *)
EXTENDS Aggregate

Obs(s, t, p, ts, f, l) ==
  [source |-> s, target |-> t, port |-> p, ts |-> ts, failed |-> f, latency |-> l]

Workload(id) == [class |-> "workload", id |-> id]
ExternalEnd == [class |-> "external", id |-> "ext"]
Bare(c) == [class |-> c, id |-> NoID]

A == Workload("a")
B == Workload("b")

MCNode == {"a", "b", "ext"}
MCInfraPorts == {53}
MCObservations ==
  { Obs(A, B, 80, 2, FALSE, 3), Obs(A, B, 80, 1, FALSE, NoLatency),
    Obs(A, B, 80, 3, TRUE, NoLatency), Obs(A, ExternalEnd, 80, 2, FALSE, 0),
    Obs(A, B, 0, 2, TRUE, NoLatency), Obs(A, B, 53, 2, FALSE, 3),
    Obs(A, Bare("unresolved"), 80, 2, FALSE, 3), Obs(Bare("host"), B, 80, 2, FALSE, 3),
    Obs(A, Workload(NoID), 80, 2, FALSE, 3) }
=============================================================================
