------------------------------- MODULE Rules -------------------------------
(***************************************************************************)
(* The pure rules of the query API: graph assembly and its caps            *)
(* (domain/graph.py), comparison of two periods (domain/diff.py) and       *)
(* anomaly detection (domain/anomalies.py).                                *)
(*                                                                         *)
(* An edge is <<source, target>>, numbers so that they sort; protocol and  *)
(* port would only lengthen the key.  A period's aggregates are a function *)
(* from its edges to [conns, failed, bytes, setups, setupSum]; failed and  *)
(* bytes may be NotMeasured.  Percentages and ratios are exact here, where *)
(* the code computes with floats.                                          *)
(***************************************************************************)
EXTENDS Integers, Sequences, FiniteSets

CONSTANTS
  MaxNodes, MaxEdges,  \* GRAPH_MAX_NODES, GRAPH_MAX_EDGES
  Threshold,           \* TOPOLOGY_DIFF_CHANGE_THRESHOLD_PERCENT
  MinAttempts,         \* ANOMALY_MIN_ATTEMPTS
  FailPercent,         \* ANOMALY_FAILURE_RATIO, in percent
  SetupFactor,         \* ANOMALY_SETUP_FACTOR
  SetupFloor,          \* SLOW_SETUP_FLOOR_US
  External             \* the node id external:EXTERNAL

ASSUME RulesAssumption ==
  /\ MaxNodes \in Nat /\ MaxEdges \in Nat /\ Threshold \in Nat /\ MinAttempts \in Nat
  /\ FailPercent \in 1..100 /\ SetupFactor \in Nat /\ SetupFloor \in Nat

NotMeasured == -1

Lower(e, f) == e[1] < f[1] \/ (e[1] = f[1] /\ e[2] < f[2])

\* A finite set as a sequence: before x come the members of below[x].
Ordered(S, below) ==
  [i \in 1..Cardinality(S) |-> CHOOSE x \in S : Cardinality(below[x]) = i - 1]

Sorted(S) == Ordered(S, [e \in S |-> {f \in S : Lower(f, e)}])

-----------------------------------------------------------------------------
(* domain/graph.py                                                         *)

EdgeNodes(s) == UNION {{s[i][1], s[i][2]} : i \in 1..Len(s)}

Prefix(s, n) == SubSeq(s, 1, n)

\* Mutant: the edge that exceeds the node cap is kept.
NodeCutLate(s) ==
  LET over == {i \in 1..Len(s) : Cardinality(EdgeNodes(Prefix(s, i))) > MaxNodes}
  IN  IF over = {} THEN Len(s) ELSE CHOOSE i \in over : \A j \in over : i <= j

\* How many edges fit under the node cap: the scan stops before the first edge
\* that exceeds it.
NodeCut(s) ==
  LET over == {i \in 1..Len(s) : Cardinality(EdgeNodes(Prefix(s, i))) > MaxNodes}
  IN  IF over = {} THEN Len(s) ELSE (CHOOSE i \in over : \A j \in over : i <= j) - 1

\* _truncate: edges first, then nodes, each from the end of the sorted list.
Truncate(s) ==
  LET capped == IF Len(s) > MaxEdges THEN Prefix(s, MaxEdges) ELSE s
  IN  Prefix(capped, NodeCut(capped))

\* assemble: nodes are those of the edges kept, as far as storage still has them.
Assemble(edges, stored) ==
  LET kept == Truncate(Sorted(edges)) IN
    [edges |-> kept, nodes |-> EdgeNodes(kept) \cap stored,
     truncated |-> Len(kept) < Cardinality(edges)]

-----------------------------------------------------------------------------
(* domain/diff.py                                                          *)

Magnitude(x) == IF x < 0 THEN -x ELSE x

\* _percent_delta's size in hundredths of a percent, rounded to the nearest and
\* from a tie to the even one.
PercentDelta(before, after) ==
  LET scaled == Magnitude(after - before) * 10000
      down == scaled \div before
      rest == 2 * (scaled % before)
  IN  IF rest > before \/ (rest = before /\ down % 2 = 1) THEN down + 1 ELSE down

\* Mutant: beyond the threshold only.
BeyondStrictly(before, after) == before # 0 /\ PercentDelta(before, after) > 100 * Threshold

Beyond(before, after) == before # 0 /\ PercentDelta(before, after) >= 100 * Threshold

\* _classify of one edge; an absent side counts zero connections.
Classify(before, after) ==
  IF before.conns = 0 THEN "NEW"
  ELSE IF after.conns = 0 THEN "REMOVED"
  ELSE IF \/ before.bytes # NotMeasured /\ after.bytes # NotMeasured
             /\ Beyond(before.bytes, after.bytes)
          \/ Beyond(before.conns, after.conns)
       THEN "CHANGED" ELSE "UNCHANGED"

Observed(agg) == {e \in DOMAIN agg : agg[e].conns > 0}
Nothing == [conns |-> 0, failed |-> NotMeasured, bytes |-> NotMeasured, setups |-> 0, setupSum |-> 0]
Side(agg, e) == IF e \in Observed(agg) THEN agg[e] ELSE Nothing

\* compare: the classification of every edge, sorted, capped.
Compare(baseline, current, includeUnchanged) ==
  LET class == [e \in Observed(baseline) \cup Observed(current) |->
                  Classify(Side(baseline, e), Side(current, e))]
      shown == {e \in DOMAIN class : class[e] # "UNCHANGED" \/ includeUnchanged}
      kept == LET s == Sorted(shown) IN IF Len(s) > MaxEdges THEN Prefix(s, MaxEdges) ELSE s
  IN  [edges |-> kept, class |-> [i \in 1..Len(kept) |-> class[kept[i]]],
       truncated |-> Cardinality(shown) > MaxEdges]

-----------------------------------------------------------------------------
(* domain/anomalies.py                                                     *)

Failures(a) == IF a.failed = NotMeasured THEN 0 ELSE a.failed
Attempts(a) == a.conns + Failures(a)

\* Mutant: the sample counts successes only.
FailureSpikeOfSuccesses(a, seenBefore, b) ==
  /\ a.failed # NotMeasured
  /\ seenBefore => b.failed # NotMeasured
  /\ a.conns >= MinAttempts
  /\ 100 * a.failed >= FailPercent * Attempts(a)

\* The failure ratio of a is at least FailPercent, and that many points above b's.
\* An edge not seen before has ratio 0; where failures were not measured, there is
\* no ratio.
FailureSpike(a, seenBefore, b) ==
  /\ a.failed # NotMeasured
  /\ seenBefore => b.failed # NotMeasured
  /\ Attempts(a) >= MinAttempts
  /\ 100 * a.failed >= FailPercent * Attempts(a)
  /\ seenBefore =>
       100 * (a.failed * Attempts(b) - b.failed * Attempts(a))
         >= FailPercent * Attempts(a) * Attempts(b)

\* The mean setup time is SetupFactor times the baseline's, and SetupFloor longer.
SlowSetup(a, seenBefore, b) ==
  /\ seenBefore
  /\ a.setups > 0 /\ b.setups > 0
  /\ a.setups >= MinAttempts /\ b.setups >= MinAttempts
  /\ a.setupSum * b.setups >= SetupFactor * b.setupSum * a.setups
  /\ a.setupSum * b.setups - b.setupSum * a.setups >= SetupFloor * a.setups * b.setups

\* detect: the anomalies <<edge, type>> of the current period.
Detect(current, baseline, canaries) ==
  LET before == {e \in DOMAIN baseline : Attempts(baseline[e]) > 0}
      was(e) == IF e \in before THEN baseline[e] ELSE Nothing
      fires(e) ==
        (IF e[2] \in canaries THEN {"CANARY_CONTACT"} ELSE {})
        \cup (IF e \notin before /\ before # {}
              THEN {IF e[2] = External THEN "NEW_EXTERNAL_EGRESS" ELSE "NEW_EDGE"} ELSE {})
        \cup (IF FailureSpike(current[e], e \in before, was(e)) THEN {"FAILURE_SPIKE"} ELSE {})
        \cup (IF SlowSetup(current[e], e \in before, was(e)) THEN {"SLOW_SETUP"} ELSE {})
  IN  UNION {{<<e, t>> : t \in fires(e)} : e \in {x \in DOMAIN current : Attempts(current[x]) > 0}}

AnomalyTypes == <<"CANARY_CONTACT", "NEW_EXTERNAL_EGRESS", "NEW_EDGE", "FAILURE_SPIKE", "SLOW_SETUP">>
TypeIndex(t) == CHOOSE i \in 1..Len(AnomalyTypes) : AnomalyTypes[i] = t

Earlier(a, b) == Lower(a[1], b[1]) \/ (a[1] = b[1] /\ TypeIndex(a[2]) < TypeIndex(b[2]))

\* respond: capped after sorting by edge, then by type.
Respond(found) ==
  LET s == Ordered(found, [a \in found |-> {b \in found : Earlier(b, a)}])
  IN  Prefix(s, IF Len(s) > MaxEdges THEN MaxEdges ELSE Len(s))
=============================================================================
