----------------------------- MODULE Aggregate -----------------------------
(***************************************************************************)
(* The agent's aggregator (agent/internal/aggregate/aggregate.go) and the  *)
(* contract check its batches meet (agent/internal/contract/batch.go).     *)
(* Add runs on the ring-buffer reader's goroutine, Flush on the flush      *)
(* loop's.  Flush swaps the map under the lock and builds the batch after  *)
(* releasing it, so an Add may come in between.                            *)
(*                                                                         *)
(* A batch is the map it was built from: its edges are sorted by the key,  *)
(* so the map determines the list.  Nodes are model values, times and      *)
(* latencies small integers.                                               *)
(***************************************************************************)
EXTENDS Integers, Sequences, FiniteSets, Sums

CONSTANTS
  Node,          \* canonical node IDs, external:EXTERNAL included
  InfraPorts,    \* INFRASTRUCTURE_PORTS
  Observations,  \* the resolved connections the collector may hand to Add
  MaxObserved,   \* bound: calls of Add
  MaxFlushes     \* bound: calls of Flush

NoID == "blank"  \* Endpoint.ID = "": BuildNodeID refused a segment
Port == 0..65535
NoLatency == -1  \* ConnectLatencyUS = nil

Class == {"workload", "service", "external", "host", "unresolved"}
Endpoint == [class : Class, id : Node \cup {NoID}]
Observation ==
  [source : Endpoint, target : Endpoint, port : Port, ts : Nat,
   failed : BOOLEAN, latency : Nat \cup {NoLatency}]

ASSUME ObservationsAssumption ==
  /\ \A o \in Observations :
       /\ DOMAIN o = {"source", "target", "port", "ts", "failed", "latency"}
       /\ o.source \in Endpoint /\ o.target \in Endpoint
       /\ o.port \in Port
       /\ o.ts \in Nat
       /\ o.failed \in BOOLEAN
       /\ o.latency \in Nat \cup {NoLatency}
       /\ o.failed => o.latency = NoLatency  \* decode refuses anything else
  /\ InfraPorts \subseteq Port
  /\ NoID \notin Node

VARIABLES
  edges,        \* a.edges: a map from Key to entry
  aggCounters,  \* a.counters
  flushPc,      \* "idle", or "build" while Flush holds the swapped-out map
  taken,        \* that map
  log,          \* history: the observations Add recorded, in order
  batches       \* history: the batches Flush returned with ok = true

aggVars == <<edges, aggCounters, flushPc, taken, log, batches>>

NoEdges == [k \in {} |-> {}]

-----------------------------------------------------------------------------
(* Add.                                                                    *)

IsGraphable(e) == e.class \in {"workload", "service", "external"}

\* The filters, in order: the first that applies names the counter.
Verdict(o) ==
  IF o.port \in InfraPorts THEN "FilteredInfraPort"
  ELSE IF "unresolved" \in {o.source.class, o.target.class} THEN "UnresolvedEndpoints"
  ELSE IF ~IsGraphable(o.source) \/ ~IsGraphable(o.target) THEN "FilteredNotGraphable"
  ELSE IF NoID \in {o.source.id, o.target.id} THEN "FilteredIncompleteID"
  ELSE "recorded"

\* The protocol is always TCP.
KeyOf(o) == <<o.source.id, o.target.id, o.port>>

NewEntry(o) ==
  [count |-> 0, failedCount |-> 0, latencyCount |-> 0, latencySumUS |-> 0,
   firstSeen |-> o.ts, lastSeen |-> o.ts]

\* Mutant: events are taken to arrive in the order of their timestamps.
MergedInOrder(e, o) ==
  [e EXCEPT !.failedCount = IF o.failed THEN @ + 1 ELSE @,
            !.count = IF o.failed THEN @ ELSE @ + 1,
            !.latencyCount = IF o.latency >= 0 THEN @ + 1 ELSE @,
            !.latencySumUS = IF o.latency >= 0 THEN @ + o.latency ELSE @,
            !.lastSeen = o.ts]

Merged(e, o) ==
  [e EXCEPT !.failedCount = IF o.failed THEN @ + 1 ELSE @,
            !.count = IF o.failed THEN @ ELSE @ + 1,
            !.latencyCount = IF ~o.failed /\ o.latency >= 0 THEN @ + 1 ELSE @,
            !.latencySumUS = IF ~o.failed /\ o.latency >= 0 THEN @ + o.latency ELSE @,
            !.firstSeen = IF o.ts < @ THEN o.ts ELSE @,
            !.lastSeen = IF o.ts > @ THEN o.ts ELSE @]

\* Mutant: an observation of a known edge replaces its entry.
RecordedAnew(m, o) ==
  [k \in DOMAIN m \cup {KeyOf(o)} |->
     IF k = KeyOf(o) THEN Merged(NewEntry(o), o) ELSE m[k]]

Recorded(m, o) ==
  [k \in DOMAIN m \cup {KeyOf(o)} |->
     IF k # KeyOf(o) THEN m[k]
     ELSE Merged(IF k \in DOMAIN m THEN m[k] ELSE NewEntry(o), o)]

Add(o) ==
  /\ LET v == Verdict(o) IN
       IF v = "recorded"
       THEN /\ aggCounters' = [aggCounters EXCEPT !.Observed = @ + 1]
            /\ edges' = Recorded(edges, o)
            /\ log' = Append(log, o)
       ELSE /\ aggCounters' = [aggCounters EXCEPT !.Observed = @ + 1, ![v] = @ + 1]
            /\ UNCHANGED <<edges, log>>
  /\ UNCHANGED <<flushPc, taken, batches>>

-----------------------------------------------------------------------------
(* Flush.                                                                  *)

\* Mutant: the map is handed out and stays the live one.
LiveMap == edges

FreshMap == NoEdges

CountFlushed(m) ==
  [aggCounters EXCEPT !.BatchesFlushed = @ + 1,
                      !.AggregatedEdgesFlushed = @ + Cardinality(DOMAIN m)]

\* Under the lock: swap the map for a fresh one.
FlushSwap ==
  /\ flushPc = "idle"
  /\ flushPc' = "build"
  /\ taken' = edges
  /\ edges' = FreshMap
  /\ aggCounters' = CountFlushed(edges)
  /\ UNCHANGED <<log, batches>>

\* After the unlock: an empty map yields no batch.
FlushBuild ==
  /\ flushPc = "build"
  /\ flushPc' = "idle"
  /\ taken' = NoEdges
  /\ batches' = IF DOMAIN taken = {} THEN batches ELSE Append(batches, taken)
  /\ UNCHANGED <<edges, aggCounters, log>>

\* EdgeObservation.validate, for what varies: the port, the counts and times.
\* nodeRef copies an identity that resolved, so the NodeRef checks pass.
ValidEdge(k, e) ==
  /\ k[3] \in 1..65535
  /\ e.count >= 0 /\ e.failedCount >= 0 /\ e.count + e.failedCount > 0
  /\ e.latencyCount \in 0..e.count
  /\ e.latencySumUS >= 0 /\ (e.latencyCount = 0 => e.latencySumUS = 0)
  /\ e.firstSeen <= e.lastSeen

\* IngestBatch.Validate: one bad edge fails the batch.
Validate(b) == \A k \in DOMAIN b : ValidEdge(k, b[k])

-----------------------------------------------------------------------------
AggInit ==
  /\ edges = NoEdges
  /\ aggCounters = [Observed |-> 0, FilteredInfraPort |-> 0, FilteredNotGraphable |-> 0,
                    FilteredIncompleteID |-> 0, UnresolvedEndpoints |-> 0,
                    AggregatedEdgesFlushed |-> 0, BatchesFlushed |-> 0]
  /\ flushPc = "idle"
  /\ taken = NoEdges
  /\ log = <<>>
  /\ batches = <<>>

\* The bounds are used up.
AggBounded ==
  /\ aggCounters.Observed = MaxObserved
  /\ aggCounters.BatchesFlushed = MaxFlushes
  /\ flushPc = "idle"
  /\ UNCHANGED aggVars

AggNext ==
  \/ \E o \in Observations : aggCounters.Observed < MaxObserved /\ Add(o)
  \/ aggCounters.BatchesFlushed < MaxFlushes /\ FlushSwap
  \/ FlushBuild
  \/ AggBounded

AggSpec == AggInit /\ [][AggNext]_aggVars

-----------------------------------------------------------------------------
(* Properties.                                                             *)

Entry == [count : Nat, failedCount : Nat, latencyCount : Nat, latencySumUS : Nat,
          firstSeen : Nat, lastSeen : Nat]

\* Type invariant of the aggregator.
AggTypeOK ==
  /\ DOMAIN edges \subseteq Node \X Node \X Port
  /\ \A k \in DOMAIN edges : edges[k] \in Entry
  /\ DOMAIN taken \subseteq Node \X Node \X Port
  /\ \A k \in DOMAIN taken : taken[k] \in Entry
  /\ flushPc \in {"idle", "build"}
  /\ \A c \in DOMAIN aggCounters : aggCounters[c] \in Nat

\* Where an edge's counts can be: the live map, the map Flush holds, a batch.
FieldIn(m, k, f) == IF k \in DOMAIN m THEN m[k][f] ELSE 0

FieldTotal(k, f) ==
  FieldIn(edges, k, f) + FieldIn(taken, k, f)
    + Total([i \in DOMAIN batches |-> FieldIn(batches[i], k, f)])

LogOf(k) == {i \in DOMAIN log : KeyOf(log[i]) = k}

\* Whatever Add and Flush interleave, each recorded connection is counted in
\* exactly one place: for every edge the successes, the failures, the latency
\* samples and their sum over the live map, the map being flushed and all
\* batches are those of the observations recorded, no more and no fewer.
AggregatesExactly ==
  \A k \in {KeyOf(log[i]) : i \in DOMAIN log} :
    LET ok == {i \in LogOf(k) : ~log[i].failed}
        sampled == {i \in ok : log[i].latency # NoLatency}
    IN  /\ FieldTotal(k, "count") = Cardinality(ok)
        /\ FieldTotal(k, "failedCount") = Cardinality(LogOf(k) \ ok)
        /\ FieldTotal(k, "latencyCount") = Cardinality(sampled)
        /\ FieldTotal(k, "latencySumUS") = Total([i \in sampled |-> log[i].latency])

\* The entries of an edge, wherever they are.
Maps == {edges, taken} \cup {batches[i] : i \in DOMAIN batches}
Entries(k) == {m[k] : m \in {n \in Maps : k \in DOMAIN n}}

Earliest(S) == CHOOSE x \in S : \A y \in S : x <= y
Latest(S) == CHOOSE x \in S : \A y \in S : y <= x

\* first_seen and last_seen bracket the edge's events although the ring buffer
\* does not deliver them in the order of their timestamps: over all places the
\* earliest and the latest event of an edge are on record.
SeenWindowExact ==
  \A k \in {KeyOf(log[i]) : i \in DOMAIN log} :
    LET stamps == {log[i].ts : i \in LogOf(k)}
    IN  /\ Earliest({e.firstSeen : e \in Entries(k)}) = Earliest(stamps)
        /\ Latest({e.lastSeen : e \in Entries(k)}) = Latest(stamps)

\* ADR-001 has the agent discard invalid events, so every batch it flushes
\* should pass Validate.
InvalidEventsDiscarded == \A i \in DOMAIN batches : Validate(batches[i])
=============================================================================
