----------------------------- MODULE Repository -----------------------------
(***************************************************************************)
(* What a topology repository promises its callers                         *)
(* (backend/app/persistence/protocol.py, TopologyRepository), whatever     *)
(* implements it: a batch is recorded atomically and once, and maintenance *)
(* only removes.  A bucket within retention may disappear only together    *)
(* with one of its nodes; see LiveBucketsKept of Store for the race in     *)
(* which PostgreSQL does that.  A batch id is forgotten only when all      *)
(* buckets of the batch have expired, and no bucket is left without its    *)
(* nodes.                                                                  *)
(*                                                                         *)
(* A key is <<minute, source, target>>; merged[k][b] says how often batch  *)
(* b is merged into bucket k.                                              *)
(***************************************************************************)
EXTENDS Integers

CONSTANTS
  Batch,     \* batch ids
  EdgesOf,   \* the bucket keys of each batch
  Retention  \* how long buckets are kept

VARIABLES recorded, nodes, merged, now

repoVars == <<recorded, nodes, merged, now>>

RepoKey == UNION {EdgesOf[b] : b \in Batch}
Endpoints(k) == {k[2], k[3]}
Present(m, k) == \E b \in Batch : m[k][b] > 0
Outdated(k) == k[1] < now - Retention

\* ingest_batch of a new id: everything at once.  Of a known id: nothing.
IngestOnce(b) ==
  /\ b \notin recorded
  /\ recorded' = recorded \cup {b}
  /\ nodes' = nodes \cup UNION {Endpoints(k) : k \in EdgesOf[b]}
  /\ merged' = [k \in RepoKey |-> IF k \in EdgesOf[b] THEN [merged[k] EXCEPT ![b] = @ + 1]
                                  ELSE merged[k]]
  /\ now' = now

\* A step of purge_expired.
Maintain ==
  /\ recorded' \subseteq recorded
  /\ \A b \in recorded \ recorded' : \A k \in EdgesOf[b] : Outdated(k)
  /\ nodes' \subseteq nodes
  /\ \A k \in RepoKey : merged'[k] = merged[k] \/ ~Present(merged', k)
  /\ \A k \in RepoKey : Present(merged, k) /\ ~Present(merged', k) =>
       Outdated(k) \/ Endpoints(k) \cap (nodes \ nodes') # {}
  /\ \A k \in RepoKey : Present(merged', k) => Endpoints(k) \subseteq nodes'
  /\ now' = now

TimePasses == now' > now /\ UNCHANGED <<recorded, nodes, merged>>

RepoInit ==
  /\ recorded = {}
  /\ nodes = {}
  /\ merged = [k \in RepoKey |-> [b \in Batch |-> 0]]
  /\ now = 0

RepoNext == (\E b \in Batch : IngestOnce(b)) \/ Maintain \/ TimePasses

RepoSpec == RepoInit /\ [][RepoNext]_repoVars
=============================================================================
