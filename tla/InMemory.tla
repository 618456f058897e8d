----------------------------- MODULE InMemory -----------------------------
(***************************************************************************)
(* The in-memory repository (backend/app/persistence/memory.py): every     *)
(* operation runs under one asyncio lock, so each is one step.  It serves  *)
(* tests and local runs; the retention loop purges it like PostgreSQL.     *)
(*                                                                         *)
(* As in Store, a bucket holds how often each batch was merged into it;    *)
(* connection counts are derived from that.                                *)
(***************************************************************************)
EXTENDS Windows, Sums

CONSTANTS
  Batch,      \* batch ids
  Reports,    \* per batch, the edges it reports, each an EdgeReport
  Retention,  \* RETENTION_HOURS, in clock units
  MaxNow      \* bound: the clock

VARIABLES
  recorded,  \* _batches
  nodes,     \* _nodes
  merged,    \* _buckets
  now        \* the clock

memVars == <<recorded, nodes, merged, now>>

\* An edge of a batch.  One with no attempt is refused on arrival (models.py), and
\* edges that only failed are left out here.
EdgeReport == [seen : Nat, source : Int, target : Int, conns : Nat \ {0}]

KeyOf(r) == <<BucketStart(r.seen), r.source, r.target>>

EdgesOf == [b \in Batch |-> {KeyOf(r) : r \in Reports[b]}]
Key == UNION {EdgesOf[b] : b \in Batch}
Rows == {k \in Key : \E b \in Batch : merged[k][b] > 0}
Empty == [b \in Batch |-> 0]

ASSUME InMemoryAssumption ==
  /\ Retention \in Nat /\ MaxNow \in Nat
  /\ IsFiniteSet(Batch)
  /\ \A b \in Batch : IsFiniteSet(Reports[b]) /\ Reports[b] \subseteq EdgeReport

\* The edges reported for the buckets ks, each with its batch.
ReportsFor(ks) ==
  {p \in Batch \X UNION {Reports[b] : b \in Batch} : p[2] \in Reports[p[1]] /\ KeyOf(p[2]) \in ks}

\* The sum of connection_count over the buckets ks.
Conns(ks) == Total([p \in ReportsFor(ks) |-> merged[KeyOf(p[2])][p[1]] * p[2].conns])

-----------------------------------------------------------------------------
\* Mutant: the gate is left out.
GateMissing(b) == TRUE

\* The batch-id gate.
Gate(b) == b \notin recorded

IngestBatch(b) ==
  /\ \A r \in Reports[b] : r.seen <= now
  /\ Gate(b)
  /\ recorded' = recorded \cup {b}
  /\ nodes' = nodes \cup UNION {{r.source, r.target} : r \in Reports[b]}
  /\ merged' = [k \in Key |-> IF k \in EdgesOf[b] THEN [merged[k] EXCEPT ![b] = @ + 1]
                              ELSE merged[k]]
  /\ UNCHANGED now

\* Mutant: only sources count as references.
ReferencedSources(rows) == {k[2] : k \in rows}

Referenced(rows) == {k[2] : k \in rows} \cup {k[3] : k \in rows}

\* purge_expired at the retention loop's cutoff; ids stay.
PurgeExpired ==
  LET kept == {k \in Rows : ~(k[1] < now - Retention)} IN
    /\ merged' = [k \in Key |-> IF k \in kept THEN merged[k] ELSE Empty]
    /\ nodes' = nodes \cap Referenced(kept)
    /\ UNCHANGED <<recorded, now>>

Tick == now < MaxNow /\ now' = now + 1 /\ UNCHANGED <<recorded, nodes, merged>>

MemInit ==
  /\ recorded = {}
  /\ nodes = {}
  /\ merged = [k \in Key |-> Empty]
  /\ now = 0

MemNext == (\E b \in Batch : IngestBatch(b)) \/ PurgeExpired \/ Tick

MemSpec == MemInit /\ [][MemNext]_memVars

\* The adapter implements the repository protocol.
Repo == INSTANCE Repository
          WITH recorded <- recorded, nodes <- nodes, merged <- merged, now <- now

\* The operations of the adapter, and the retention loop's purges, are what the
\* repository protocol allows.
MemoryImplementsRepository == Repo!RepoSpec
=============================================================================
