------------------------------- MODULE Store -------------------------------
(***************************************************************************)
(* The PostgreSQL repository (backend/app/persistence/postgres.py):        *)
(* ingest_batch transactions of several sessions, and the retention loop's *)
(* purge_expired, statement by statement, at READ COMMITTED.               *)
(*                                                                         *)
(* A bucket row is the edge key with its minute.  Instead of a count it    *)
(* holds how often each batch was merged into it, which determines every   *)
(* counter column; the row exists when something is merged into it.        *)
(* Node ids are numbers because ingest_batch sorts them.                   *)
(*                                                                         *)
(* What PostgreSQL does, as far as the statements depend on it: an upsert  *)
(* of a node locks the id until the transaction ends; an insert of a batch *)
(* id waits for another open insert of the same id; a DELETE picks its     *)
(* rows by the snapshot taken when it starts, waits for the lock on each,  *)
(* and rechecks only the row itself when it was updated meanwhile, against *)
(* the same snapshot of other tables; ON DELETE CASCADE removes what       *)
(* refers to the row by then; a cycle of waits ends with one victim.       *)
(***************************************************************************)
EXTENDS Integers, FiniteSets

CONSTANTS
  Session,     \* concurrent ingest handlers (pool connections)
  Batch,       \* batch ids
  EdgesOf,     \* the bucket keys of each batch: <<minute, source, target>>
  Retention,   \* RETENTION_HOURS, in minutes
  MaxNow,      \* bound: the clock
  MaxAttempts, \* bound: POSTs of a batch that reach the database
  MaxPurges,   \* bound: retention passes
  PurgeBatch   \* PURGE_BATCH

Key == UNION {EdgesOf[b] : b \in Batch}
Node == UNION {{k[2], k[3]} : k \in Key}
NodesOf(b) == UNION {{k[2], k[3]} : k \in EdgesOf[b]}
NoOwner == "none"
Purger == "purge"

ASSUME StoreAssumption ==
  /\ \A b \in Batch : EdgesOf[b] \subseteq Nat \X (Nat \ {0}) \X (Nat \ {0}) /\ EdgesOf[b] # {}
  /\ Retention \in Nat /\ MaxNow \in Nat /\ MaxAttempts \in Nat /\ MaxPurges \in Nat
  /\ PurgeBatch \in Nat \ {0}
  /\ IsFiniteSet(Session) /\ Batch # {}
  /\ NoOwner \notin Session /\ Purger \notin Session

VARIABLES
  recorded, received,  \* ingest_batches: ids, and received_at of each
  nodes,               \* nodes: ids
  merged,              \* edge_buckets: merged[k][b]
  owner,               \* who holds the row lock of each node id
  tpc, tb, tat,        \* per session: step, batch, now() of the transaction
  ppc, cutoff,         \* retention pass: step and its cutoff
  sel, orphans, want,  \* rows its DELETEs picked; the node it waits for or 0
  now,                 \* the clock
  attempts, passes,    \* bounds used
  acked                \* history: batches a session answered 202 or 200

tableVars == <<recorded, received, nodes, merged>>
txVars == <<tpc, tb, tat>>
purgeVars == <<ppc, cutoff, sel, orphans, want, passes>>
storeVars == <<tableVars, owner, txVars, purgeVars, now, attempts, acked>>

Rows == {k \in Key : \E b \in Batch : merged[k][b] > 0}
Refers(k, n) == n \in {k[2], k[3]}
Locked(s) == {n \in Node : owner[n] = s}

\* Mutant: the end of a transaction leaves its locks behind.
ReleasedNever(s) == owner

Released(s) == [n \in Node |-> IF owner[n] = s THEN NoOwner ELSE owner[n]]
Smallest(S) == CHOOSE n \in S : \A m \in S : n <= m

-----------------------------------------------------------------------------
(* ingest_batch.                                                           *)

\* A POST reaches an idle session.  The agent stamps what it has seen, so no
\* bucket lies in the future.
Begin(s, b) ==
  /\ tpc[s] = "idle"
  /\ attempts < MaxAttempts
  /\ \A k \in EdgesOf[b] : k[1] <= now
  /\ tpc' = [tpc EXCEPT ![s] = "gate"]
  /\ tb' = [tb EXCEPT ![s] = b]
  /\ tat' = [tat EXCEPT ![s] = now]
  /\ attempts' = attempts + 1
  /\ UNCHANGED <<tableVars, owner, purgeVars, now, acked>>

\* Sessions with an uncommitted insert of the same batch id.
Inserting(s) == {u \in Session \ {s} : tb[u] = tb[s] /\ tpc[u] \in {"nodes", "edges"}}

\* The batch-id gate: a known id ends the transaction at once.
Gate(s) ==
  /\ tpc[s] = "gate"
  /\ Inserting(s) = {}
  /\ IF tb[s] \in recorded
     THEN tpc' = [tpc EXCEPT ![s] = "idle"] /\ acked' = acked \cup {tb[s]}
     ELSE tpc' = [tpc EXCEPT ![s] = "nodes"] /\ UNCHANGED acked
  /\ UNCHANGED <<tableVars, owner, tb, tat, purgeVars, now, attempts>>

\* Mutant: nodes are upserted in whatever order the batch lists them.
NextNodesAny(s) == NodesOf(tb[s]) \ Locked(s)

\* The node to upsert next: they are sorted.
NextNodes(s) ==
  LET left == NodesOf(tb[s]) \ Locked(s)
  IN  IF left = {} THEN {} ELSE {Smallest(left)}

UpsertNode(s) ==
  /\ tpc[s] = "nodes"
  /\ \E n \in NextNodes(s) :
       /\ owner[n] = NoOwner
       /\ owner' = [owner EXCEPT ![n] = s]
       /\ tpc' = [tpc EXCEPT ![s] = IF NodesOf(tb[s]) = Locked(s) \cup {n}
                                    THEN "edges" ELSE "nodes"]
  /\ UNCHANGED <<tableVars, tb, tat, purgeVars, now, attempts, acked>>

\* Mutant: the batch id is not part of the transaction that merges.
CommitUngated(s) ==
  /\ nodes' = nodes \cup NodesOf(tb[s])
  /\ merged' = [k \in Key |-> IF k \in EdgesOf[tb[s]]
                              THEN [merged[k] EXCEPT ![tb[s]] = @ + 1] ELSE merged[k]]
  /\ UNCHANGED <<recorded, received>>

\* What the transaction makes visible, all at once.
CommitTables(s) ==
  /\ recorded' = recorded \cup {tb[s]}
  /\ received' = [received EXCEPT ![tb[s]] = tat[s]]
  /\ nodes' = nodes \cup NodesOf(tb[s])
  /\ merged' = [k \in Key |-> IF k \in EdgesOf[tb[s]]
                              THEN [merged[k] EXCEPT ![tb[s]] = @ + 1] ELSE merged[k]]

\* The edge upserts and the commit.  A row a purge statement has picked has a
\* new version now, which its recheck (ctid IN ...) does not match.
UpsertEdgesAndCommit(s) ==
  /\ tpc[s] = "edges"
  /\ CommitTables(s)
  /\ owner' = Released(s)
  /\ sel' = sel \ EdgesOf[tb[s]]
  /\ tpc' = [tpc EXCEPT ![s] = "idle"]
  /\ acked' = acked \cup {tb[s]}
  /\ UNCHANGED <<tb, tat, ppc, cutoff, orphans, want, passes, now, attempts>>

\* Rollback: a lost connection, a crash, a cancelled handler, a deadlock victim.
\* The agent is answered 5xx or not at all, and retries.
Abort(s) ==
  /\ tpc[s] # "idle"
  /\ tpc' = [tpc EXCEPT ![s] = "idle"]
  /\ owner' = Released(s)
  /\ UNCHANGED <<tableVars, tb, tat, purgeVars, now, attempts, acked>>

-----------------------------------------------------------------------------
(* purge_expired, called by the retention loop; each statement commits.    *)

PurgeStart ==
  /\ ppc = "idle"
  /\ passes < MaxPurges
  /\ cutoff' = now - Retention
  /\ ppc' = "buckets"
  /\ passes' = passes + 1
  /\ UNCHANGED <<tableVars, owner, txVars, sel, orphans, want, now, attempts, acked>>

Expired(k, before) == k[1] < before

\* The bounded DELETE picks at most PurgeBatch expired rows ...
PurgeSelect ==
  /\ ppc = "buckets"
  /\ LET old == {k \in Rows : Expired(k, cutoff)} IN
       \E K \in SUBSET old :
         /\ Cardinality(K) = PurgeBatch \/ (K = old /\ Cardinality(old) < PurgeBatch)
         /\ sel' = K
  /\ ppc' = "delete"
  /\ UNCHANGED <<tableVars, owner, txVars, cutoff, orphans, want, passes, now, attempts, acked>>

\* ... and deletes those that nobody changed.  A short count ends the loop.
PurgeDelete ==
  /\ ppc = "delete"
  /\ merged' = [k \in Key |-> IF k \in sel THEN [b \in Batch |-> 0] ELSE merged[k]]
  /\ ppc' = IF Cardinality(sel) < PurgeBatch THEN "orphans" ELSE "buckets"
  /\ sel' = {}
  /\ UNCHANGED <<recorded, received, nodes, owner, txVars, cutoff, orphans, want, passes,
                 now, attempts, acked>>

\* The DELETE of unreferenced nodes: its snapshot ...
PurgeSnapshot ==
  /\ ppc = "orphans"
  /\ orphans' = {n \in nodes : \A k \in Rows : ~Refers(k, n)}
  /\ ppc' = "locking"
  /\ UNCHANGED <<tableVars, owner, txVars, cutoff, sel, want, passes, now, attempts, acked>>

\* ... the next row the scan reaches, in heap order ...
PurgeReach ==
  /\ ppc = "locking"
  /\ want = 0
  /\ \E n \in orphans \ Locked(Purger) : want' = n
  /\ UNCHANGED <<tableVars, owner, txVars, ppc, cutoff, sel, orphans, passes, now, attempts, acked>>

\* ... its lock ...
PurgeLock ==
  /\ ppc = "locking"
  /\ want # 0
  /\ owner[want] = NoOwner
  /\ owner' = [owner EXCEPT ![want] = Purger]
  /\ want' = 0
  /\ UNCHANGED <<tableVars, txVars, ppc, cutoff, sel, orphans, passes, now, attempts, acked>>

\* ON DELETE CASCADE from the nodes N.
Cascaded(N) ==
  [k \in Key |-> IF \E n \in N : Refers(k, n) THEN [b \in Batch |-> 0] ELSE merged[k]]

\* ... and the end of the statement, with the cascade to edge_buckets.
PurgeNodes ==
  /\ ppc = "locking"
  /\ orphans = Locked(Purger)
  /\ nodes' = nodes \ orphans
  /\ merged' = Cascaded(orphans)
  /\ owner' = Released(Purger)
  /\ orphans' = {}
  /\ ppc' = "ids"
  /\ UNCHANGED <<recorded, received, txVars, cutoff, sel, want, passes, now, attempts, acked>>

\* Mutant: an id received at the cutoff goes too.
KeptIdsTooFew(before) == {b \in recorded : received[b] > before}

KeptIds(before) == {b \in recorded : received[b] >= before}

PurgeIds ==
  /\ ppc = "ids"
  /\ recorded' = KeptIds(cutoff)
  /\ ppc' = "idle"
  /\ UNCHANGED <<received, nodes, merged, owner, txVars, cutoff, sel, orphans, want, passes,
                 now, attempts, acked>>

\* A statement fails: the pass ends, the loop logs it and tries at the next one.
PurgeFail ==
  /\ ppc # "idle"
  /\ ppc' = "idle"
  /\ owner' = Released(Purger)
  /\ sel' = {} /\ orphans' = {} /\ want' = 0
  /\ UNCHANGED <<tableVars, txVars, cutoff, passes, now, attempts, acked>>

-----------------------------------------------------------------------------
(* Waiting.                                                                *)

\* Whom a session or the purge waits for, if anyone.
WaitsFor(p) ==
  IF p = Purger
  THEN IF want = 0 THEN {} ELSE {owner[want]} \ {NoOwner}
  ELSE CASE tpc[p] = "gate"  -> Inserting(p)
         [] tpc[p] = "nodes" -> {owner[n] : n \in NextNodes(p)} \ {NoOwner}
         [] OTHER            -> {}

\* Everyone in C waits for someone in C.
Stuck(C) == C # {} /\ \A p \in C : WaitsFor(p) \cap C # {}

\* PostgreSQL's deadlock detector picks a victim.
DetectDeadlock ==
  \E C \in SUBSET (Session \cup {Purger}) :
    /\ Stuck(C)
    /\ \E p \in C : IF p = Purger THEN PurgeFail ELSE Abort(p)

Tick ==
  /\ now < MaxNow
  /\ now' = now + 1
  /\ UNCHANGED <<tableVars, owner, txVars, purgeVars, attempts, acked>>

-----------------------------------------------------------------------------
StoreInit ==
  /\ recorded = {}
  /\ received = [b \in Batch |-> 0]
  /\ nodes = {}
  /\ merged = [k \in Key |-> [b \in Batch |-> 0]]
  /\ owner = [n \in Node |-> NoOwner]
  /\ tpc = [s \in Session |-> "idle"]
  /\ tb \in [Session -> {CHOOSE b \in Batch : TRUE}]
  /\ tat = [s \in Session |-> 0]
  /\ ppc = "idle"
  /\ cutoff = 0
  /\ sel = {} /\ orphans = {} /\ want = 0
  /\ now = 0
  /\ attempts = 0 /\ passes = 0
  /\ acked = {}

Progress(s) == Gate(s) \/ UpsertNode(s) \/ UpsertEdgesAndCommit(s)

PurgeStep ==
  \/ PurgeSelect \/ PurgeDelete \/ PurgeSnapshot \/ PurgeReach \/ PurgeLock
  \/ PurgeNodes \/ PurgeIds

\* The bounds are used up.
StoreBounded ==
  /\ now = MaxNow /\ attempts = MaxAttempts /\ passes = MaxPurges
  /\ ppc = "idle" /\ \A s \in Session : tpc[s] = "idle"
  /\ UNCHANGED storeVars

StoreNext ==
  \/ \E s \in Session : (\E b \in Batch : Begin(s, b)) \/ Progress(s) \/ Abort(s)
  \/ PurgeStart \/ PurgeStep \/ PurgeFail
  \/ DetectDeadlock
  \/ Tick
  \/ StoreBounded

StoreSpec == StoreInit /\ [][StoreNext]_storeVars

\* Statements are executed, and deadlocks detected.  A lock is granted to each
\* waiter in turn.  Aborts, retries and retention passes need not happen.
StoreFairSpec ==
  /\ StoreSpec
  /\ \A s \in Session : SF_storeVars(Progress(s))
  /\ SF_storeVars(PurgeStep)
  /\ WF_storeVars(DetectDeadlock)

-----------------------------------------------------------------------------
(* Properties.                                                             *)

\* Retries, concurrent duplicates and the pruning of batch ids never merge a
\* batch twice into a bucket that is still within retention: an id outlives the
\* buckets it guards.
NoDoubleCount ==
  \A k \in Key, b \in Batch : ~Expired(k, now - Retention) => merged[k][b] <= 1

\* A batch answered 202 or 200 is on record, until retention prunes it.
AckedIsRecorded == \A b \in acked : b \in recorded \/ received[b] < now - Retention

\* Ingests cannot deadlock each other: node locks are taken in sorted order and
\* whoever waits for a batch id holds no lock.
IngestsNeverDeadlock == \A C \in SUBSET Session : ~Stuck(C)

\* Every ingest ends, also in the presence of a purge that locks the same nodes in
\* another order.
EveryIngestEnds == \A s \in Session : tpc[s] # "idle" ~> tpc[s] = "idle"

Repo == INSTANCE Repository
          WITH recorded <- recorded, nodes <- nodes, merged <- merged, now <- now

\* The transactions, their retries, crashes and races, and the statements of the
\* retention pass implement the repository protocol: every step that changes the
\* tables is one atomic ingest of a new batch or one permitted removal.
ImplementsRepository == Repo!RepoSpec

\* purge_expired's docstring: it deletes expired buckets, then nodes that nothing
\* references any more.  A bucket within retention is never deleted.
LiveBucketsKept ==
  [][\A k \in Rows : ~Expired(k, now - Retention) => k \in Rows']_storeVars
=============================================================================
