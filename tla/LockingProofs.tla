--------------------------- MODULE LockingProofs ----------------------------
(***************************************************************************)
(* Proofs about the two places where processes share state under locks.    *)
(* The PostgreSQL repository counts nothing twice, forgets no answered     *)
(* batch early, lets no ingests deadlock, and implements the repository    *)
(* protocol: for every set of batches and keys, every number of sessions   *)
(* and every retention.  The credentials file: whatever processes share it,*)
(* however their commands interleave and wherever they crash, no update is *)
(* lost, and nobody is signed out by the rotation of refresh tokens.       *)
(***************************************************************************)
EXTENDS Store, Credentials, FiniteSetTheorems, TLAPS

-----------------------------------------------------------------------------
(* The PostgreSQL repository: the inductive invariant.                     *)

Inserts(s) == tpc[s] \in {"nodes", "edges"}

\* The types of the variables the invariant speaks of.
StoreTyped ==
  /\ recorded \subseteq Batch /\ received \in [Batch -> Nat] /\ acked \subseteq Batch
  /\ nodes \subseteq Node /\ orphans \subseteq Node /\ want \in Node \cup {0}
  /\ merged \in [Key -> [Batch -> Nat]] /\ sel \subseteq Key
  /\ owner \in [Node -> Session \cup {NoOwner, Purger}]
  /\ tpc \in [Session -> {"idle", "gate", "nodes", "edges"}]
  /\ tb \in [Session -> Batch] /\ tat \in [Session -> Nat]
  /\ cutoff \in Int /\ now \in Nat

\* The batch-id gate: an open transaction past it has its batch to itself, and no
\* batch carries a bucket later than its transaction.
GateInv ==
  /\ \A s \in Session : tpc[s] # "idle" =>
       tat[s] <= now /\ \A k \in EdgesOf[tb[s]] : k[1] <= tat[s]
  /\ \A s \in Session : Inserts(s) => tb[s] \notin recorded
  /\ \A s, u \in Session : Inserts(s) /\ Inserts(u) /\ tb[s] = tb[u] => s = u

\* A recorded id was received no earlier than its buckets.  What is merged into a
\* bucket comes from a batch with that bucket, and is recorded or has expired.
RecordInv ==
  /\ \A b \in recorded : \A k \in EdgesOf[b] : k[1] <= received[b]
  /\ \A k \in Key, b \in Batch :
       merged[k][b] > 0 => k \in EdgesOf[b] /\ (b \in recorded \/ Expired(k, now - Retention))

\* A retention pass works with a cutoff in the past, and picks expired rows only.
PurgeInv ==
  /\ ppc # "idle" => cutoff <= now - Retention
  /\ sel # {} => ppc = "delete"
  /\ \A k \in sel : Expired(k, cutoff)

\* A bucket that holds something has both of its nodes.
RefersInv == \A k \in Rows : {k[2], k[3]} \subseteq nodes

\* Ingests hold locks of their own nodes only, taken in ascending order.
LockInv ==
  \A n \in Node, s \in Session : owner[n] = s =>
    /\ Inserts(s) /\ n \in NodesOf(tb[s])
    /\ \A m \in NodesOf(tb[s]) : owner[m] # s => n < m

StoreInv ==
  /\ StoreTyped /\ GateInv /\ RecordInv /\ PurgeInv /\ RefersInv /\ LockInv
  /\ NoDoubleCount /\ AckedIsRecorded

-----------------------------------------------------------------------------
(* Facts about the operators.                                              *)

\* Most leaves are first-order; those about records, functions or numbers name SMT.
USE ZenonT(30)

\* Keys and nodes are made of numbers, and a batch touches keys and nodes.
LEMMA KeyTypes ==
  /\ \A k \in Key : k[1] \in Nat /\ {k[2], k[3]} \subseteq Node
  /\ Node \subseteq Nat \ {0}
  /\ \A b \in Batch : EdgesOf[b] \subseteq Key /\ NodesOf(b) \subseteq Node
<1>1. ASSUME NEW k \in Key
      PROVE  k \in Nat \X (Nat \ {0}) \X (Nat \ {0})
  BY <1>1, StoreAssumption DEF Key
<1>2. \A k \in Key : k[1] \in Nat /\ k[2] \in Nat \ {0} /\ k[3] \in Nat \ {0}
  BY <1>1
<1>3. \A b \in Batch : EdgesOf[b] \subseteq Key
  BY DEF Key
<1>4. \A k \in Key : {k[2], k[3]} \subseteq Node
  BY DEF Node
<1>5. Node \subseteq Nat \ {0}
  BY <1>2 DEF Node
<1>6. \A b \in Batch : NodesOf(b) \subseteq Node
  BY <1>3, <1>4 DEF NodesOf
<1> QED
  BY <1>2, <1>3, <1>4, <1>5, <1>6

\* sorted() comes to the smallest node first.
LEMMA SmallestIsLeast ==
  ASSUME NEW S \in SUBSET Nat, S # {}
  PROVE  Smallest(S) \in S /\ \A m \in S : Smallest(S) <= m
<1>1. PICK n \in S : \A m \in S : <<m, n>> \notin OpToRel(<, Nat)
  BY WFMin, NatLessThanWellFounded
<1>2. ASSUME NEW m \in S, m < n
      PROVE  FALSE
  <2>1. <<m, n>> \in {ss \in Nat \X Nat : ss[1] < ss[2]}
    BY <1>2
  <2> QED
    BY <1>1, <2>1 DEF OpToRel
<1>3. \A m \in S : n <= m
  BY <1>2, SMTT(30)
<1> QED
  BY <1>3 DEF Smallest

\* The end of a transaction releases its locks and no others.
LEMMA ReleasedFrees ==
  ASSUME StoreTyped, NEW p, p # NoOwner
  PROVE  /\ Released(p) \in [Node -> Session \cup {NoOwner, Purger}]
         /\ \A n \in Node, s \in Session : Released(p)[n] = s <=> owner[n] = s /\ s # p
  BY StoreAssumption DEF Released, StoreTyped, NoOwner

-----------------------------------------------------------------------------
(* Every step keeps the invariant.                                         *)

\* ingest_batch keeps the invariant: the opening of its transaction, the batch-id insert,
\* each node upsert, the edge upserts with the commit, and a rollback.
LEMMA IngestKeeps ==
  ASSUME StoreInv,
         \/ \E s \in Session, b \in Batch : Begin(s, b)
         \/ \E s \in Session : Gate(s)
         \/ \E s \in Session : UpsertNode(s)
         \/ \E s \in Session : UpsertEdgesAndCommit(s)
         \/ \E s \in Session : Abort(s)
  PROVE  StoreInv'
<1> USE DEF StoreInv, tableVars, txVars, purgeVars
<1>1. ASSUME NEW s \in Session, NEW b \in Batch, Begin(s, b)
      PROVE  StoreInv'
  <2>1. StoreTyped'
    BY <1>1 DEF Begin, StoreTyped
  <2>2. GateInv'
    BY <1>1, SMTT(30) DEF Begin, StoreTyped, GateInv, Inserts
  <2>3. LockInv'
    BY <1>1, SMTT(30) DEF Begin, LockInv, Inserts
  <2>4. RecordInv' /\ PurgeInv' /\ RefersInv' /\ NoDoubleCount' /\ AckedIsRecorded'
    BY <1>1 DEF Begin, RecordInv, PurgeInv, RefersInv, Rows, NoDoubleCount,
       AckedIsRecorded
  <2> QED
    BY <2>1, <2>2, <2>3, <2>4
<1>2. ASSUME NEW s \in Session, Gate(s)
      PROVE  StoreInv'
  <2>1. StoreTyped'
    BY <1>2 DEF Gate, Inserting, StoreTyped
  <2>2. GateInv'
    BY <1>2, SMTT(30) DEF Gate, Inserting, StoreTyped, GateInv, Inserts
  <2>3. LockInv'
    BY <1>2, SMTT(30) DEF Gate, Inserting, StoreTyped, LockInv, Inserts
  <2>4. AckedIsRecorded'
    BY <1>2 DEF Gate, Inserting, AckedIsRecorded
  <2>5. RecordInv' /\ PurgeInv' /\ RefersInv' /\ NoDoubleCount'
    BY <1>2 DEF Gate, RecordInv, PurgeInv, RefersInv, Rows, NoDoubleCount
  <2> QED
    BY <2>1, <2>2, <2>3, <2>4, <2>5
<1>3. ASSUME NEW s \in Session, UpsertNode(s)
      PROVE  StoreInv'
  <2>1. StoreTyped'
    BY <1>3 DEF UpsertNode, NextNodes, Locked, StoreTyped
  <2>2. GateInv'
    BY <1>3, SMTT(30) DEF UpsertNode, NextNodes, Locked, GateInv, Inserts
  <2>3. LockInv'
    <3> DEFINE left == NodesOf(tb[s]) \ Locked(s)
    <3>1. PICK n \in NextNodes(s) :
             /\ owner[n] = NoOwner /\ owner' = [owner EXCEPT ![n] = s]
             /\ tpc' = [tpc EXCEPT ![s] = IF NodesOf(tb[s]) = Locked(s) \cup {n}
                                          THEN "edges" ELSE "nodes"]
      BY <1>3 DEF UpsertNode
    <3>2. NodesOf(tb[s]) \subseteq Node /\ Node \subseteq Nat
      BY KeyTypes DEF StoreTyped
    <3>3. left \in SUBSET Nat /\ left # {} /\ n = Smallest(left)
      BY <3>1, <3>2 DEF NextNodes
    <3> HIDE DEF left
    <3>4. n \in left /\ n \in Nat /\ \A m \in left : m \in Nat /\ n <= m
      BY <3>3, SmallestIsLeast
    <3>5. n \in NodesOf(tb[s]) /\ n \in Node
      BY <3>2, <3>4 DEF left
    <3>6. tb' = tb /\ Inserts(s)' /\ \A u \in Session : Inserts(u) => Inserts(u)'
      BY <1>3, <3>1 DEF UpsertNode, Inserts, StoreTyped
    <3>7. \A m \in Node, u \in Session : owner'[m] = u <=> owner[m] = u \/ (m = n /\ u = s)
      BY <3>1, <3>5, StoreAssumption DEF StoreTyped
    <3>8. \A m \in NodesOf(tb[s]) : owner[m] # s => m \in left
      BY <3>2 DEF Locked, left
    <3>9. ASSUME NEW x \in Node, NEW u \in Session, owner'[x] = u
           PROVE  Inserts(u)' /\ x \in NodesOf(tb[u])
                    /\ \A m \in NodesOf(tb[u]) : owner'[m] # u => x < m
      <4>1. CASE owner[x] = u
        <5>1. Inserts(u) /\ x \in NodesOf(tb[u]) /\ \A m \in NodesOf(tb[u]) : owner[m] # u => x < m
          BY <4>1 DEF LockInv
        <5>2. NodesOf(tb[u]) \subseteq Node
          BY KeyTypes DEF StoreTyped
        <5> QED
          BY <3>6, <3>7, <5>1, <5>2
      <4>2. CASE x = n /\ u = s
        <5>1. \A m \in NodesOf(tb[s]) : owner'[m] # s => m \in left /\ m # n
          BY <3>2, <3>7, <3>8
        <5>2. \A m \in left : m # n => n < m
          BY <3>4, SMTT(30)
        <5> QED
          BY <3>5, <3>6, <4>2, <5>1, <5>2
      <4> QED
        BY <3>7, <3>9, <4>1, <4>2
    <3> QED
      BY <3>6, <3>9 DEF LockInv
  <2>4. RecordInv' /\ PurgeInv' /\ RefersInv' /\ NoDoubleCount' /\ AckedIsRecorded'
    BY <1>3, SMTT(30) DEF UpsertNode, RecordInv, PurgeInv, RefersInv, Rows,
       NoDoubleCount, AckedIsRecorded
  <2> QED
    BY <2>1, <2>2, <2>3, <2>4
<1>4. ASSUME NEW s \in Session, UpsertEdgesAndCommit(s)
      PROVE  StoreInv'
  <2>1. StoreTyped'
    <3>1. NodesOf(tb[s]) \subseteq Node
      BY KeyTypes DEF StoreTyped
    <3>2. owner' \in [Node -> Session \cup {NoOwner, Purger}]
      <4>1. s # NoOwner
        BY StoreAssumption
      <4> QED
        BY <1>4, <4>1, ReleasedFrees DEF UpsertEdgesAndCommit
    <3>3. merged' \in [Key -> [Batch -> Nat]]
      BY <1>4, SMTT(30) DEF UpsertEdgesAndCommit, CommitTables, StoreTyped
    <3> QED
      BY <1>4, <3>1, <3>2, <3>3 DEF UpsertEdgesAndCommit, CommitTables, StoreTyped
  <2>2. GateInv'
    BY <1>4 DEF UpsertEdgesAndCommit, CommitTables, Released, StoreTyped, GateInv, Inserts
  <2>3. RecordInv'
    BY <1>4, SMTT(30) DEF UpsertEdgesAndCommit, CommitTables, Released, StoreTyped, GateInv,
       Inserts, RecordInv, Expired
  <2>4. PurgeInv'
    BY <1>4 DEF UpsertEdgesAndCommit, PurgeInv
  <2>5. RefersInv'
    <3> SUFFICES ASSUME NEW k \in Rows'
                  PROVE  {k[2], k[3]} \subseteq nodes'
      BY DEF RefersInv
    <3>1. CASE k \in EdgesOf[tb[s]]
      <4>1. {k[2], k[3]} \subseteq NodesOf(tb[s])
        BY <3>1 DEF NodesOf
      <4> QED
        BY <1>4, <4>1 DEF UpsertEdgesAndCommit, CommitTables
    <3>2. CASE k \notin EdgesOf[tb[s]]
      <4>1. k \in Rows
        BY <1>4, <3>2 DEF UpsertEdgesAndCommit, CommitTables, Rows
      <4> QED
        BY <1>4, <4>1 DEF UpsertEdgesAndCommit, CommitTables, RefersInv
    <3> QED
      BY <3>1, <3>2
  <2>6. LockInv'
    <3>1. \A n \in Node, u \in Session : owner'[n] = u <=> owner[n] = u /\ u # s
      <4>1. s # NoOwner
        BY StoreAssumption, SMTT(30)
      <4> QED
        BY <1>4, <4>1, ReleasedFrees, SMTT(30) DEF UpsertEdgesAndCommit
    <3>2. \A n \in Node, u \in Session : owner'[n] = u =>
             tb'[u] = tb[u] /\ tpc'[u] = tpc[u] /\ owner[n] = u
      BY <1>4, <3>1, SMTT(30) DEF UpsertEdgesAndCommit, StoreTyped
    <3>3. \A b \in Batch : NodesOf(b) \subseteq Node
      BY KeyTypes
    <3> QED
      BY <3>1, <3>2, <3>3, SMTT(30) DEF StoreTyped, LockInv, Inserts
  <2>7. NoDoubleCount'
    <3>1. tb[s] \notin recorded /\ now' = now
      BY <1>4 DEF UpsertEdgesAndCommit, GateInv, Inserts
    <3>2. \A k \in Key, b \in Batch :
            merged'[k][b] = merged[k][b] \/ (b = tb[s] /\ merged'[k][b] = merged[k][b] + 1)
      BY <1>4 DEF UpsertEdgesAndCommit, CommitTables, StoreTyped
    <3>3. \A k \in Key : merged[k][tb[s]] \in Nat /\
                         (~Expired(k, now - Retention) => ~(merged[k][tb[s]] > 0))
      BY <3>1 DEF RecordInv, StoreTyped
    <3> QED
      BY <3>1, <3>2, <3>3, SMTT(30) DEF NoDoubleCount, Expired
  <2>8. AckedIsRecorded'
    BY <1>4 DEF UpsertEdgesAndCommit, CommitTables, StoreTyped, AckedIsRecorded
  <2> QED
    BY <2>1, <2>2, <2>3, <2>4, <2>5, <2>6, <2>7, <2>8
<1>5. ASSUME NEW s \in Session, Abort(s)
      PROVE  StoreInv'
  <2>1. StoreTyped'
    BY <1>5 DEF Abort, Released, StoreTyped
  <2>2. GateInv'
    BY <1>5, SMTT(30) DEF Abort, Released, GateInv, Inserts
  <2>3. LockInv'
    <3>1. \A n \in Node, u \in Session : owner'[n] = u <=> owner[n] = u /\ u # s
      <4>1. s # NoOwner
        BY StoreAssumption, SMTT(30)
      <4> QED
        BY <1>5, <4>1, ReleasedFrees, SMTT(30) DEF Abort
    <3>2. \A n \in Node, u \in Session : owner'[n] = u =>
             tb'[u] = tb[u] /\ tpc'[u] = tpc[u] /\ owner[n] = u
      BY <1>5, <3>1 DEF Abort, StoreTyped
    <3>3. \A b \in Batch : NodesOf(b) \subseteq Node
      BY KeyTypes, SMTT(30)
    <3> QED
      BY <3>1, <3>2, <3>3, SMTT(30) DEF StoreTyped, LockInv, Inserts
  <2>4. RecordInv' /\ PurgeInv' /\ RefersInv' /\ NoDoubleCount' /\ AckedIsRecorded'
    BY <1>5, SMTT(30) DEF Abort, RecordInv, PurgeInv, RefersInv, Rows, NoDoubleCount,
       AckedIsRecorded
  <2> QED
    BY <2>1, <2>2, <2>3, <2>4, SMTT(30)
<1> QED
  BY <1>1, <1>2, <1>3, <1>4, <1>5

\* purge_expired keeps the invariant: its four statements and a failure in any of them.
LEMMA PurgeKeeps ==
  ASSUME StoreInv,
         \/ PurgeStart
         \/ PurgeSelect
         \/ PurgeDelete
         \/ PurgeSnapshot
         \/ PurgeReach
         \/ PurgeLock
         \/ PurgeNodes
         \/ PurgeIds
         \/ PurgeFail
  PROVE  StoreInv'
<1> USE DEF StoreInv, tableVars, txVars, purgeVars
<1>1. CASE PurgeStart
  <2>1. StoreTyped'
    BY <1>1, SMTT(30) DEF PurgeStart, StoreTyped
  <2>2. PurgeInv'
    BY <1>1, SMTT(30) DEF PurgeStart, PurgeInv, Expired
  <2>3. GateInv' /\ RecordInv' /\ RefersInv' /\ LockInv' /\ NoDoubleCount' /\ AckedIsRecorded'
    BY <1>1 DEF PurgeStart, GateInv, Inserts, RecordInv, RefersInv, Rows,
       LockInv, NoDoubleCount, AckedIsRecorded
  <2> QED
    BY <2>1, <2>2, <2>3
<1>2. CASE PurgeSelect
  <2>1. StoreTyped'
    BY <1>2 DEF PurgeSelect, Rows, StoreTyped
  <2>2. PurgeInv'
    BY <1>2 DEF PurgeSelect, PurgeInv
  <2>3. UNCHANGED <<tableVars, txVars, owner, now, acked>>
    BY <1>2 DEF PurgeSelect
  <2>4. GateInv' /\ LockInv' /\ AckedIsRecorded'
    BY <2>3 DEF GateInv, Inserts, LockInv, AckedIsRecorded
  <2>5. RecordInv'
    BY <2>3 DEF RecordInv
  <2>6. RefersInv'
    BY <2>3 DEF RefersInv, Rows
  <2>7. NoDoubleCount'
    BY <2>3 DEF NoDoubleCount
  <2> QED
    BY <2>1, <2>2, <2>4, <2>5, <2>6, <2>7
<1>3. CASE PurgeDelete
  <2>1. StoreTyped'
    BY <1>3 DEF PurgeDelete, StoreTyped
  <2>2. RecordInv'
    BY <1>3, SMTT(30) DEF PurgeDelete, RecordInv
  <2>3. PurgeInv'
    BY <1>3 DEF PurgeDelete, PurgeInv
  <2>4. RefersInv'
    BY <1>3, SMTT(30) DEF PurgeDelete, RefersInv, Rows
  <2>5. NoDoubleCount'
    BY <1>3, SMTT(30) DEF PurgeDelete, NoDoubleCount, Expired
  <2>6. GateInv' /\ LockInv' /\ AckedIsRecorded'
    BY <1>3 DEF PurgeDelete, GateInv, Inserts, LockInv, AckedIsRecorded
  <2> QED
    BY <2>1, <2>2, <2>3, <2>4, <2>5, <2>6
<1>4. CASE PurgeSnapshot
  <2>1. StoreTyped'
    BY <1>4 DEF PurgeSnapshot, StoreTyped
  <2>2. PurgeInv'
    BY <1>4 DEF PurgeSnapshot, PurgeInv, Expired
  <2>3. GateInv' /\ RecordInv' /\ RefersInv' /\ LockInv' /\ NoDoubleCount' /\ AckedIsRecorded'
    BY <1>4 DEF PurgeSnapshot, GateInv, Inserts, RecordInv, RefersInv, Rows,
       LockInv, NoDoubleCount, AckedIsRecorded
  <2> QED
    BY <2>1, <2>2, <2>3, SMTT(30)
<1>5. CASE PurgeReach
  <2>1. StoreTyped'
    BY <1>5 DEF PurgeReach, Locked, StoreTyped
  <2>2. GateInv' /\ RecordInv' /\ PurgeInv' /\ RefersInv' /\ LockInv' /\ NoDoubleCount' /\ AckedIsRecorded'
    BY <1>5 DEF PurgeReach, GateInv, Inserts, RecordInv, PurgeInv, RefersInv,
       Rows, LockInv, NoDoubleCount, AckedIsRecorded
  <2> QED
    BY <2>1, <2>2
<1>6. CASE PurgeLock
  <2>1. StoreTyped'
    BY <1>6 DEF PurgeLock, StoreTyped
  <2>2. LockInv'
    BY <1>6, StoreAssumption, SMTT(30) DEF PurgeLock, StoreTyped, LockInv, Inserts
  <2>3. GateInv' /\ RecordInv' /\ PurgeInv' /\ RefersInv' /\ NoDoubleCount' /\ AckedIsRecorded'
    BY <1>6 DEF PurgeLock, GateInv, Inserts, RecordInv, PurgeInv, RefersInv,
       Rows, NoDoubleCount, AckedIsRecorded
  <2> QED
    BY <2>1, <2>2, <2>3
<1>7. CASE PurgeNodes
  <2>1. StoreTyped'
    BY <1>7 DEF PurgeNodes, Cascaded, Released, Refers, Locked, StoreTyped
  <2>2. RecordInv'
    BY <1>7, SMTT(30) DEF PurgeNodes, Cascaded, Released, Refers, Locked, RecordInv, Expired
  <2>3. PurgeInv'
    BY <1>7 DEF PurgeNodes, Cascaded, Released, Refers, Locked, PurgeInv, Expired
  <2>4. RefersInv'
    BY <1>7, SMTT(30) DEF PurgeNodes, Cascaded, Released, Refers, Locked, RefersInv, Rows
  <2>5. LockInv'
    <3>1. \A n \in Node, u \in Session : owner'[n] = u <=> owner[n] = u /\ u # Purger
      <4>1. Purger # NoOwner
        BY DEF Purger, NoOwner
      <4> QED
        BY <1>7, <4>1, ReleasedFrees, SMTT(30) DEF PurgeNodes
    <3>2. \A n \in Node, u \in Session : owner'[n] = u =>
             tb'[u] = tb[u] /\ tpc'[u] = tpc[u] /\ owner[n] = u
      BY <1>7, <3>1 DEF PurgeNodes, StoreTyped
    <3>3. \A b \in Batch : NodesOf(b) \subseteq Node
      BY KeyTypes
    <3> QED
      BY <3>1, <3>2, <3>3, SMTT(30) DEF StoreTyped, LockInv, Inserts
  <2>6. NoDoubleCount'
    BY <1>7, SMTT(30) DEF PurgeNodes, Cascaded, NoDoubleCount
  <2>7. GateInv' /\ AckedIsRecorded'
    BY <1>7 DEF PurgeNodes, GateInv, Inserts, AckedIsRecorded
  <2> QED
    BY <2>1, <2>2, <2>3, <2>4, <2>5, <2>6, <2>7
<1>8. CASE PurgeIds
  <2>1. /\ recorded' = KeptIds(cutoff) /\ recorded' \subseteq recorded /\ ppc = "ids" /\ ppc' = "idle"
        /\ UNCHANGED <<received, nodes, merged, owner, tpc, tb, tat, cutoff, sel, orphans, want, now,
                       acked>>
    BY <1>8 DEF PurgeIds, KeptIds
  <2>2. cutoff <= now - Retention /\ sel = {}
    BY <2>1 DEF PurgeInv
  <2>3. cutoff \in Int /\ now - Retention \in Int
    BY StoreAssumption, SMTT(30) DEF StoreTyped
  <2>4. ASSUME NEW b \in recorded, b \notin recorded'
        PROVE  received[b] \in Nat /\ received[b] < now - Retention
    <3>1. received[b] \in Nat
      BY DEF StoreTyped
    <3>2. ~(received[b] >= cutoff)
      BY <2>1, <2>4 DEF KeptIds
    <3> QED
      BY <2>2, <2>3, <3>1, <3>2, SMTT(30)
  <2>5. StoreTyped'
    BY <2>1 DEF StoreTyped
  <2>6. GateInv'
    BY <2>1 DEF GateInv, Inserts
  <2>7. RecordInv'
    <3>1. ASSUME NEW b \in recorded, b \notin recorded', NEW k \in EdgesOf[b]
          PROVE  Expired(k, now - Retention)
      <4>1. k[1] \in Nat
        BY KeyTypes DEF StoreTyped
      <4>2. k[1] <= received[b]
        BY DEF RecordInv
      <4> QED
        BY <2>3, <2>4, <3>1, <4>1, <4>2, SMTT(30) DEF Expired
    <3> QED
      BY <2>1, <3>1 DEF RecordInv
  <2>8. PurgeInv'
    BY <2>1, <2>2 DEF PurgeInv
  <2>9. AckedIsRecorded'
    BY <2>1, <2>4 DEF AckedIsRecorded
  <2>10. RefersInv' /\ LockInv' /\ NoDoubleCount'
    BY <2>1 DEF RefersInv, Rows, LockInv, Inserts, NoDoubleCount
  <2> QED
    BY <2>5, <2>6, <2>7, <2>8, <2>9, <2>10
<1>9. CASE PurgeFail
  <2>1. StoreTyped'
    BY <1>9 DEF PurgeFail, Released, StoreTyped
  <2>2. PurgeInv'
    BY <1>9 DEF PurgeFail, PurgeInv
  <2>3. LockInv'
    <3>1. \A n \in Node, u \in Session : owner'[n] = u <=> owner[n] = u /\ u # Purger
      <4>1. Purger # NoOwner
        BY SMTT(30) DEF Purger, NoOwner
      <4> QED
        BY <1>9, <4>1, ReleasedFrees, SMTT(30) DEF PurgeFail
    <3>2. \A n \in Node, u \in Session : owner'[n] = u =>
             tb'[u] = tb[u] /\ tpc'[u] = tpc[u] /\ owner[n] = u
      BY <1>9, <3>1 DEF PurgeFail, StoreTyped
    <3>3. \A b \in Batch : NodesOf(b) \subseteq Node
      BY KeyTypes, SMTT(30)
    <3> QED
      BY <3>1, <3>2, <3>3, SMTT(30) DEF StoreTyped, LockInv, Inserts
  <2>4. GateInv' /\ RecordInv' /\ RefersInv' /\ NoDoubleCount' /\ AckedIsRecorded'
    BY <1>9 DEF PurgeFail, GateInv, Inserts, RecordInv, RefersInv, Rows,
       NoDoubleCount, AckedIsRecorded
  <2> QED
    BY <2>1, <2>2, <2>3, <2>4
<1> QED
  BY <1>1, <1>2, <1>3, <1>4, <1>5, <1>6, <1>7, <1>8, <1>9

\* What has expired stays expired.
LEMMA ExpiredStays ==
  ASSUME NEW k \in Key, NEW x \in Int, NEW y \in Int, x <= y, Expired(k, x)
  PROVE  Expired(k, y)
<1>1. k[1] \in Int
  BY KeyTypes, SMTT(30)
<1> QED
  BY <1>1, SMTT(30) DEF Expired

\* Time keeps the invariant: what has expired stays expired.
LEMMA TickKeeps ==
  ASSUME StoreInv, Tick
  PROVE  StoreInv'
<1> USE DEF StoreInv
<1>1. UNCHANGED <<recorded, received, nodes, merged, owner, tpc, tb, tat, ppc, cutoff, sel, orphans,
                  want, acked>> /\ now' = now + 1
  BY DEF Tick, tableVars, txVars, purgeVars
<1>2. now \in Nat /\ now' \in Nat /\ Retention \in Nat /\ cutoff \in Int
  BY <1>1, StoreAssumption, SMTT(30) DEF StoreTyped
<1>3. now - Retention \in Int /\ now' - Retention \in Int /\ now - Retention <= now' - Retention
  BY <1>1, <1>2, SMTT(30)
<1>4. \A k \in Key : Expired(k, now - Retention) => Expired(k, now' - Retention)
  BY <1>3, ExpiredStays
<1>5. StoreTyped'
  BY <1>1, <1>2 DEF StoreTyped
<1>6. GateInv'
  <2>1. \A s \in Session : tat[s] \in Nat
    BY DEF StoreTyped
  <2>2. \A s \in Session : tat[s] <= now => tat[s] <= now'
    BY <1>1, <1>2, <2>1, SMTT(30)
  <2> QED
    BY <1>1, <2>2 DEF GateInv, Inserts
<1>7. RecordInv'
  BY <1>1, <1>4 DEF RecordInv
<1>8. PurgeInv'
  <2>1. cutoff <= now - Retention => cutoff <= (now + 1) - Retention
    BY <1>2, SMTT(30)
  <2> QED
    BY <1>1, <2>1 DEF PurgeInv
<1>9. RefersInv' /\ LockInv'
  BY <1>1 DEF RefersInv, Rows, LockInv, Inserts
<1>10. NoDoubleCount'
  BY <1>1, <1>4 DEF NoDoubleCount
<1>11. AckedIsRecorded'
  <2>1. ASSUME NEW b \in acked, received[b] < now - Retention
        PROVE  received[b] < now' - Retention
    <3>1. received[b] \in Int
      BY SMTT(30) DEF StoreTyped
    <3> QED
      BY <1>3, <2>1, <3>1, SMTT(30)
  <2> QED
    BY <1>1, <2>1 DEF AckedIsRecorded
<1> QED
  BY <1>5, <1>6, <1>7, <1>8, <1>9, <1>10, <1>11

\* A failed statement or a deadlock victim ends as PurgeFail or Abort do.
LEMMA InvariantKept == StoreInv /\ [StoreNext]_storeVars => StoreInv'
<1> SUFFICES ASSUME StoreInv, [StoreNext]_storeVars
             PROVE  StoreInv'
  OBVIOUS
<1>1. CASE \E s \in Session : (\E b \in Batch : Begin(s, b)) \/ Progress(s) \/ Abort(s)
  BY <1>1, IngestKeeps DEF Progress
<1>2. CASE PurgeStart \/ PurgeStep \/ PurgeFail
  BY <1>2, PurgeKeeps DEF PurgeStep
<1>3. CASE DetectDeadlock
  BY <1>3, IngestKeeps, PurgeKeeps DEF DetectDeadlock
<1>4. CASE Tick
  BY <1>4, TickKeeps
<1>5. CASE StoreBounded \/ UNCHANGED storeVars
  <2>1. UNCHANGED <<tableVars, owner, txVars, purgeVars, now, acked>>
    BY <1>5 DEF StoreBounded, storeVars
  <2> USE <2>1 DEF StoreInv, tableVars, txVars, purgeVars
  <2>2. StoreTyped'
    BY DEF StoreTyped
  <2>3. GateInv'
    BY DEF GateInv, Inserts
  <2>4. RecordInv'
    BY DEF RecordInv
  <2>5. PurgeInv'
    BY DEF PurgeInv
  <2>6. RefersInv'
    BY DEF RefersInv, Rows
  <2>7. LockInv'
    BY DEF LockInv, Inserts
  <2>8. NoDoubleCount'
    BY DEF NoDoubleCount
  <2>9. AckedIsRecorded'
    BY DEF AckedIsRecorded
  <2> QED
    BY <2>2, <2>3, <2>4, <2>5, <2>6, <2>7, <2>8, <2>9
<1> QED
  BY <1>1, <1>2, <1>3, <1>4, <1>5 DEF StoreNext

\* The tables start empty, and nobody holds a lock.
LEMMA InvariantInitially == StoreInit => StoreInv
<1> SUFFICES ASSUME StoreInit
             PROVE  StoreInv
  OBVIOUS
<1>1. StoreTyped
  <2>1. (CHOOSE b \in Batch : TRUE) \in Batch
    BY StoreAssumption
  <2>2. tb \in [Session -> Batch] /\ tat \in [Session -> Nat]
    BY <2>1 DEF StoreInit
  <2>3. tpc \in [Session -> {"idle", "gate", "nodes", "edges"}]
    BY DEF StoreInit
  <2>4. merged \in [Key -> [Batch -> Nat]]
    BY DEF StoreInit
  <2>5. owner \in [Node -> Session \cup {NoOwner, Purger}] /\ received \in [Batch -> Nat]
    BY DEF StoreInit
  <2> QED
    BY <2>2, <2>3, <2>4, <2>5, SMTT(30) DEF StoreInit, StoreTyped
<1>2. GateInv /\ PurgeInv
  BY DEF StoreInit, GateInv, PurgeInv, Inserts
<1>3. \A k \in Key, b \in Batch : merged[k][b] = 0
  BY DEF StoreInit
<1>4. RecordInv /\ RefersInv /\ NoDoubleCount
  BY <1>3, SMTT(30) DEF StoreInit, RecordInv, RefersInv, NoDoubleCount, Rows
<1>5. LockInv
  BY StoreAssumption DEF StoreInit, LockInv
<1>6. AckedIsRecorded
  BY DEF StoreInit, AckedIsRecorded
<1> QED
  BY <1>1, <1>2, <1>4, <1>5, <1>6 DEF StoreInv

\* The invariant holds in every state of every behaviour of postgres.py.
LEMMA Invariance == StoreSpec => []StoreInv
  BY InvariantInitially, InvariantKept, PTL DEF StoreSpec

-----------------------------------------------------------------------------
(* What follows from it.                                                   *)

\* ingest_batch: however often and by however many sessions a batch is delivered, and
\* whatever the retention pass prunes meanwhile, a bucket within retention counts it
\* once.  The id outlives the buckets it guards, for every retention.
THEOREM CountedOnce == StoreSpec => []NoDoubleCount
<1>1. StoreInv => NoDoubleCount
  BY DEF StoreInv
<1> QED
  BY <1>1, Invariance, PTL

\* A batch the backend answered 202 or 200 is on record until retention prunes it.
THEOREM AnsweredIsRecorded == StoreSpec => []AckedIsRecorded
<1>1. StoreInv => AckedIsRecorded
  BY DEF StoreInv
<1> QED
  BY <1>1, Invariance, PTL

\* An ingest that waits for a node's lock waits for an ingest, the purge or nobody.
\* If it is an ingest, that one can go on, or waits for a later node.
LEMMA WaitsUpwards ==
  ASSUME StoreInv, NEW s \in Session, NEW u \in Session, u \in WaitsFor(s), tpc[s] = "nodes"
  PROVE  /\ Inserts(u)
         /\ tpc[u] = "nodes" /\ NextNodes(u) # {} =>
              \A n \in NextNodes(s), m \in NextNodes(u) : n < m
<1>0. s # Purger
  BY StoreAssumption
<1>1. PICK n \in NextNodes(s) : owner[n] = u
  BY <1>0 DEF WaitsFor
<1>2. \A v \in Session : /\ NodesOf(tb[v]) \ Locked(v) \in SUBSET Nat
                         /\ NodesOf(tb[v]) \subseteq Node
  BY KeyTypes DEF StoreInv, StoreTyped
<1>3. \A v \in Session : \A m \in NextNodes(v) :
        /\ m = Smallest(NodesOf(tb[v]) \ Locked(v))
        /\ m \in NodesOf(tb[v]) \ Locked(v)
  BY <1>2, SmallestIsLeast DEF NextNodes
<1>4. n \in Node /\ \A x \in NextNodes(s) : x = n
  BY <1>2, <1>3
<1>5. Inserts(u) /\ \A m \in NodesOf(tb[u]) : owner[m] # u => n < m
  BY <1>1, <1>4 DEF StoreInv, LockInv
<1>6. \A m \in NextNodes(u) : m \in NodesOf(tb[u]) /\ owner[m] # u
  BY <1>2, <1>3 DEF Locked
<1> QED
  BY <1>4, <1>5, <1>6

\* Over a finite set that is not empty, numbers have a maximum.
LEMMA MaximumExists ==
  ASSUME NEW S, S # {}, IsFiniteSet(S), NEW f \in [S -> Nat]
  PROVE  \E x \in S : \A y \in S : f[y] <= f[x]
<1> DEFINE Above(x) == {y \in S : f[x] < f[y]}
           T == {Above(x) : x \in S}
<1>1. T \subseteq FiniteSubsetsOf(S)
  BY FS_FiniteSubsetsOfFinite
<1>2. PICK X \in T : \A Y \in T : <<Y, X>> \notin StrictSubsetOrdering(S)
  <2>1. T # {}
    <3>1. PICK x : x \in S
      OBVIOUS
    <3>2. Above(x) \in T
      BY <3>1
    <3> QED
      BY <3>2
  <2> HIDE DEF T
  <2>2. IsWellFoundedOn(StrictSubsetOrdering(S), FiniteSubsetsOf(S))
    BY FS_StrictSubsetOrderingWellFounded
  <2> QED
    BY <1>1, <2>1, <2>2, WFMin
<1>3. PICK x \in S : X = Above(x)
  BY <1>2
<1>4. ASSUME NEW y \in S, f[x] < f[y]
      PROVE  FALSE
  <2>1. \A z \in S : f[y] < f[z] => f[x] < f[z]
    BY <1>4, SMTT(30)
  <2>2. Above(y) \subseteq Above(x) /\ y \in Above(x) /\ y \notin Above(y)
    BY <1>4, <2>1, SMTT(30)
  <2>3. <<Above(y), Above(x)>> \in StrictSubsetOrdering(S)
    BY <2>2 DEF StrictSubsetOrdering
  <2> QED
    BY <1>2, <1>3, <2>3
<1> QED
  BY <1>4, SMTT(30)

\* No set of ingests waits in a circle: whoever waits for a batch id holds no lock, and
\* of those that wait for a lock, the one that waits for the largest node would wait
\* for somebody who waits for a larger one.  This holds for any number of sessions; it
\* rests on ingest_batch sorting the nodes.
THEOREM NoIngestDeadlock == StoreSpec => []IngestsNeverDeadlock
<1>1. StoreInv => IngestsNeverDeadlock
  <2> SUFFICES ASSUME StoreInv, NEW C \in SUBSET Session, Stuck(C)
               PROVE  FALSE
    BY DEF IngestsNeverDeadlock
  <2> DEFINE W == {p \in C : tpc[p] = "nodes"}
  <2>1. \A p \in C : WaitsFor(p) \cap C # {} /\ p # Purger /\ p \in Session
    BY StoreAssumption DEF Stuck
  <2>2. \A p \in C : tpc[p] \in {"gate", "nodes"}
    BY <2>1 DEF WaitsFor
  <2>3. W # {}
    <3>1. PICK p \in C : TRUE
      BY DEF Stuck
    <3>2. CASE tpc[p] = "gate"
      <4>1. PICK u \in C : u \in Inserting(p)
        BY <2>1, <3>2 DEF WaitsFor
      <4> QED
        BY <2>2, <4>1 DEF Inserting
    <3> QED
      BY <2>2, <3>1, <3>2
  <2>4. \A p \in W : NextNodes(p) # {}
    BY <2>1 DEF WaitsFor
  <2>5. \A p \in W : \E q \in W : q \in WaitsFor(p)
    <3> SUFFICES ASSUME NEW p \in W
                 PROVE  \E q \in W : q \in WaitsFor(p)
      OBVIOUS
    <3>1. PICK q \in C : q \in WaitsFor(p)
      BY <2>1
    <3>2. Inserts(q)
      BY <2>1, <3>1, WaitsUpwards
    <3> QED
      BY <2>2, <3>1, <3>2 DEF Inserts
  <2> DEFINE f == [p \in W |-> Smallest(NodesOf(tb[p]) \ Locked(p))]
  <2>6. \A p \in W : NextNodes(p) = {f[p]} /\ f[p] \in Nat
    <3> SUFFICES ASSUME NEW p \in W
                 PROVE  NextNodes(p) = {f[p]} /\ f[p] \in Nat
      OBVIOUS
    <3>1. NodesOf(tb[p]) \ Locked(p) \in SUBSET Nat
      BY <2>1, KeyTypes DEF StoreInv, StoreTyped
    <3> QED
      BY <2>4, <3>1, SmallestIsLeast DEF NextNodes
  <2>7. IsFiniteSet(W)
    BY StoreAssumption, FS_Subset
  <2>8. PICK p \in W : \A q \in W : f[q] <= f[p]
    <3>1. f \in [W -> Nat]
      BY <2>6
    <3> HIDE DEF f, W
    <3> QED
      BY <2>3, <2>7, <3>1, MaximumExists
  <2>9. PICK q \in W : q \in WaitsFor(p)
    BY <2>5
  <2>10. f[p] < f[q]
    BY <2>1, <2>4, <2>6, <2>9, WaitsUpwards
  <2>11. f[q] <= f[p] /\ f[p] \in Nat /\ f[q] \in Nat
    BY <2>6, <2>8, <2>9
  <2> HIDE DEF f, W
  <2> QED
    BY <2>10, <2>11, SMTT(30)
<1> QED
  BY <1>1, Invariance, PTL

-----------------------------------------------------------------------------
(* The refinement.                                                         *)

\* protocol.py and postgres.py have the same buckets.
LEMMA RepoKeyIsKey == Repo!RepoKey = Key
  BY DEF Repo!RepoKey, Key

\* A commit is one ingest of a batch that was not on record.
LEMMA CommitRefines ==
  ASSUME StoreInv, NEW s \in Session, UpsertEdgesAndCommit(s)
  PROVE  Repo!IngestOnce(tb[s])
<1>1. GateInv
  BY DEF StoreInv
<1>2. Inserts(s)
  BY DEF UpsertEdgesAndCommit, Inserts
<1>3. tb[s] \notin recorded
  BY <1>1, <1>2 DEF GateInv
<1>4. UNION {Repo!Endpoints(k) : k \in EdgesOf[tb[s]]} = NodesOf(tb[s])
  BY DEF Repo!Endpoints, NodesOf
<1>5. CommitTables(s) /\ now' = now
  BY DEF UpsertEdgesAndCommit
<1> QED
  BY <1>3, <1>4, <1>5, RepoKeyIsKey DEF CommitTables, Repo!IngestOnce

\* A statement that empties buckets, all of them expired or with a node that goes too,
\* and removes nodes that no bucket left over refers to, is a step of maintenance.
LEMMA RemovalRefines ==
  ASSUME RefersInv', NEW E \in SUBSET Key,
         recorded' = recorded, now' = now, nodes' \subseteq nodes,
         merged' = [k \in Key |-> IF k \in E THEN [b \in Batch |-> 0] ELSE merged[k]],
         \A k \in E : Repo!Outdated(k) \/ {k[2], k[3]} \cap (nodes \ nodes') # {}
                        \/ ~Repo!Present(merged, k)
  PROVE  Repo!Maintain
<1>1. \A k \in Key : k \in E => ~Repo!Present(merged', k)
  BY SMTT(30) DEF Repo!Present
<1>2. \A k \in Key : k \notin E => merged'[k] = merged[k]
  OBVIOUS
<1>3. \A k \in Key : Repo!Present(merged, k) /\ ~Repo!Present(merged', k) => k \in E
  BY <1>2 DEF Repo!Present
<1>4. \A k \in Key : Repo!Present(merged', k) => {k[2], k[3]} \subseteq nodes'
  BY DEF RefersInv, Rows, Repo!Present
<1> QED
  BY <1>1, <1>2, <1>3, <1>4, RepoKeyIsKey DEF Repo!Maintain, Repo!Endpoints

\* The bounded DELETE removes expired rows only, for its cutoff is in the past.
LEMMA DeleteRefines ==
  ASSUME StoreInv, RefersInv', PurgeDelete
  PROVE  Repo!Maintain
<1>1. StoreTyped /\ PurgeInv
  BY DEF StoreInv
<1>2. cutoff <= now - Retention /\ \A k \in sel : Expired(k, cutoff)
  BY <1>1 DEF PurgeInv, PurgeDelete
<1>3. sel \subseteq Key /\ cutoff \in Int /\ now \in Nat
  BY <1>1 DEF StoreTyped
<1>4. \A k \in sel : Repo!Outdated(k)
  <2> SUFFICES ASSUME NEW k \in sel
               PROVE  Repo!Outdated(k)
    OBVIOUS
  <2>1. k[1] \in Nat /\ Retention \in Nat
    BY <1>3, KeyTypes, StoreAssumption
  <2> QED
    BY <1>2, <1>3, <2>1, SMTT(30) DEF Expired, Repo!Outdated
<1>5. /\ recorded' = recorded /\ now' = now /\ nodes' = nodes
      /\ merged' = [k \in Key |-> IF k \in sel THEN [b \in Batch |-> 0] ELSE merged[k]]
  BY DEF PurgeDelete
<1> QED
  BY <1>3, <1>4, <1>5, RemovalRefines

\* The DELETE of nodes takes with it, by cascade, the buckets that refer to them.
LEMMA NodesRefine ==
  ASSUME StoreInv, RefersInv', PurgeNodes
  PROVE  Repo!Maintain
<1> DEFINE E == {k \in Key : \E n \in orphans : Refers(k, n)}
<1>1. /\ recorded' = recorded /\ now' = now /\ nodes' = nodes \ orphans
      /\ merged' = Cascaded(orphans)
  BY DEF PurgeNodes
<1>2. merged' = [k \in Key |-> IF k \in E THEN [b \in Batch |-> 0] ELSE merged[k]]
  BY <1>1 DEF Cascaded
<1>3. RefersInv
  BY DEF StoreInv
<1>4. ASSUME NEW k \in E, Repo!Present(merged, k)
      PROVE  {k[2], k[3]} \cap (nodes \ nodes') # {}
  <2>1. PICK n \in orphans : n \in {k[2], k[3]}
    BY DEF Refers
  <2>2. n \in nodes
    BY <1>3, <1>4, <2>1 DEF RefersInv, Rows, Repo!Present
  <2> QED
    BY <1>1, <2>1, <2>2
<1>5. E \subseteq Key
  OBVIOUS
<1> HIDE DEF E
<1> QED
  BY <1>1, <1>2, <1>4, <1>5, RemovalRefines

\* A batch id is pruned only when all buckets of its batch have expired.
LEMMA IdsRefine ==
  ASSUME StoreInv, RefersInv', PurgeIds
  PROVE  Repo!Maintain
<1>1. StoreTyped /\ PurgeInv /\ RecordInv
  BY DEF StoreInv
<1>2. /\ recorded' = KeptIds(cutoff) /\ merged' = merged /\ nodes' = nodes /\ now' = now
      /\ cutoff <= now - Retention
  BY <1>1 DEF PurgeIds, PurgeInv
<1>3. cutoff \in Int /\ now \in Nat /\ Retention \in Nat
  BY <1>1, StoreAssumption DEF StoreTyped
<1>4. ASSUME NEW b \in recorded, b \notin recorded', NEW k \in EdgesOf[b]
      PROVE  Repo!Outdated(k)
  <2>1. b \in Batch /\ received[b] \in Nat
    BY <1>1 DEF StoreTyped
  <2>2. k[1] \in Nat
    BY <2>1, KeyTypes
  <2>3. ~(received[b] >= cutoff)
    BY <1>2, <1>4 DEF KeptIds
  <2>4. k[1] <= received[b]
    BY <1>1 DEF RecordInv
  <2> QED
    BY <1>2, <1>3, <2>1, <2>2, <2>3, <2>4, SMTT(30) DEF Repo!Outdated
<1>5. recorded' \subseteq recorded
  BY <1>2 DEF KeptIds
<1>6. \A k \in Key : Repo!Present(merged', k) => Repo!Endpoints(k) \subseteq nodes'
  BY DEF RefersInv, Rows, Repo!Present, Repo!Endpoints
<1> QED
  BY <1>2, <1>4, <1>5, <1>6, RepoKeyIsKey DEF Repo!Maintain

\* postgres.py implements protocol.py: whatever sessions, retries, lost connections and
\* retention passes interleave, every change of the tables is one atomic ingest of a
\* new batch or one permitted removal.
THEOREM StoreRefines == StoreSpec => ImplementsRepository
<1>1. StoreInit => Repo!RepoInit
  BY RepoKeyIsKey DEF StoreInit, Repo!RepoInit
<1>2. StoreInv /\ StoreInv' /\ [StoreNext]_storeVars => [Repo!RepoNext]_(Repo!repoVars)
  <2> SUFFICES ASSUME StoreInv, StoreInv', [StoreNext]_storeVars
               PROVE  [Repo!RepoNext]_(Repo!repoVars)
    OBVIOUS
  <2>1. ASSUME NEW s \in Session, UpsertEdgesAndCommit(s)
        PROVE  Repo!RepoNext
    <3>1. tb[s] \in Batch
      BY DEF StoreInv, StoreTyped
    <3> QED
      BY <2>1, <3>1, CommitRefines DEF Repo!RepoNext
  <2>2. CASE PurgeDelete \/ PurgeNodes \/ PurgeIds
    <3>1. RefersInv'
      BY DEF StoreInv
    <3> QED
      BY <2>2, <3>1, DeleteRefines, NodesRefine, IdsRefine DEF Repo!RepoNext
  <2>3. CASE Tick
    BY <2>3, SMTT(30) DEF Tick, tableVars, StoreInv, StoreTyped, Repo!RepoNext, Repo!TimePasses
  <2>4. CASE \E s \in Session : (\E b \in Batch : Begin(s, b)) \/ Gate(s) \/ UpsertNode(s) \/ Abort(s)
    BY <2>4 DEF Begin, Gate, UpsertNode, Abort, tableVars, Repo!repoVars
  <2>5. CASE PurgeStart \/ PurgeSelect \/ PurgeSnapshot \/ PurgeReach \/ PurgeLock \/ PurgeFail
    BY <2>5 DEF PurgeStart, PurgeSelect, PurgeSnapshot, PurgeReach, PurgeLock, PurgeFail,
                tableVars, Repo!repoVars
  <2>6. CASE DetectDeadlock
    BY <2>6 DEF DetectDeadlock, PurgeFail, Abort, tableVars, Repo!repoVars
  <2>7. CASE StoreBounded \/ UNCHANGED storeVars
    BY <2>7 DEF StoreBounded, storeVars, tableVars, Repo!repoVars
  <2> QED
    BY <2>1, <2>2, <2>3, <2>4, <2>5, <2>6, <2>7 DEF StoreNext, Progress, PurgeStep
<1> QED
  BY <1>1, <1>2, Invariance, PTL DEF StoreSpec, ImplementsRepository, Repo!RepoSpec

-----------------------------------------------------------------------------
(* The credentials file: the inductive invariant.                          *)

Entry == [id : Nat, refresh : Nat, config : BOOLEAN]
Place == {"load", "request", "lock", "locked", "redeem", "reread", "write", "browser", "done", "crashed"}
State == [pc : Place, token : Nat, rejected : Nat, copy : {NoFile} \cup [Server -> Entry]]

CredTyped ==
  /\ file \in [Server -> Entry]
  /\ lock \in Process \cup {Nobody}
  /\ run \in [Process -> [command : Command, server : Server]]
  /\ proc \in [Process -> State]
  /\ valid \subseteq Nat /\ issued \in Nat
  /\ replaced \subseteq Nat /\ excused \subseteq Nat

Is(p, c) == run[p].command = c
Held(p) == proc[p].pc \in {"locked", "redeem", "reread", "write"}
Renews(p) == Is(p, "query") /\ At(p, "write")
Current(p) == file[Of(p)]
NewEntry(p) == proc[p].copy[Of(p)]
Usable(t) == t \in valid \/ t \in excused

\* A process past the lock holds it, so its copy is what the file holds, but for the
\* entry it is about to write.
CopyInv(p) ==
  /\ Held(p) => lock = p
  /\ At(p, "locked") \/ At(p, "redeem") \/ At(p, "reread") => proc[p].copy = file
  /\ At(p, "write") =>
       /\ proc[p].copy \in [Server -> Entry]
       /\ \A s \in Server : s # Of(p) => proc[p].copy[s] = file[s]

\* What the callbacks have established.
CallbackInv(p) ==
  /\ At(p, "load") \/ At(p, "request") \/ At(p, "redeem") \/ At(p, "reread") => Is(p, "query")
  /\ At(p, "redeem") \/ At(p, "reread") => Current(p).refresh # 0
  /\ At(p, "redeem") \/ At(p, "reread") \/ Renews(p) => SignedIn(Current(p))
  /\ At(p, "reread") => Current(p).refresh \in excused
  /\ Renews(p) => IF NewEntry(p) = Cleared THEN Current(p).refresh \in excused \cup {0}
                  ELSE NewEntry(p).refresh # 0 /\ Usable(NewEntry(p).refresh)
  /\ At(p, "write") /\ Is(p, "logout") => NewEntry(p) = Absent
  /\ At(p, "write") /\ Is(p, "login") => \E r \in {0, proc[p].token} : NewEntry(p) = SignedInAs(proc[p].token, r)

\* Process p has got the refresh token t and not stored it yet.
Carries(p, t) ==
  \/ Is(p, "login") /\ proc[p].pc \in {"lock", "locked", "write"} /\ t = proc[p].token
  \/ Renews(p) /\ t = NewEntry(p).refresh /\ t # Current(p).refresh /\ t # 0

\* Nobody else has it.
CarryInv(p) ==
  \A t \in Nat : Carries(p, t) =>
    /\ t \in 1..issued /\ Usable(t) /\ t \notin replaced
    /\ \A s \in Server : file[s].refresh # t

\* The entries have distinct refresh tokens, none of them replaced; and the provider
\* accepts each, unless a fault has spoiled it or its successor is about to be written.
FileInv ==
  /\ \A t \in replaced : t <= issued
  /\ \A s \in Server : file[s].refresh <= issued
  /\ \A s, u \in Server : file[s].refresh = file[u].refresh /\ file[s].refresh # 0 => s = u
  /\ \A s \in Server : file[s].refresh # 0 => file[s].refresh \notin replaced
  /\ \A s \in Server : file[s].refresh # 0 =>
       Usable(file[s].refresh) \/ \E p \in Process : Renews(p) /\ Of(p) = s
  /\ \A s \in signedOut : file[s] = Absent

ProcInv(p) == CopyInv(p) /\ CallbackInv(p) /\ CarryInv(p)

CarriedOnce == \A p, q \in Process, t \in Nat : Carries(p, t) /\ Carries(q, t) => p = q

CredInv ==
  /\ CredTyped
  /\ FileInv
  /\ \A p \in Process : ProcInv(p)
  /\ CarriedOnce

-----------------------------------------------------------------------------
(* All steps but Write leave the file as it is.                            *)

\* What such a step of process p may do to the rest.
Apart(p) ==
  /\ UNCHANGED <<file, run, replaced, signedOut>>
  /\ \A q \in Process : q # p => proc'[q] = proc[q] /\ (lock = q => lock' = q)
  /\ issued' >= issued
  /\ excused \subseteq excused'
  /\ \A t \in Nat : Usable(t) => Usable(t)' \/ (Held(p) /\ t = Current(p).refresh /\ Renews(p)')
  /\ Renews(p) => Current(p).refresh \in excused'

\* A process gets new tokens only from the provider.
Fresh(p) == \A t \in Nat : Carries(p, t)' => Carries(p, t) \/ t > issued

LEMMA OthersKept ==
  ASSUME CredInv, CredTyped', NEW p \in Process, Apart(p), NEW q \in Process, q # p
  PROVE  ProcInv(q)' /\ \A t \in Nat : Carries(q, t)' <=> Carries(q, t)
<1>1. CredTyped /\ ProcInv(q) /\ ProcInv(p)
  BY DEF CredInv
<1>2. /\ proc'[q] = proc[q] /\ file' = file /\ run' = run /\ replaced' = replaced
      /\ lock = q => lock' = q
      /\ excused \subseteq excused'
  BY DEF Apart
<1>3. ~(Held(p) /\ Held(q))
  BY <1>1 DEF ProcInv, CopyInv
<1>4. CopyInv(q)'
  BY <1>1, <1>2 DEF ProcInv, CopyInv, Held, At, Of
<1>5. \A t \in Nat : Carries(q, t)' <=> Carries(q, t)
  BY <1>2 DEF Carries, Is, Renews, At, NewEntry, Current, Of
<1>6. \A t \in Nat : Usable(t) /\ Held(q) => Usable(t)'
  BY <1>3 DEF Apart
<1>7. CallbackInv(q)'
  <2>1. CallbackInv(q)
    BY <1>1 DEF ProcInv
  <2>2. Renews(q) => Held(q) /\ NewEntry(q).refresh \in Nat
    <3>1. Renews(q) => Held(q)
      BY DEF Renews, At, Held
    <3>2. Renews(q) => proc[q].copy \in [Server -> Entry] /\ Of(q) \in Server
      BY <1>1 DEF Renews, ProcInv, CopyInv, CredTyped, Of
    <3> QED
      BY <3>1, <3>2 DEF NewEntry, Entry
  <2>3. /\ Renews(q)' <=> Renews(q)
        /\ NewEntry(q)' = NewEntry(q) /\ Current(q)' = Current(q)
    BY <1>2 DEF Renews, NewEntry, Current, Of, Is, At
  <2>4. Renews(q) /\ Usable(NewEntry(q).refresh) => Usable(NewEntry(q).refresh)'
    BY <1>6, <2>2, <2>3
  <2> QED
    BY <1>2, <2>1, <2>3, <2>4 DEF CallbackInv, Is, At
<1>8. CarryInv(q)'
  <2> SUFFICES ASSUME NEW t \in Nat, Carries(q, t)
               PROVE  /\ t \in 1..issued' /\ Usable(t)' /\ t \notin replaced
                      /\ \A s \in Server : file[s].refresh # t
    BY <1>2, <1>5 DEF CarryInv
  <2>1. /\ t \in 1..issued /\ Usable(t) /\ t \notin replaced
        /\ \A s \in Server : file[s].refresh # t
    BY <1>1 DEF ProcInv, CarryInv
  <2>2. t # Current(p).refresh
    BY <1>1, <2>1 DEF Current, Of, CredTyped
  <2>3. Usable(t)'
    BY <2>1, <2>2 DEF Apart
  <2>4. t \in 1..issued'
    BY <2>1, <1>1, SMTT(30) DEF Apart, CredTyped
  <2> QED
    BY <2>1, <2>3, <2>4
<1> QED
  BY <1>4, <1>5, <1>7, <1>8 DEF ProcInv

LEMMA FileInvKept ==
  ASSUME CredInv, CredTyped', NEW p \in Process, Apart(p)
  PROVE  FileInv'
<1>1. CredTyped /\ FileInv
  BY DEF CredInv
<1>2. file' = file /\ run' = run /\ replaced' = replaced /\ signedOut' = signedOut
  BY DEF Apart
<1>3. issued \in Nat /\ issued' \in Nat /\ issued' >= issued
  BY <1>1 DEF Apart, CredTyped
<1>4. \A s \in Server : file[s].refresh \in Nat
  BY <1>1 DEF CredTyped, Entry
<1>5. \A t \in replaced' : t <= issued'
  BY <1>1, <1>2, <1>3, SMTT(30) DEF FileInv, CredTyped
<1>6. \A s \in Server : file'[s].refresh <= issued'
  BY <1>1, <1>2, <1>3, <1>4, SMTT(30) DEF FileInv
<1>7. ASSUME NEW s \in Server, file[s].refresh # 0
      PROVE  Usable(file[s].refresh)' \/ \E q \in Process : Renews(q)' /\ Of(q)' = s
  <2>1. Usable(file[s].refresh) \/ \E q \in Process : Renews(q) /\ Of(q) = s
    BY <1>1, <1>7 DEF FileInv
  <2>2. CASE \E q \in Process : Renews(q) /\ Of(q) = s
    <3>1. PICK q \in Process : Renews(q) /\ Of(q) = s
      BY <2>2
    <3>2. CASE q = p
      BY <1>2, <3>1, <3>2 DEF Apart, Current, Usable
    <3>3. CASE q # p
      BY <1>2, <3>1, <3>3 DEF Apart, Renews, Is, At, Of
    <3> QED
      BY <3>2, <3>3
  <2>3. CASE Usable(file[s].refresh)
    <3>1. CASE Held(p) /\ file[s].refresh = Current(p).refresh /\ Renews(p)'
      <4>1. Of(p) = s
        BY <1>1, <1>7, <3>1 DEF FileInv, Current, Of, CredTyped
      <4> QED
        BY <1>2, <3>1, <4>1 DEF Of
    <3>2. CASE ~(Held(p) /\ file[s].refresh = Current(p).refresh /\ Renews(p)')
      BY <1>2, <1>4, <2>3, <3>2 DEF Apart
    <3> QED
      BY <3>1, <3>2
  <2> QED
    BY <2>1, <2>2, <2>3
<1> QED
  BY <1>1, <1>2, <1>5, <1>6, <1>7 DEF FileInv

\* A step that keeps apart from the others has to establish the invariant of its own process.
LEMMA ApartKeeps ==
  ASSUME CredInv, CredTyped', NEW p \in Process, Apart(p), ProcInv(p)', Fresh(p)
  PROVE  CredInv'
<1>1. \A q \in Process : ProcInv(q)'
  BY OthersKept
<1>2. \A q \in Process : q # p => \A t \in Nat : Carries(q, t)' <=> Carries(q, t)
  BY OthersKept
<1>3. \A q \in Process, t \in Nat : Carries(q, t) => t \in 1..issued
  BY DEF CredInv, ProcInv, CarryInv
<1>4. ASSUME NEW q \in Process, q # p, NEW t \in Nat
      PROVE  ~(Carries(p, t)' /\ Carries(q, t)')
  <2>1. ~(Carries(p, t) /\ Carries(q, t))
    BY <1>4 DEF CredInv, CarriedOnce
  <2>2. t > issued => ~Carries(q, t)
    BY <1>3, SMTT(30) DEF CredInv, CredTyped
  <2> QED
    BY <1>2, <1>4, <2>1, <2>2 DEF Fresh
<1>5. CarriedOnce'
  <2> SUFFICES ASSUME NEW a \in Process, NEW b \in Process, NEW t \in Nat,
                      Carries(a, t)', Carries(b, t)'
               PROVE  a = b
    BY DEF CarriedOnce
  <2>1. CASE a # p /\ b # p
    BY <1>2, <2>1 DEF CredInv, CarriedOnce
  <2> QED
    BY <1>4, <2>1
<1>6. FileInv'
  BY FileInvKept
<1> QED
  BY <1>1, <1>5, <1>6 DEF CredInv


\* A process that is at one of these places has nothing to lose.
Idle(p) ==
  \/ proc[p].pc \in {"done", "crashed"}
  \/ Is(p, "query") /\ proc[p].pc \in {"load", "request", "lock"}

LEMMA IdleKeeps ==
  ASSUME CredInv, CredTyped', NEW p \in Process, Apart(p), Idle(p)'
  PROVE  CredInv'
<1>1. \A t \in Nat : ~Carries(p, t)'
  BY DEF Idle, Carries, Renews, Is, At
<1>2. CopyInv(p)'
  BY DEF Idle, CopyInv, Held, At
<1>3. CallbackInv(p)'
  BY DEF Idle, CallbackInv, Renews, Is, At
<1>4. ProcInv(p)' /\ Fresh(p)
  BY <1>1, <1>2, <1>3 DEF ProcInv, CarryInv, Fresh
<1> QED
  BY <1>4, ApartKeeps

-----------------------------------------------------------------------------
(* The steps' common parts.                                                *)

\* Only process p moves, to place l.
Moves(p, l) ==
  /\ proc' \in [Process -> State]
  /\ \A q \in Process : q # p => proc'[q] = proc[q]
  /\ proc'[p].pc = l

LEMMA EntryTypes ==
  /\ Absent \in Entry /\ Cleared \in Entry /\ Cleared # Absent
  /\ \A n, r \in Nat : SignedInAs(n, r) \in Entry /\ (n # 0 => SignedInAs(n, r) # Cleared)
  /\ Cleared.refresh = 0 /\ Absent.refresh = 0 /\ ~SignedIn(Absent) /\ ~SignedIn(Cleared)
  /\ \A n, r \in Nat : SignedInAs(n, r).refresh = r /\ SignedInAs(n, r).id = n
BY DEF Absent, Cleared, SignedInAs, Entry, SignedIn

LEMMA SetMoves ==
  ASSUME CredTyped, NEW p \in Process, NEW v \in State, proc' = [proc EXCEPT ![p] = v]
  PROVE  Moves(p, v.pc) /\ proc'[p] = v
BY DEF Moves, CredTyped

LEMMA EndMoves ==
  ASSUME CredTyped, NEW p \in Process, NEW l \in Place, End(p, l)
  PROVE  Moves(p, l)
<1>1. New(l) \in State /\ New(l).pc = l
  BY DEF New, State
<1> QED
  BY <1>1 DEF End, Moves, CredTyped

LEMMA GotoMoves ==
  ASSUME CredTyped, NEW p \in Process, NEW l \in Place, Goto(p, l)
  PROVE  Moves(p, l) /\ proc'[p].copy = proc[p].copy /\ proc'[p].token = proc[p].token
BY DEF Goto, Moves, CredTyped, State

LEMMA ReturnMoves ==
  ASSUME CredTyped, NEW p \in Process, NEW t \in Nat, Return(p, t)
  PROVE  Moves(p, After(p, t))
<1>1. CASE After(p, t) = "done"
  BY <1>1, EndMoves DEF Return, Place
<1>2. CASE After(p, t) # "done"
  <2>1. After(p, t) = "request"
    BY <1>2 DEF After
  <2> DEFINE v == [New("request") EXCEPT !.token = t, !.rejected = proc[p].rejected]
  <2>2. proc' = [proc EXCEPT ![p] = v]
    BY <1>2, <2>1 DEF Return
  <2>3. proc[p].rejected \in Nat
    BY DEF CredTyped, State
  <2>4. v \in State /\ v.pc = "request"
    BY <2>3 DEF New, State, Place
  <2> HIDE DEF v
  <2> QED
    BY <2>1, <2>2, <2>4 DEF Moves, CredTyped
<1> QED
  BY <1>1, <1>2

LEMMA PrepareMoves ==
  ASSUME CredTyped, NEW p \in Process, NEW f \in [Server -> Entry], NEW e \in Entry,
         NEW t \in Nat, Prepare(p, f, e, t)
  PROVE  /\ Moves(p, "write")
         /\ proc'[p].copy = [f EXCEPT ![Of(p)] = e] /\ proc'[p].token = t
<1>1. [f EXCEPT ![Of(p)] = e] \in [Server -> Entry]
  OBVIOUS
<1> DEFINE g == [f EXCEPT ![Of(p)] = e]
<1>2. g \in [Server -> Entry]
  BY <1>1
<1> DEFINE v == [proc[p] EXCEPT !.copy = g, !.token = t, !.pc = "write"]
<1>3. proc' = [proc EXCEPT ![p] = v]
  BY DEF Prepare
<1>4. proc[p] \in State /\ "write" \in Place
  BY DEF CredTyped, Place
<1> HIDE DEF g
<1>5. v \in State /\ v.pc = "write" /\ v.copy = g /\ v.token = t
  BY <1>2, <1>4 DEF State
<1> HIDE DEF v
<1> QED
  BY <1>3, <1>5, SetMoves DEF g

LEMMA UnlockApart ==
  ASSUME CredTyped, NEW p \in Process, Unlock(p)
  PROVE  lock' \in Process \cup {Nobody} /\ \A q \in Process : q # p /\ lock = q => lock' = q
BY DEF Unlock, CredTyped

\* A step of p that leaves the file and the provider alone.
LEMMA QuietStep ==
  ASSUME CredInv, NEW p \in Process, NEW l, Moves(p, l),
         UNCHANGED <<file, run, valid, issued, replaced, signedOut>>,
         lock' \in Process \cup {Nobody}, \A q \in Process : q # p /\ lock = q => lock' = q,
         excused' \in {excused, excused \cup {Current(p).refresh}},
         Renews(p) => Current(p).refresh \in excused'
  PROVE  CredTyped' /\ Apart(p)
<1>1. CredTyped /\ Current(p).refresh \in Nat
  BY DEF CredInv, CredTyped, Current, Of, Entry
<1>2. CredTyped'
  BY <1>1 DEF CredTyped, Moves
<1>3. \A t \in Nat : Usable(t) => Usable(t)'
  BY DEF Usable
<1>4. issued' >= issued
  BY <1>1, SMTT(30) DEF CredTyped
<1> QED
  BY <1>2, <1>3, <1>4 DEF Apart, Moves

-----------------------------------------------------------------------------
(* One lemma per group of actions.                                         *)

LEMMA RequestKeeps ==
  ASSUME CredInv, NEW p \in Process, Load(p) \/ Accepted(p) \/ Unauthorized(p) \/ GiveUp(p)
  PROVE  CredInv'
<1>1. CredTyped /\ ProcInv(p)
  BY DEF CredInv
<1>2. /\ UNCHANGED <<file, run, valid, issued, replaced, signedOut, lock, excused>>
      /\ proc[p].pc \in {"load", "request", "lock"}
  BY DEF Load, Accepted, Unauthorized, GiveUp, providerVars, ghosts, At
<1>3. proc[p].pc \in {"load", "request"} => Is(p, "query")
  BY <1>1 DEF ProcInv, CallbackInv, At
<1>4. \E l \in Place : Moves(p, l) /\ Idle(p)'
  <2>1. CASE End(p, "done")
    BY <2>1, <1>1, EndMoves DEF Moves, Idle, Place
  <2>2. CASE Load(p) /\ ~End(p, "done")
    <3>1. proc[p].pc = "load" /\ run' = run
      BY <2>2, <1>2 DEF Load, At
    <3>2. CASE Goto(p, "request")
      BY <3>2, <1>1, <1>3, <3>1, GotoMoves DEF Moves, Idle, Is, Place
    <3>3. CASE proc' = [proc EXCEPT ![p].token = file[Of(p)].id, ![p].pc = "request"]
      <4> DEFINE v == [proc[p] EXCEPT !.token = file[Of(p)].id, !.pc = "request"]
      <4>1. file[Of(p)].id \in Nat /\ proc[p] \in State /\ "request" \in Place
        BY <1>1 DEF CredTyped, Of, Entry, Place
      <4>2. v \in State /\ v.pc = "request"
        BY <4>1 DEF State
      <4> HIDE DEF v
      <4>3. Moves(p, "request")
        <5>1. proc' = [proc EXCEPT ![p] = v]
          BY <3>3 DEF v
        <5> QED
          BY <1>1, <4>2, <5>1, SetMoves
      <4> QED
        BY <1>3, <3>1, <4>3 DEF Moves, Idle, Is, Place
    <3>4. CASE proc' = [proc EXCEPT ![p].copy = file, ![p].pc = "lock"]
      <4> DEFINE v == [proc[p] EXCEPT !.copy = file, !.pc = "lock"]
      <4>1. file \in [Server -> Entry] /\ proc[p] \in State /\ "lock" \in Place
        BY <1>1 DEF CredTyped, Place
      <4>2. v \in State /\ v.pc = "lock"
        BY <4>1 DEF State
      <4> HIDE DEF v
      <4>3. Moves(p, "lock")
        <5>1. proc' = [proc EXCEPT ![p] = v]
          BY <3>4 DEF v
        <5> QED
          BY <1>1, <4>2, <5>1, SetMoves
      <4> QED
        BY <1>3, <3>1, <4>3 DEF Moves, Idle, Is, Place
    <3> QED
      BY <2>2, <3>2, <3>3, <3>4 DEF Load
  <2>3. CASE Unauthorized(p) /\ ~End(p, "done")
    <3> DEFINE v == [New("load") EXCEPT !.rejected = proc[p].token]
    <3>1. proc' = [proc EXCEPT ![p] = v] /\ proc[p].pc = "request" /\ run' = run
      BY <2>3, <1>2 DEF Unauthorized, At
    <3>2. proc[p].token \in Nat
      BY <1>1 DEF CredTyped, State
    <3>3. v \in State /\ v.pc = "load"
      BY <3>2 DEF New, State, Place
    <3> HIDE DEF v
    <3>4. Moves(p, "load")
      BY <1>1, <3>1, <3>3 DEF Moves, CredTyped
    <3> QED
      BY <1>3, <3>1, <3>4 DEF Moves, Idle, Is, Place
  <2> QED
    BY <2>1, <2>2, <2>3 DEF Accepted, GiveUp
<1>5. ~Renews(p)
  BY <1>2 DEF Renews, At
<1>6. CredTyped' /\ Apart(p)
  BY <1>1, <1>2, <1>4, <1>5, QuietStep DEF CredTyped
<1> QED
  BY <1>4, <1>6, IdleKeeps

LEMMA FaultKeeps ==
  ASSUME CredInv, NEW p \in Process, FileFails(p) \/ Crash(p)
  PROVE  CredInv'
<1>1. CredTyped
  BY DEF CredInv
<1>2. /\ UNCHANGED <<file, run, valid, issued, replaced, signedOut>>
      /\ Unlock(p) /\ Spoil(p) /\ \E l \in {"done", "crashed"} : End(p, l)
  BY DEF FileFails, Crash, providerVars
<1>3. \E l \in Place : Moves(p, l) /\ Idle(p)'
  BY <1>1, <1>2, EndMoves DEF Moves, Idle, Place
<1>4. /\ excused' \in {excused, excused \cup {Current(p).refresh}}
      /\ Renews(p) => Current(p).refresh \in excused'
  BY <1>2 DEF Spoil, Current, Renews, Is
<1>5. CredTyped' /\ Apart(p)
  BY <1>1, <1>2, <1>3, <1>4, UnlockApart, QuietStep
<1> QED
  BY <1>3, <1>5, IdleKeeps

\* The callback leaves the file alone.
LEMMA UnchangedKeeps ==
  ASSUME CredInv, NEW p \in Process, NEW t \in Nat, Unchanged(p, t), ~At(p, "write"),
         UNCHANGED <<file, run, valid, issued, replaced, signedOut, excused>>
  PROVE  CredInv'
<1>1. CredTyped
  BY DEF CredInv
<1>2. Unlock(p) /\ Return(p, t)
  BY DEF Unchanged
<1>3. Moves(p, After(p, t)) /\ Idle(p)'
  BY <1>1, <1>2, ReturnMoves DEF Moves, Idle, After, Is
<1>4. ~Renews(p)
  BY DEF Renews
<1>5. CredTyped' /\ Apart(p)
  BY <1>1, <1>2, <1>3, <1>4, UnlockApart, QuietStep
<1> QED
  BY <1>3, <1>5, IdleKeeps

LEMMA AcquireKeeps ==
  ASSUME CredInv, NEW p \in Process, Acquire(p)
  PROVE  CredInv'
<1>1. CredTyped /\ ProcInv(p)
  BY DEF CredInv
<1>2. /\ UNCHANGED <<file, run, valid, issued, replaced, signedOut, excused>>
      /\ lock = Nobody /\ lock' = p /\ proc[p].pc = "lock"
      /\ proc' = [proc EXCEPT ![p].copy = file, ![p].pc = "locked"]
  BY DEF Acquire, LockFree, UnderLock, providerVars, ghosts, At
<1>3. Moves(p, "locked") /\ proc'[p].copy = file /\ proc'[p].token = proc[p].token
  BY <1>1, <1>2 DEF CredTyped, State, Moves, Place
<1>4. CredTyped' /\ Apart(p)
  <2>1. ~Renews(p)
    BY <1>2 DEF Renews, At
  <2>2. Nobody \notin Process
    BY CredAssumption
  <2> QED
    BY <1>2, <1>3, <2>1, <2>2, QuietStep
<1>5. \A t \in Nat : Carries(p, t)' <=> Carries(p, t)
  BY <1>2, <1>3 DEF Moves, Carries, Renews, Is, At
<1>6. CopyInv(p)' /\ CallbackInv(p)'
  BY <1>2, <1>3 DEF Moves, CopyInv, CallbackInv, Held, At, Renews
<1>7. CarryInv(p)'
  BY <1>1, <1>2, <1>5 DEF ProcInv, CarryInv, Usable
<1>8. ProcInv(p)' /\ Fresh(p)
  BY <1>5, <1>6, <1>7 DEF ProcInv, Fresh
<1> QED
  BY <1>4, <1>8, ApartKeeps

\* Process p may put entry e into the file, and return t.
MayWrite(p, e, t) ==
  /\ Is(p, "query") => SignedIn(Current(p)) /\ e = Cleared /\ Current(p).refresh \in excused \cup {0}
  /\ Is(p, "logout") => e = Absent
  /\ Is(p, "login") => At(p, "locked") /\ t = proc[p].token /\ \E r \in {0, t} : e = SignedInAs(t, r)

\* The callback has prepared such an entry.
LEMMA PrepareKeeps ==
  ASSUME CredInv, NEW p \in Process, NEW e \in Entry, NEW t \in Nat,
         At(p, "locked") \/ At(p, "reread"), Prepare(p, file, e, t),
         UNCHANGED <<file, run, valid, issued, replaced, signedOut, excused, lock>>,
         MayWrite(p, e, t)
  PROVE  CredInv'
<1>1. CredTyped /\ ProcInv(p) /\ lock = p
  BY DEF CredInv, ProcInv, CopyInv, Held, At
<1>2. /\ Moves(p, "write")
      /\ proc'[p].copy = [file EXCEPT ![Of(p)] = e] /\ proc'[p].token = t
  <2>1. file \in [Server -> Entry]
    BY <1>1 DEF CredTyped
  <2> QED
    BY <1>1, <2>1, PrepareMoves
<1>3. CredTyped' /\ Apart(p)
  <2>1. ~Renews(p)
    BY DEF Renews, At
  <2> QED
    BY <1>1, <1>2, <2>1, QuietStep
<1>4. Of(p) \in Server /\ Of(p)' = Of(p)
  BY <1>1 DEF CredTyped, Of
<1>5. NewEntry(p)' = e /\ Current(p)' = Current(p)
  BY <1>1, <1>2, <1>4 DEF NewEntry, Current, CredTyped
<1>6. proc'[p].pc = "write"
  BY <1>2 DEF Moves
<1>7. CopyInv(p)'
  <2>1. proc'[p].copy \in [Server -> Entry]
    BY <1>1, <1>2 DEF CredTyped
  <2>2. \A s \in Server : s # Of(p) => proc'[p].copy[s] = file[s]
    BY <1>1, <1>2 DEF CredTyped
  <2> QED
    BY <1>1, <1>4, <1>6, <2>1, <2>2 DEF CopyInv, Held, At
<1>8. CallbackInv(p)'
  BY <1>2, <1>5, <1>6 DEF CallbackInv, At, Is, Renews, MayWrite
<1>9. \A u \in Nat : Carries(p, u)' => Carries(p, u)
  BY <1>2, <1>5, <1>6, EntryTypes DEF Carries, Is, Renews, At, MayWrite
<1>10. CarryInv(p)'
  BY <1>1, <1>9 DEF ProcInv, CarryInv, Usable
<1>11. ProcInv(p)' /\ Fresh(p)
  BY <1>7, <1>8, <1>9, <1>10 DEF ProcInv, Fresh
<1> QED
  BY <1>3, <1>11, ApartKeeps

LEMMA LockedKeeps ==
  ASSUME CredInv, NEW p \in Process, LockedQuery(p) \/ LockedLogin(p) \/ LockedLogout(p)
  PROVE  CredInv'
<1>1. CredTyped /\ ProcInv(p) /\ At(p, "locked")
  BY DEF CredInv, LockedQuery, LockedLogin, LockedLogout
<1>2. lock = p /\ proc[p].copy = file
  BY <1>1 DEF ProcInv, CopyInv, Held, At
<1>3. UNCHANGED <<file, run, valid, issued, replaced, signedOut, excused>>
  BY DEF LockedQuery, LockedLogin, LockedLogout, providerVars, ghosts
<1>4. ~At(p, "write") /\ ~Renews(p)
  BY <1>1 DEF At, Renews
<1>5. Current(p).id \in Nat /\ Current(p) = proc[p].copy[Of(p)]
  BY <1>1, <1>2 DEF CredTyped, Entry, Of, Current
<1>6. CASE \E t \in Nat : Unchanged(p, t)
  BY <1>3, <1>4, <1>6, UnchangedKeeps
<1>7. CASE LockedLogout(p)
  <2>1. Is(p, "logout")
    BY <1>7 DEF LockedLogout, Is
  <2>2. CASE Prepare(p, proc[p].copy, Absent, 0) /\ UNCHANGED lock
    BY <1>1, <1>2, <1>3, <2>1, <2>2, EntryTypes, PrepareKeeps DEF Is, MayWrite
  <2> QED
    BY <1>6, <1>7, <2>2 DEF LockedLogout
<1>8. CASE LockedLogin(p)
  <2>1. Is(p, "login") /\ UNCHANGED lock
    BY <1>8 DEF LockedLogin, Is
  <2>2. PICK r \in {0, proc[p].token} : Prepare(p, proc[p].copy, SignedInAs(proc[p].token, r), proc[p].token)
    BY <1>8 DEF LockedLogin
  <2>3. proc[p].token \in Nat
    BY <1>1 DEF CredTyped, State
  <2>4. SignedInAs(proc[p].token, r) \in Entry
    BY <2>3, EntryTypes, SMTT(30)
  <2> QED
    BY <1>1, <1>2, <1>3, <2>1, <2>2, <2>3, <2>4, PrepareKeeps DEF Is, MayWrite
<1>9. CASE LockedQuery(p)
  <2>1. Is(p, "query")
    BY <1>9 DEF LockedQuery, Is
  <2>2. CASE /\ SignedIn(Current(p)) /\ Current(p).refresh = 0
             /\ Prepare(p, proc[p].copy, Cleared, 0) /\ UNCHANGED lock
    BY <1>1, <1>2, <1>3, <2>1, <2>2, EntryTypes, PrepareKeeps DEF Is, MayWrite
  <2>3. CASE /\ SignedIn(Current(p)) /\ Current(p).refresh # 0
             /\ Goto(p, "redeem") /\ UNCHANGED lock
    <3>1. Moves(p, "redeem") /\ proc'[p].copy = proc[p].copy
      BY <1>1, <2>3, GotoMoves DEF Place
    <3>2. CredTyped' /\ Apart(p)
      BY <1>2, <1>3, <1>4, <2>3, <3>1, QuietStep
    <3>3. proc'[p].pc = "redeem"
      BY <3>1 DEF Moves
    <3>4. CopyInv(p)'
      BY <1>2, <1>3, <2>3, <3>1, <3>3 DEF CopyInv, Held, At
    <3>5. CallbackInv(p)'
      BY <1>3, <2>1, <2>3, <3>3 DEF CallbackInv, At, Is, Renews, Current, Of
    <3>6. \A t \in Nat : ~Carries(p, t)'
      BY <1>3, <3>3, <2>1 DEF Carries, At, Is, Renews
    <3>7. ProcInv(p)' /\ Fresh(p)
      BY <3>4, <3>5, <3>6 DEF ProcInv, CarryInv, Fresh
    <3> QED
      BY <3>2, <3>7, ApartKeeps
  <2> QED
    BY <1>5, <1>6, <1>9, <2>2, <2>3 DEF LockedQuery
<1> QED
  BY <1>7, <1>8, <1>9

\* What a process that redeems its refresh token knows, and what the provider does then.
LEMMA AtRedeem ==
  ASSUME CredInv, NEW p \in Process, At(p, "redeem")
  PROVE  /\ proc[p].copy = file /\ lock = p /\ Is(p, "query") /\ Held(p) /\ ~Renews(p) /\ ~At(p, "write")
         /\ Mine(p) = Current(p).refresh /\ Mine(p) \in Nat \ {0} /\ SignedIn(Current(p))
<1>1. CredTyped /\ ProcInv(p)
  BY DEF CredInv
<1>2. proc[p].copy = file /\ lock = p /\ Held(p) /\ ~Renews(p) /\ ~At(p, "write")
  BY <1>1 DEF ProcInv, CopyInv, Held, At, Renews
<1>3. Is(p, "query") /\ Current(p).refresh # 0 /\ SignedIn(Current(p))
  BY <1>1 DEF ProcInv, CallbackInv
<1>4. Current(p).refresh \in Nat
  BY <1>1 DEF CredTyped, Current, Of, Entry
<1> QED
  BY <1>2, <1>3, <1>4 DEF Mine, Current

LEMMA GrantEffect ==
  ASSUME CredInv, NEW p \in Process, At(p, "redeem"), NEW n \in 1..MaxIssued, NEW r \in 1..MaxIssued,
         Grant(p, n, r)
  PROVE  /\ n = issued + 1 /\ issued' = n /\ r \in {n, Mine(p)} /\ n \in Nat /\ r \in Nat \ {0}
         /\ valid' \subseteq Nat /\ r \in valid' /\ issued' \in Nat /\ issued' >= issued
         /\ \A t \in valid : t \in valid' \/ t = Mine(p)
<1>1. issued \in Nat /\ valid \subseteq Nat
  BY DEF CredInv, CredTyped
<1>2. MaxIssued \in Nat
  BY CredAssumption
<1>3. r \in Nat \ {0} /\ n \in Nat
  BY <1>2, SMTT(30)
<1>4. n = issued + 1 /\ issued' = n /\ r \in {n, Mine(p)} /\ valid' = (valid \ {Mine(p)}) \cup {r}
  BY DEF Grant
<1>5. valid' \subseteq Nat /\ r \in valid' /\ \A t \in valid : t \in valid' \/ t = Mine(p)
  BY <1>1, <1>3, <1>4
<1>6. issued' \in Nat /\ issued' >= issued
  BY <1>1, <1>4, SMTT(30)
<1> QED
  BY <1>3, <1>4, <1>5, <1>6

LEMMA RedeemedKeeps ==
  ASSUME CredInv, NEW p \in Process, Redeemed(p)
  PROVE  CredInv'
<1>1. CredTyped /\ ProcInv(p) /\ FileInv /\ At(p, "redeem")
  BY DEF CredInv, Redeemed
<1>2. PICK n, r \in 1..MaxIssued : Grant(p, n, r) /\ Prepare(p, proc[p].copy, SignedInAs(n, r), n)
  BY DEF Redeemed
<1>3. /\ n = issued + 1 /\ issued' = n /\ r \in {n, Mine(p)} /\ n \in Nat /\ r \in Nat \ {0}
      /\ valid' \subseteq Nat /\ r \in valid' /\ issued' \in Nat /\ issued' >= issued
      /\ \A t \in valid : t \in valid' \/ t = Mine(p)
  BY <1>1, <1>2, GrantEffect
<1>4. /\ proc[p].copy = file /\ lock = p /\ Is(p, "query") /\ Held(p) /\ ~Renews(p)
      /\ Mine(p) = Current(p).refresh /\ Mine(p) \in Nat \ {0} /\ SignedIn(Current(p))
  BY <1>1, AtRedeem
<1>5. UNCHANGED <<file, run, replaced, signedOut, excused, lock>>
  BY DEF Redeemed, ghosts
<1>6. SignedInAs(n, r) \in Entry /\ SignedInAs(n, r).refresh = r /\ SignedInAs(n, r) # Cleared
  BY <1>1, <1>3, EntryTypes, SMTT(30) DEF CredTyped
<1>7. /\ Moves(p, "write") /\ proc'[p].copy = [file EXCEPT ![Of(p)] = SignedInAs(n, r)]
  <2>1. Prepare(p, file, SignedInAs(n, r), n) /\ file \in [Server -> Entry]
    BY <1>1, <1>2, <1>4 DEF CredTyped
  <2> QED
    BY <1>1, <1>3, <1>6, <2>1, PrepareMoves
<1>8. Of(p) \in Server /\ Of(p)' = Of(p) /\ Current(p)' = Current(p) /\ proc'[p].pc = "write" /\ Renews(p)'
  BY <1>1, <1>4, <1>5, <1>7 DEF CredTyped, Of, Current, Moves, Renews, Is, At
<1>9. NewEntry(p)' = SignedInAs(n, r)
  BY <1>1, <1>7, <1>8 DEF NewEntry, CredTyped
<1>10. CredTyped'
  BY <1>1, <1>3, <1>5, <1>7 DEF CredTyped, Moves
<1>11. Apart(p)
  <2>1. \A t \in Nat : Usable(t) => Usable(t)' \/ (Held(p) /\ t = Current(p).refresh /\ Renews(p)')
    BY <1>3, <1>4, <1>5, <1>8 DEF Usable
  <2> QED
    BY <1>3, <1>4, <1>5, <1>7, <2>1 DEF Apart, Moves
<1>12. CopyInv(p)'
  <2>1. proc'[p].copy \in [Server -> Entry]
    BY <1>1, <1>6, <1>7 DEF CredTyped
  <2>2. \A s \in Server : s # Of(p) => proc'[p].copy[s] = file[s]
    BY <1>1, <1>7 DEF CredTyped
  <2> QED
    BY <1>4, <1>5, <1>8, <2>1, <2>2 DEF CopyInv, Held, At
<1>13. CallbackInv(p)'
  BY <1>3, <1>4, <1>5, <1>6, <1>8, <1>9 DEF CallbackInv, At, Is, Usable
<1>14. \A t \in Nat : Carries(p, t)' => t = n
  BY <1>3, <1>4, <1>5, <1>6, <1>8, <1>9 DEF Carries, Is
<1>15. CarryInv(p)'
  <2> SUFFICES ASSUME Carries(p, n)'
               PROVE  /\ n \in 1..issued' /\ Usable(n)' /\ n \notin replaced
                      /\ \A s \in Server : file[s].refresh # n
    BY <1>5, <1>14 DEF CarryInv
  <2>1. n \notin replaced /\ \A s \in Server : file[s].refresh # n
    BY <1>1, <1>3, SMTT(30) DEF FileInv, CredTyped
  <2>2. n = r
    BY <1>4, <1>6, <1>9, <1>5 DEF Carries, Is
  <2> QED
    BY <1>3, <2>1, <2>2, SMTT(30) DEF Usable
<1>16. ProcInv(p)' /\ Fresh(p)
  BY <1>1, <1>3, <1>12, <1>13, <1>14, <1>15, SMTT(30) DEF ProcInv, Fresh, CredTyped
<1> QED
  BY <1>10, <1>11, <1>16, ApartKeeps

LEMMA RefusalKeeps ==
  ASSUME CredInv, NEW p \in Process, Unreachable(p) \/ AnswerLost(p) \/ Refused(p) \/ Unusable(p)
  PROVE  CredInv'
<1>1. CredTyped /\ ProcInv(p) /\ FileInv /\ At(p, "redeem")
  BY DEF CredInv, Unreachable, AnswerLost, Refused, Unusable
<1>2. /\ proc[p].copy = file /\ lock = p /\ Is(p, "query") /\ Held(p) /\ ~Renews(p) /\ ~At(p, "write")
      /\ Mine(p) = Current(p).refresh /\ Mine(p) \in Nat \ {0} /\ SignedIn(Current(p))
  BY <1>1, AtRedeem
<1>3. UNCHANGED <<file, run, replaced, signedOut>>
  BY DEF Unreachable, AnswerLost, Refused, Unusable, ghosts
<1>4. CASE Unreachable(p)
  BY <1>2, <1>4, UnchangedKeeps DEF Unreachable, providerVars, ghosts
<1>5. ASSUME NEW l, Moves(p, l), AnswerLost(p) \/ Unusable(p), Unlock(p) \/ lock' = lock
      PROVE  CredTyped' /\ Apart(p)
  <2>1. PICK n, r \in 1..MaxIssued : Grant(p, n, r)
    BY <1>5 DEF AnswerLost, Unusable
  <2>2. /\ valid' \subseteq Nat /\ issued' \in Nat /\ issued' >= issued
        /\ \A t \in valid : t \in valid' \/ t = Mine(p)
    BY <1>1, <2>1, GrantEffect
  <2>3. excused' = excused \cup {Mine(p)}
    BY <1>5 DEF AnswerLost, Unusable
  <2>4. lock' \in Process \cup {Nobody} /\ \A q \in Process : q # p /\ lock = q => lock' = q
    BY <1>1, <1>5, UnlockApart DEF CredTyped
  <2>5. CredTyped'
    BY <1>1, <1>2, <1>3, <1>5, <2>2, <2>3, <2>4 DEF CredTyped, Moves
  <2>6. \A t \in Nat : Usable(t) => Usable(t)'
    BY <2>2, <2>3 DEF Usable
  <2> QED
    BY <1>2, <1>3, <1>5, <2>2, <2>3, <2>4, <2>5, <2>6 DEF Apart, Moves
<1>6. CASE AnswerLost(p)
  <2>1. Unlock(p) /\ Return(p, 0)
    BY <1>6 DEF AnswerLost, Unchanged
  <2>2. Moves(p, "done") /\ Idle(p)'
    BY <1>1, <2>1, ReturnMoves DEF Moves, Idle, After
  <2>3. CredTyped' /\ Apart(p)
    BY <1>5, <1>6, <2>1, <2>2
  <2> QED
    BY <2>2, <2>3, IdleKeeps
<1>7. CASE Refused(p) \/ Unusable(p)
  <2>1. Goto(p, "reread") /\ UNCHANGED lock
    BY <1>7 DEF Refused, Unusable
  <2>2. Moves(p, "reread") /\ proc'[p].copy = proc[p].copy
    BY <1>1, <2>1, GotoMoves DEF Place
  <2>3. proc'[p].pc = "reread"
    BY <2>2 DEF Moves
  <2>4. CredTyped' /\ Apart(p)
    <3>1. CASE Refused(p)
      BY <1>1, <1>2, <2>1, <2>2, <3>1, QuietStep DEF Refused, providerVars, ghosts, CredTyped
    <3>2. CASE Unusable(p)
      BY <1>5, <2>1, <2>2, <3>2
    <3> QED
      BY <1>7, <3>1, <3>2
  <2>5. Current(p)' = Current(p) /\ Current(p).refresh \in excused'
    <3>1. Current(p)' = Current(p)
      BY <1>3 DEF Current, Of
    <3>2. CASE Refused(p)
      <4>1. Usable(Mine(p))
        <5>1. \A q \in Process : ~(Renews(q) /\ Of(q) = Of(p))
          <6>1. \A q \in Process : Held(q) => lock = q
            BY DEF CredInv, ProcInv, CopyInv
          <6>2. \A q \in Process : Renews(q) => Held(q)
            BY DEF Renews, Held, At
          <6> QED
            BY <1>2, <6>1, <6>2
        <5>2. Of(p) \in Server
          BY <1>1 DEF CredTyped, Of
        <5> QED
          BY <1>1, <1>2, <5>1, <5>2 DEF FileInv, Current
      <4> QED
        <5>1. Mine(p) \notin valid /\ excused' = excused
          BY <3>2 DEF Refused, ghosts
        <5> QED
          BY <1>2, <3>1, <4>1, <5>1 DEF Usable
    <3>3. CASE Unusable(p)
      <4>1. excused' = excused \cup {Mine(p)}
        BY <3>3 DEF Unusable
      <4> QED
        BY <1>2, <3>1, <4>1
    <3> QED
      BY <1>7, <3>1, <3>2, <3>3
  <2>6. CopyInv(p)'
    BY <1>2, <1>3, <2>1, <2>2, <2>3 DEF CopyInv, Held, At
  <2>7. CallbackInv(p)'
    BY <1>2, <1>3, <2>3, <2>5 DEF CallbackInv, At, Is, Renews
  <2>8. \A t \in Nat : ~Carries(p, t)'
    BY <1>2, <1>3, <2>3 DEF Carries, At, Is, Renews
  <2>9. ProcInv(p)' /\ Fresh(p)
    BY <2>6, <2>7, <2>8 DEF ProcInv, CarryInv, Fresh
  <2> QED
    BY <2>4, <2>9, ApartKeeps
<1> QED
  BY <1>4, <1>6, <1>7

LEMMA RereadKeeps ==
  ASSUME CredInv, NEW p \in Process, Reread(p)
  PROVE  CredInv'
<1>1. CredTyped /\ ProcInv(p) /\ At(p, "reread")
  BY DEF CredInv, Reread
<1>2. /\ Is(p, "query") /\ SignedIn(Current(p)) /\ Current(p).refresh \in excused
  BY <1>1 DEF ProcInv, CallbackInv
<1>3. UNCHANGED <<file, run, valid, issued, replaced, signedOut, excused>>
  BY DEF Reread, providerVars, ghosts
<1>4. CASE Prepare(p, file, Cleared, 0) /\ UNCHANGED lock
  BY <1>1, <1>2, <1>3, <1>4, EntryTypes, PrepareKeeps DEF Is, MayWrite
<1>5. CASE Unchanged(p, file[Of(p)].id)
  <2>1. file[Of(p)].id \in Nat /\ ~At(p, "write")
    BY <1>1 DEF CredTyped, Of, Entry, At
  <2> QED
    BY <1>3, <1>5, <2>1, UnchangedKeeps
<1> QED
  BY <1>4, <1>5 DEF Reread

LEMMA GrantedKeeps ==
  ASSUME CredInv, NEW p \in Process, Granted(p)
  PROVE  CredInv'
<1>1. CredTyped /\ ProcInv(p) /\ FileInv /\ proc[p].pc = "browser"
  BY DEF CredInv, Granted, At
<1>2. UNCHANGED <<file, run, replaced, signedOut, excused, lock>> /\ ~Renews(p)
  BY <1>1 DEF Granted, ghosts, Renews, At
<1>3. CASE End(p, "done") /\ UNCHANGED <<issued, valid>>
  <2>1. Moves(p, "done") /\ Idle(p)'
    BY <1>1, <1>3, EndMoves DEF Place, Moves, Idle
  <2>2. CredTyped' /\ Apart(p)
    BY <1>1, <1>2, <1>3, <2>1, QuietStep DEF CredTyped
  <2> QED
    BY <2>1, <2>2, IdleKeeps
<1>4. CASE /\ issued' = issued + 1 /\ valid' = valid \cup {issued'}
           /\ proc' = [proc EXCEPT ![p].token = issued', ![p].pc = "lock"]
  <2>1. PICK n \in Nat : issued' = n /\ n > issued
    BY <1>1, <1>4, SMTT(30) DEF CredTyped
  <2>2. proc' = [proc EXCEPT ![p].token = n, ![p].pc = "lock"] /\ valid' = valid \cup {n}
    BY <1>4, <2>1
  <2>3. Moves(p, "lock") /\ proc'[p].token = n /\ proc'[p].pc = "lock"
    BY <1>1, <2>2, SMTT(30) DEF Moves, CredTyped, State, Place
  <2>4. CredTyped'
    BY <1>1, <1>2, <2>1, <2>2, <2>3 DEF CredTyped, Moves
  <2>5. \A t \in Nat : Usable(t) => Usable(t)'
    BY <1>2, <2>2 DEF Usable
  <2>6. Apart(p)
    BY <1>1, <1>2, <2>1, <2>3, <2>5, SMTT(30) DEF Apart, Moves, CredTyped
  <2>7. CopyInv(p)' /\ CallbackInv(p)'
    BY <2>3 DEF CopyInv, CallbackInv, Held, At, Renews
  <2>8. \A t \in Nat : Carries(p, t)' => t = n
    BY <2>3 DEF Carries, At, Renews
  <2>9. n \notin replaced /\ \A s \in Server : file[s].refresh # n
    BY <1>1, <2>1, SMTT(30) DEF FileInv, CredTyped
  <2>10. Usable(n)' /\ n \in 1..n
    BY <1>1, <2>1, <2>2, SMTT(30) DEF Usable, CredTyped
  <2>11. CarryInv(p)'
    BY <1>2, <2>1, <2>8, <2>9, <2>10 DEF CarryInv
  <2>12. ProcInv(p)' /\ Fresh(p)
    BY <2>1, <2>7, <2>8, <2>11 DEF ProcInv, Fresh
  <2> QED
    BY <2>4, <2>6, <2>12, ApartKeeps
<1> QED
  BY <1>3, <1>4 DEF Granted

\* Time, and a restart of the provider.
LEMMA EnvironmentKeeps ==
  ASSUME CredInv, UNCHANGED <<file, lock, run, proc, issued, replaced, signedOut>>,
         valid' \subseteq Nat, excused' \subseteq Nat, excused \subseteq excused',
         \A t \in Nat : Usable(t) => Usable(t)'
  PROVE  CredInv'
<1>1. CredTyped /\ FileInv /\ CarriedOnce
  BY DEF CredInv
<1>2. CredTyped'
  BY <1>1 DEF CredTyped
<1>3. \A p \in Process : \A t : Carries(p, t)' <=> Carries(p, t)
  BY SMTT(30) DEF Carries, Is, Renews, At, NewEntry, Current, Of
<1>4. CarriedOnce'
  BY <1>1, <1>3 DEF CarriedOnce
<1>5. \A p \in Process : (Renews(p)' <=> Renews(p)) /\ Of(p)' = Of(p)
  BY DEF Renews, Is, At, Of
<1>6. FileInv'
  <2>1. \A s \in Server : file[s].refresh \in Nat
    BY <1>1 DEF CredTyped, Entry
  <2>2. \A s \in Server : file[s].refresh # 0 =>
          Usable(file[s].refresh)' \/ \E p \in Process : Renews(p)' /\ Of(p)' = s
    BY <1>1, <1>5, <2>1 DEF FileInv
  <2> QED
    BY <1>1, <2>2 DEF FileInv
<1>7. ASSUME NEW p \in Process PROVE ProcInv(p)'
  <2>1. ProcInv(p)
    BY DEF CredInv
  <2>2. CopyInv(p)'
    BY <2>1 DEF ProcInv, CopyInv, Held, At, Of
  <2>3. CarryInv(p)'
    BY <1>3, <2>1 DEF ProcInv, CarryInv
  <2>4. CallbackInv(p)'
    <3>1. Renews(p) => NewEntry(p).refresh \in Nat
      <4>1. Renews(p) => proc[p].copy \in [Server -> Entry] /\ Of(p) \in Server
        BY <1>1, <2>1 DEF Renews, ProcInv, CopyInv, CredTyped, Of
      <4> QED
        BY <4>1 DEF NewEntry, Entry
    <3>2. NewEntry(p)' = NewEntry(p) /\ Current(p)' = Current(p)
      BY DEF NewEntry, Current, Of
    <3>3. Renews(p) /\ Usable(NewEntry(p).refresh) => Usable(NewEntry(p).refresh)'
      BY <3>1, <3>2
    <3> QED
      BY <1>5, <2>1, <3>2, <3>3 DEF ProcInv, CallbackInv, Is, At
  <2> QED
    BY <2>2, <2>3, <2>4 DEF ProcInv
<1> QED
  BY <1>2, <1>4, <1>6, <1>7 DEF CredInv

-----------------------------------------------------------------------------
(* Write.                                                                  *)

\* What process p writes: the token it carries, the one that is there, or none.
LEMMA Written ==
  ASSUME CredInv, NEW p \in Process, At(p, "write")
  PROVE  /\ lock = p /\ Of(p) \in Server
         /\ proc[p].copy = [file EXCEPT ![Of(p)] = NewEntry(p)] /\ NewEntry(p) \in Entry
         /\ \/ NewEntry(p).refresh = 0
            \/ /\ Usable(NewEntry(p).refresh)
               /\ Carries(p, NewEntry(p).refresh) \/ NewEntry(p).refresh = Current(p).refresh
<1>1. CredTyped /\ ProcInv(p)
  BY DEF CredInv
<1>2. lock = p /\ Of(p) \in Server
  BY <1>1 DEF ProcInv, CopyInv, Held, At, CredTyped, Of
<1>3. /\ proc[p].copy \in [Server -> Entry]
      /\ \A s \in Server : s # Of(p) => proc[p].copy[s] = file[s]
  BY <1>1 DEF ProcInv, CopyInv
<1>4. proc[p].copy = [file EXCEPT ![Of(p)] = NewEntry(p)] /\ NewEntry(p) \in Entry
  BY <1>1, <1>2, <1>3 DEF CredTyped, NewEntry
<1>5. NewEntry(p).refresh \in Nat
  BY <1>4 DEF Entry
<1>6. CASE Is(p, "query")
  <2>1. Renews(p)
    BY <1>6 DEF Renews
  <2>2. CASE NewEntry(p) = Cleared
    BY <1>2, <1>4, <2>2, EntryTypes
  <2>3. CASE NewEntry(p) # Cleared
    <3>1. NewEntry(p).refresh # 0 /\ Usable(NewEntry(p).refresh)
      BY <1>1, <2>1, <2>3 DEF ProcInv, CallbackInv
    <3>2. NewEntry(p).refresh # Current(p).refresh => Carries(p, NewEntry(p).refresh)
      BY <2>1, <3>1 DEF Carries
    <3> QED
      BY <1>2, <1>4, <3>1, <3>2
  <2> QED
    BY <2>2, <2>3
<1>7. CASE Is(p, "login")
  <2>1. PICK r \in {0, proc[p].token} : NewEntry(p) = SignedInAs(proc[p].token, r)
    BY <1>1, <1>7 DEF ProcInv, CallbackInv
  <2>2. proc[p].token \in Nat
    BY <1>1 DEF CredTyped, State
  <2>3. Carries(p, proc[p].token)
    BY <1>7 DEF Carries, At
  <2>4. Usable(proc[p].token)
    BY <1>1, <2>2, <2>3 DEF ProcInv, CarryInv
  <2>5. NewEntry(p).refresh = r
    BY <2>1, <2>2, EntryTypes, SMTT(30)
  <2> QED
    BY <1>2, <1>4, <2>3, <2>4, <2>5
<1>8. CASE Is(p, "logout")
  <2>1. NewEntry(p) = Absent
    BY <1>1, <1>8 DEF ProcInv, CallbackInv
  <2> QED
    BY <1>2, <1>4, <2>1, EntryTypes
<1> QED
  BY <1>1, <1>6, <1>7, <1>8 DEF CredTyped, Command, Is

LEMMA WriteKeeps ==
  ASSUME CredInv, NEW p \in Process, Write(p)
  PROVE  CredInv'
<1>1. CredTyped /\ FileInv /\ CarriedOnce /\ ProcInv(p) /\ At(p, "write")
  BY DEF CredInv, Write
<1> DEFINE e == NewEntry(p)
           o == Current(p)
<1>2. /\ lock = p /\ Of(p) \in Server
      /\ proc[p].copy = [file EXCEPT ![Of(p)] = e] /\ e \in Entry
      /\ \/ e.refresh = 0
         \/ Usable(e.refresh) /\ (Carries(p, e.refresh) \/ e.refresh = o.refresh)
  BY <1>1, Written
<1>3. /\ UNCHANGED <<run, valid, issued, excused>> /\ file' = [file EXCEPT ![Of(p)] = e]
      /\ Unlock(p) /\ Return(p, proc[p].token)
  BY <1>2 DEF Write, providerVars
<1>4. /\ replaced' \in {replaced, replaced \cup {o.refresh}}
      /\ e.refresh = o.refresh => replaced' = replaced
  BY DEF Write, NewEntry, Current
<1>5. /\ signedOut' \subseteq signedOut \cup {Of(p)}
      /\ Of(p) \in signedOut' => Is(p, "logout") \/ (Is(p, "query") /\ Of(p) \in signedOut)
  BY <1>1 DEF Write, CredTyped, Command, Is
<1>6. e.refresh \in Nat /\ o.refresh \in Nat /\ o = file[Of(p)] /\ o \in Entry
  BY <1>1, <1>2 DEF CredTyped, Current, Entry
<1> HIDE DEF e, o
<1>7. Moves(p, After(p, proc[p].token)) /\ Idle(p)'
  <2>1. proc[p].token \in Nat
    BY <1>1 DEF CredTyped, State
  <2> QED
    BY <1>1, <1>3, <2>1, ReturnMoves DEF Moves, Idle, After, Is
<1>8. CredTyped'
  <2>1. file' \in [Server -> Entry]
    BY <1>1, <1>2, <1>3 DEF CredTyped
  <2>2. lock' \in Process \cup {Nobody}
    BY <1>1, <1>3, UnlockApart
  <2>3. replaced' \subseteq Nat
    BY <1>1, <1>4, <1>6 DEF CredTyped
  <2> QED
    BY <1>1, <1>3, <1>7, <2>1, <2>2, <2>3 DEF CredTyped, Moves
<1>9. \A q \in Process : q # p => ~Held(q) /\ ~Renews(q) /\ proc'[q] = proc[q]
  <2>1. \A q \in Process : Held(q) => lock = q
    BY DEF CredInv, ProcInv, CopyInv
  <2>2. \A q \in Process : Renews(q) => Held(q)
    BY DEF Renews, Held, At
  <2> QED
    BY <1>2, <1>7, <2>1, <2>2 DEF Moves
<1>10. \A s \in Server : file'[s] = IF s = Of(p) THEN e ELSE file[s]
  BY <1>1, <1>2, <1>3 DEF CredTyped
<1>11. \A t \in Nat : Usable(t)' <=> Usable(t)
  BY <1>3 DEF Usable
<1>13. e.refresh # 0 =>
        /\ Usable(e.refresh) /\ e.refresh \notin replaced' /\ e.refresh <= issued
        /\ \A s \in Server : s # Of(p) => file[s].refresh # e.refresh
  <2>1. CASE Carries(p, e.refresh) /\ Usable(e.refresh)
    <3>1. /\ e.refresh \in 1..issued /\ e.refresh \notin replaced
          /\ \A s \in Server : file[s].refresh # e.refresh
      BY <1>1, <1>6, <2>1 DEF ProcInv, CarryInv
    <3>2. e.refresh # o.refresh
      BY <1>2, <1>6, <3>1
    <3> QED
      BY <1>1, <1>4, <2>1, <3>1, <3>2, SMTT(30) DEF CredTyped
  <2>2. CASE e.refresh = o.refresh /\ Usable(e.refresh)
    <3>1. e.refresh # 0 => e.refresh \notin replaced /\ e.refresh <= issued
      BY <1>1, <1>2, <1>6, <2>2 DEF FileInv
    <3>2. e.refresh # 0 => \A s \in Server : s # Of(p) => file[s].refresh # e.refresh
      BY <1>1, <1>2, <1>6, <2>2 DEF FileInv
    <3> QED
      BY <1>4, <2>2, <3>1, <3>2
  <2> QED
    BY <1>2, <2>1, <2>2
<1>14. FileInv'
  <2>1. \A t \in replaced' : t <= issued
    BY <1>1, <1>2, <1>4, <1>6, SMTT(30) DEF FileInv
  <2>2. \A s \in Server : file'[s].refresh <= issued
    <3>1. e.refresh <= issued
      BY <1>1, <1>13, SMTT(30) DEF CredTyped
    <3> QED
      BY <1>1, <1>10, <3>1 DEF FileInv
  <2>3. \A s, u \in Server : file'[s].refresh = file'[u].refresh /\ file'[s].refresh # 0 => s = u
    BY <1>1, <1>10, <1>13, SMTT(30) DEF FileInv
  <2>4. ASSUME NEW s \in Server, file'[s].refresh # 0
        PROVE  file'[s].refresh \notin replaced'
    <3>1. CASE s = Of(p)
      BY <1>10, <1>13, <2>4, <3>1
    <3>2. CASE s # Of(p)
      <4>1. file'[s] = file[s] /\ file[s].refresh \notin replaced
        BY <1>1, <1>10, <2>4, <3>2 DEF FileInv
      <4>2. file[s].refresh # o.refresh
        BY <1>1, <1>2, <1>6, <2>4, <3>2, <4>1 DEF FileInv
      <4> QED
        BY <1>4, <4>1, <4>2, SMTT(30)
    <3> QED
      BY <3>1, <3>2
  <2>5. ASSUME NEW s \in Server, file'[s].refresh # 0
        PROVE  file'[s].refresh \in valid \/ file'[s].refresh \in excused
    <3>1. CASE s = Of(p)
      BY <1>10, <1>13, <2>5, <3>1 DEF Usable
    <3>2. CASE s # Of(p)
      <4>1. file'[s] = file[s] /\ file[s].refresh # 0
        BY <1>10, <2>5, <3>2
      <4>2. Usable(file[s].refresh)
        BY <1>1, <1>9, <3>2, <4>1 DEF FileInv
      <4> QED
        BY <4>1, <4>2 DEF Usable
    <3> QED
      BY <3>1, <3>2
  <2>6. ASSUME NEW s \in signedOut'
        PROVE  file'[s] = Absent
    <3>1. CASE s # Of(p)
      BY <1>1, <1>3, <1>5, <2>6, <3>1, SMTT(30) DEF FileInv, CredTyped
    <3>2. CASE s = Of(p)
      <4>1. Is(p, "query") => SignedIn(o)
        BY <1>1 DEF ProcInv, CallbackInv, Renews, o
      <4>2. Is(p, "logout") => e = Absent
        BY <1>1 DEF ProcInv, CallbackInv, e
      <4>3. Of(p) \in signedOut => ~SignedIn(o)
        BY <1>1, <1>6, EntryTypes DEF FileInv
      <4> QED
        BY <1>2, <1>5, <1>10, <2>6, <3>2, <4>1, <4>2, <4>3
    <3> QED
      BY <3>1, <3>2
  <2> QED
    BY <1>3, <2>1, <2>2, <2>3, <2>4, <2>5, <2>6 DEF FileInv, Usable
<1>15. \A t \in Nat : ~Carries(p, t)'
  BY <1>7 DEF Idle, Carries, Renews, Is, At
<1>16. ProcInv(p)'
  <2>1. CopyInv(p)'
    BY <1>7 DEF Idle, CopyInv, Held, At
  <2>2. CallbackInv(p)'
    BY <1>7 DEF Idle, CallbackInv, Renews, Is, At
  <2> QED
    BY <1>15, <2>1, <2>2 DEF ProcInv, CarryInv
<1>17. ASSUME NEW q \in Process, q # p, NEW t \in Nat
       PROVE  Carries(q, t)' <=> Carries(q, t)
  <2>1. ~Renews(q) /\ ~Renews(q)' /\ proc'[q] = proc[q] /\ run' = run
    BY <1>3, <1>9, <1>17 DEF Renews, Is, At
  <2> QED
    BY <2>1 DEF Carries, Is
<1>18. ASSUME NEW q \in Process, q # p
       PROVE  ProcInv(q)'
  <2>1. ProcInv(q) /\ ~Held(q) /\ proc'[q] = proc[q] /\ run' = run
    BY <1>3, <1>9, <1>18 DEF CredInv
  <2>2. CopyInv(q)'
    BY <2>1 DEF CopyInv, Held, At
  <2>3. CallbackInv(q)'
    BY <2>1 DEF ProcInv, CallbackInv, Held, At, Is, Renews
  <2>4. ASSUME NEW t \in Nat, Carries(q, t)
        PROVE  /\ t \in 1..issued /\ Usable(t) /\ t \notin replaced'
               /\ \A s \in Server : file'[s].refresh # t
    <3>1. /\ t \in 1..issued /\ Usable(t) /\ t \notin replaced
          /\ \A s \in Server : file[s].refresh # t
      BY <2>1, <2>4 DEF ProcInv, CarryInv
    <3>2. t # o.refresh
      BY <1>2, <1>6, <3>1
    <3>3. t # 0 /\ t # e.refresh
      <4>1. t # 0
        BY <3>1, SMTT(30)
      <4>2. ~Carries(p, t)
        BY <1>1, <1>18, <2>4 DEF CarriedOnce
      <4> QED
        BY <1>2, <3>2, <4>1, <4>2
    <3> QED
      BY <1>4, <1>10, <3>1, <3>2, <3>3
  <2>5. CarryInv(q)'
    BY <1>3, <1>11, <1>17, <1>18, <2>4 DEF CarryInv
  <2> QED
    BY <2>2, <2>3, <2>5 DEF ProcInv
<1>19. CarriedOnce'
  BY <1>1, <1>15, <1>17 DEF CarriedOnce
<1> QED
  BY <1>8, <1>14, <1>16, <1>18, <1>19 DEF CredInv

-----------------------------------------------------------------------------
(* The invariant, and the theorems.                                        *)

LEMMA StepsKeep ==
  ASSUME CredInv, NEW p \in Process, Steps(p)
  PROVE  CredInv'
BY RequestKeeps, FaultKeeps, AcquireKeeps, LockedKeeps, RedeemedKeeps, RefusalKeeps, RereadKeeps,
   GrantedKeeps, WriteKeeps DEF Steps

LEMMA CredInvKept == CredInv /\ [CredNext]_credVars => CredInv'
<1> SUFFICES ASSUME CredInv, [CredNext]_credVars
             PROVE  CredInv'
  OBVIOUS
<1>1. CredTyped
  BY DEF CredInv
<1>2. CASE \E p \in Process : Steps(p)
  BY <1>2, StepsKeep
<1>3. CASE Age \/ UNCHANGED credVars
  <2>1. UNCHANGED <<file, lock, run, proc, issued, replaced, signedOut, valid, excused>>
    BY <1>3 DEF Age, credVars, providerVars, ghosts
  <2>2. \A t \in Nat : Usable(t) => Usable(t)'
    BY <2>1 DEF Usable
  <2> QED
    BY <1>1, <2>1, <2>2, EnvironmentKeeps DEF CredTyped
<1>4. CASE Restart
  <2>1. /\ UNCHANGED <<file, lock, run, proc, issued, replaced, signedOut>>
        /\ valid' = {} /\ excused' = excused \cup valid
    BY <1>4 DEF Restart
  <2>2. \A t \in Nat : Usable(t) => Usable(t)'
    BY <2>1 DEF Usable
  <2> QED
    BY <1>1, <2>1, <2>2, EnvironmentKeeps DEF CredTyped
<1> QED
  BY <1>2, <1>3, <1>4 DEF CredNext

LEMMA CredInvInitially == CredInit => CredInv
<1> SUFFICES ASSUME CredInit
             PROVE  CredInv
  OBVIOUS
<1>1. Server = 1..issued /\ issued \in Nat
  <2>1. issued = Cardinality(Server)
    BY DEF CredInit
  <2> QED
    BY <2>1, CredAssumption, SMTT(30)
<1>2. run \in [Process -> [command : Command, server : Server]]
  BY CredAssumption DEF CredInit
<1>3. \A s \in Server : s \in Nat \ {0} /\ file[s] = SignedInAs(s, s) /\ file[s].refresh = s
  <2>1. \A s \in Server : s \in Nat \ {0}
    BY <1>1, SMTT(30)
  <2>2. \A s \in Server : file[s] = SignedInAs(s, s)
    BY DEF CredInit
  <2> QED
    BY <2>1, <2>2, EntryTypes
<1>4. \A p \in Process : /\ proc[p] \in State
                         /\ proc[p].pc \in {"load", "browser", "lock"}
                         /\ proc[p].pc = "load" => Is(p, "query")
                         /\ proc[p].pc = "lock" => Is(p, "logout")
  BY <1>2, SMTT(30) DEF CredInit, New, First, Command, State, Place, Is
<1>5. CredTyped
  <2>1. file \in [Server -> Entry]
    BY <1>3, EntryTypes DEF CredInit
  <2>2. proc \in [Process -> State]
    BY <1>4 DEF CredInit
  <2> QED
    BY <1>1, <1>2, <1>3, <2>1, <2>2 DEF CredTyped, CredInit
<1>6. FileInv
  <2>1. replaced = {} /\ signedOut = {} /\ valid = Server
    BY DEF CredInit
  <2>2. \A s \in Server : s <= issued
    BY <1>1, SMTT(30)
  <2> QED
    BY <1>3, <2>1, <2>2 DEF FileInv, Usable
<1>7. \A p \in Process, t \in Nat : ~Carries(p, t)
  BY <1>4 DEF Carries, Is, Renews, At
<1>8. \A p \in Process : ProcInv(p)
  <2> SUFFICES ASSUME NEW p \in Process
               PROVE  CopyInv(p) /\ CallbackInv(p)
    BY <1>7 DEF ProcInv, CarryInv
  <2> QED
    BY <1>4 DEF CopyInv, CallbackInv, Held, At, Renews
<1> QED
  BY <1>5, <1>6, <1>7, <1>8 DEF CredInv, CarriedOnce

LEMMA CredInvariance == CredSpec => []CredInv
BY CredInvInitially, CredInvKept, PTL DEF CredSpec

LEMMA OnlyWriteWrites ==
  ASSUME CredNext, file' # file
  PROVE  \E p \in Process : Write(p)
<1>1. CASE Age \/ Restart
  BY <1>1 DEF Age, Restart
<1>2. CASE \E p \in Process : Steps(p)
  <2>1. PICK p \in Process : Steps(p)
    BY <1>2
  <2>2. ~(Load(p) \/ Accepted(p) \/ Unauthorized(p) \/ Acquire(p) \/ GiveUp(p))
    BY DEF Load, Accepted, Unauthorized, Acquire, GiveUp
  <2>3. ~(FileFails(p) \/ Crash(p) \/ LockedQuery(p) \/ LockedLogin(p) \/ LockedLogout(p) \/ Granted(p))
    BY DEF FileFails, Crash, LockedQuery, LockedLogin, LockedLogout, Granted
  <2>4. ~(Redeemed(p) \/ Unreachable(p) \/ AnswerLost(p) \/ Refused(p) \/ Unusable(p) \/ Reread(p))
    BY DEF Redeemed, Unreachable, AnswerLost, Refused, Unusable, Reread
  <2> QED
    BY <2>1, <2>2, <2>3, <2>4 DEF Steps
<1> QED
  BY <1>1, <1>2 DEF CredNext

\* Whoever changes the file under Update starts from what the others wrote: only the entry
\* of the writer's own server changes, a refresh in flight does not undo a logout, and a
\* replaced refresh token is not redeemed again.
THEOREM UpdatesNotLost == CredSpec => NoLostUpdate
<1>1. CredInv /\ [CredNext]_credVars =>
        [\A s \in Server : file'[s] # file[s] =>
           \E p \in Process : At(p, "write") /\ proc'[p].pc # "write" /\ Of(p) = s]_credVars
  <2> SUFFICES ASSUME CredInv, CredNext, NEW s \in Server, file'[s] # file[s]
               PROVE  \E p \in Process : At(p, "write") /\ proc'[p].pc # "write" /\ Of(p) = s
    OBVIOUS
  <2>1. PICK p \in Process : Write(p)
    BY OnlyWriteWrites
  <2>2. At(p, "write") /\ file' = proc[p].copy /\ Return(p, proc[p].token)
    BY <2>1 DEF Write
  <2>3. Of(p) = s
    BY <2>2 DEF CredInv, ProcInv, CopyInv
  <2>4. CredTyped /\ proc[p].token \in Nat
    BY DEF CredInv, CredTyped, State
  <2>5. proc'[p].pc = After(p, proc[p].token)
    BY <2>2, <2>4, ReturnMoves DEF Moves
  <2> QED
    BY <2>2, <2>3, <2>5 DEF After
<1>2. CredInv => \A s \in signedOut : file[s] = Absent
  BY DEF CredInv, FileInv
<1>3. CredInv => \A p \in Process : At(p, "redeem") => Mine(p) \notin replaced
  <2> SUFFICES ASSUME CredInv, NEW p \in Process, At(p, "redeem")
               PROVE  Mine(p) \notin replaced
    OBVIOUS
  <2>1. Mine(p) = file[Of(p)].refresh /\ Mine(p) # 0
    BY AtRedeem DEF Current
  <2>2. Of(p) \in Server /\ FileInv
    BY DEF CredInv, CredTyped, Of
  <2> QED
    BY <2>1, <2>2 DEF FileInv
<1> QED
  BY <1>1, <1>2, <1>3, CredInvariance, PTL DEF CredSpec, NoLostUpdate

\* Source.get clears an entry only when its refresh token is none, or a fault has made it
\* useless: a token that another process has rotated is never taken for a refused one.
THEOREM NoSignOutByRotation == CredSpec => RotationNeverSignsOut
<1>1. CredInv /\ [CredNext]_credVars =>
        [\A s \in Server : SignedIn(file[s]) /\ file'[s] = Cleared =>
           file[s].refresh \in excused \cup {0}]_credVars
  <2> SUFFICES ASSUME CredInv, CredNext, NEW s \in Server, SignedIn(file[s]), file'[s] = Cleared
               PROVE  file[s].refresh \in excused \cup {0}
    OBVIOUS
  <2>1. file'[s] # file[s]
    BY EntryTypes
  <2>2. PICK p \in Process : Write(p)
    BY <2>1, OnlyWriteWrites
  <2>3. At(p, "write") /\ file' = proc[p].copy
    BY <2>2 DEF Write
  <2>4. CredTyped /\ ProcInv(p)
    BY DEF CredInv
  <2>5. Of(p) = s /\ NewEntry(p) = Cleared
    BY <2>1, <2>3, <2>4 DEF ProcInv, CopyInv, NewEntry
  <2>6. Is(p, "query")
    <3>1. ~Is(p, "logout")
      BY <2>3, <2>4, <2>5, EntryTypes DEF ProcInv, CallbackInv
    <3>2. ~Is(p, "login")
      <4> SUFFICES ASSUME Is(p, "login") PROVE FALSE
        OBVIOUS
      <4>1. PICK r \in {0, proc[p].token} : NewEntry(p) = SignedInAs(proc[p].token, r)
        BY <2>3, <2>4 DEF ProcInv, CallbackInv
      <4>2. proc[p].token \in Nat
        BY <2>4 DEF CredTyped, State
      <4>3. Carries(p, proc[p].token)
        BY <2>3 DEF Carries, At
      <4>4. proc[p].token # 0
        BY <2>4, <4>2, <4>3, SMTT(30) DEF ProcInv, CarryInv
      <4> QED
        BY <2>5, <4>1, <4>2, <4>4, EntryTypes, SMTT(30)
    <3> QED
      BY <2>4, <3>1, <3>2 DEF CredTyped, Command, Is
  <2> QED
    BY <2>3, <2>4, <2>5, <2>6 DEF ProcInv, CallbackInv, Renews, Current
<1> QED
  BY <1>1, CredInvariance, PTL DEF CredSpec, RotationNeverSignsOut

-----------------------------------------------------------------------------
(* All tokens were issued.                                                 *)

Given == 0..issued

TokenInv ==
  /\ issued \in 1..MaxIssued /\ valid \subseteq 1..issued
  /\ \A s \in Server : file[s].id \in Given
  /\ \A p \in Process : /\ proc[p].token \in Given
                        /\ At(p, "write") => NewEntry(p).id \in Given

\* A step of p that leaves the file alone.
LEMMA TokenStep ==
  ASSUME CredTyped, TokenInv, NEW p \in Process, NEW l, Moves(p, l), UNCHANGED <<file, run>>,
         issued' \in 1..MaxIssued, valid' \subseteq 1..issued', Given \subseteq Given',
         proc'[p].token \in Given', l = "write" => proc'[p].copy[Of(p)].id \in Given'
  PROVE  TokenInv'
<1>1. \A s \in Server : file'[s].id \in Given'
  BY DEF TokenInv
<1>2. ASSUME NEW q \in Process
      PROVE  proc'[q].token \in Given' /\ (At(q, "write")' => NewEntry(q)'.id \in Given')
  <2>1. CASE q = p
    BY <2>1 DEF Moves, At, NewEntry, Of
  <2>2. CASE q # p
    BY <2>2 DEF Moves, TokenInv, At, NewEntry, Of
  <2> QED
    BY <2>1, <2>2
<1> QED
  BY <1>1, <1>2 DEF TokenInv

LEMMA QuietTokens ==
  ASSUME CredTyped, TokenInv, NEW p \in Process, NEW l, Moves(p, l),
         UNCHANGED <<file, run, issued, valid>>,
         proc'[p].token \in Given, l = "write" => proc'[p].copy[Of(p)].id \in Given
  PROVE  TokenInv'
<1>1. Given' = Given
  BY DEF Given
<1> QED
  BY <1>1, TokenStep DEF TokenInv

LEMMA NoneGiven ==
  ASSUME TokenInv
  PROVE  0 \in Given
BY CredAssumption, SMTT(30) DEF TokenInv, Given

LEMMA EndToken ==
  ASSUME CredTyped, NEW p \in Process, NEW l \in Place, End(p, l)
  PROVE  Moves(p, l) /\ proc'[p].token = 0
<1>1. New(l).token = 0
  BY DEF New
<1> QED
  BY <1>1, EndMoves DEF End, CredTyped

LEMMA ReturnToken ==
  ASSUME CredTyped, NEW p \in Process, NEW t \in Nat, Return(p, t)
  PROVE  /\ Moves(p, After(p, t)) /\ After(p, t) # "write"
         /\ proc'[p].token \in {0, t}
<1>1. Moves(p, After(p, t)) /\ After(p, t) # "write"
  BY ReturnMoves DEF After
<1>2. CASE After(p, t) = "done"
  BY <1>1, <1>2, EndToken DEF Return, Place
<1>3. CASE After(p, t) # "done"
  <2> DEFINE v == [New(After(p, t)) EXCEPT !.token = t, !.rejected = proc[p].rejected]
  <2>1. proc' = [proc EXCEPT ![p] = v]
    BY <1>3 DEF Return
  <2>2. v.token = t
    BY DEF New
  <2> HIDE DEF v
  <2> QED
    BY <1>1, <2>1, <2>2 DEF CredTyped
<1> QED
  BY <1>2, <1>3

\* The callback leaves the file alone.
LEMMA UnchangedTokens ==
  ASSUME CredTyped, TokenInv, NEW p \in Process, NEW t \in Nat, t \in Given, Return(p, t),
         UNCHANGED <<file, run, issued, valid>>
  PROVE  TokenInv'
<1>1. /\ Moves(p, After(p, t)) /\ After(p, t) # "write" /\ proc'[p].token \in {0, t} /\ 0 \in Given
  BY ReturnToken, NoneGiven
<1> QED
  BY <1>1, QuietTokens

\* It writes an entry e.
LEMMA PreparedTokens ==
  ASSUME CredTyped, TokenInv, NEW p \in Process, NEW f \in [Server -> Entry], NEW e \in Entry,
         NEW t \in Nat, Prepare(p, f, e, t), e.id \in Given, t \in Given,
         UNCHANGED <<file, run, issued, valid>>
  PROVE  TokenInv'
<1>1. /\ Moves(p, "write") /\ proc'[p].copy = [f EXCEPT ![Of(p)] = e] /\ proc'[p].token = t
  BY PrepareMoves
<1>2. Of(p) \in Server
  BY DEF CredTyped, Of
<1>3. proc'[p].copy[Of(p)] = e
  BY <1>1, <1>2
<1> QED
  BY <1>1, <1>3, QuietTokens

\* What the provider gives is the next token.
LEMMA GrantTokens ==
  ASSUME CredInv, TokenInv, NEW p \in Process, At(p, "redeem"), NEW n \in 1..MaxIssued,
         NEW r \in 1..MaxIssued, Grant(p, n, r)
  PROVE  /\ issued' \in 1..MaxIssued /\ valid' \subseteq 1..issued' /\ Given \subseteq Given'
         /\ n \in Given' /\ 0 \in Given' /\ issued' = n
<1>1. /\ n = issued + 1 /\ issued' = n /\ r \in {n, Mine(p)} /\ valid' = (valid \ {Mine(p)}) \cup {r}
      /\ Mine(p) \in valid
  BY DEF Grant
<1>2. issued \in 1..MaxIssued /\ MaxIssued \in Nat /\ valid \subseteq 1..issued
  BY CredAssumption DEF TokenInv
<1>3. 1..issued \subseteq 1..issued' /\ n \in 1..issued' /\ 0..issued \subseteq 0..issued' /\ n \in 0..issued'
      /\ 0 \in 0..issued'
  BY <1>1, <1>2, SMTT(30)
<1> QED
  BY <1>1, <1>2, <1>3 DEF Given

\* The tokens a process sees in the file, or in its copy under the lock.
LEMMA SeenTokens ==
  ASSUME CredInv, TokenInv, NEW p \in Process
  PROVE  /\ CredTyped /\ Of(p) \in Server /\ proc[p] \in State
         /\ file[Of(p)].id \in Nat /\ file[Of(p)].id \in Given
         /\ proc[p].token \in Nat /\ proc[p].token \in Given
         /\ proc[p].pc \in {"locked", "redeem", "reread"} => proc[p].copy = file
         /\ file \in [Server -> Entry]
<1>1. CredTyped /\ ProcInv(p)
  BY DEF CredInv
<1>2. Of(p) \in Server /\ proc[p] \in State /\ file \in [Server -> Entry]
  BY <1>1 DEF CredTyped, Of
<1>3. file[Of(p)].id \in Nat /\ proc[p].token \in Nat
  BY <1>2 DEF Entry, State
<1> QED
  BY <1>1, <1>2, <1>3 DEF TokenInv, ProcInv, CopyInv, At

LEMMA RequestTokens ==
  ASSUME CredInv, TokenInv, NEW p \in Process,
         \/ Load(p) \/ Accepted(p) \/ Unauthorized(p) \/ GiveUp(p) \/ FileFails(p) \/ Crash(p)
         \/ Acquire(p) \/ Refused(p)
  PROVE  TokenInv'
<1>1. UNCHANGED <<file, run, issued, valid>>
  BY DEF Load, Accepted, Unauthorized, GiveUp, FileFails, Crash, Acquire, Refused, providerVars
<1>2. /\ CredTyped /\ Of(p) \in Server /\ proc[p] \in State /\ file \in [Server -> Entry]
      /\ file[Of(p)].id \in Nat /\ file[Of(p)].id \in Given /\ proc[p].token \in Given
      /\ proc[p].token \in Nat /\ 0 \in Given
  BY SeenTokens, NoneGiven
<1>3. ASSUME NEW v \in State, proc' = [proc EXCEPT ![p] = v], v.token \in Given, v.pc # "write"
      PROVE  TokenInv'
  BY <1>1, <1>2, <1>3, SetMoves, QuietTokens
<1>4. ASSUME NEW l \in {"done", "crashed"}, End(p, l)
      PROVE  TokenInv'
  <2>1. l \in Place /\ l # "write"
    BY DEF Place
  <2> QED
    BY <1>1, <1>2, <1>4, <2>1, EndToken, QuietTokens
<1>5. ASSUME NEW l \in {"request", "reread"}, Goto(p, l)
      PROVE  TokenInv'
  <2>1. l \in Place /\ l # "write"
    BY DEF Place
  <2> QED
    BY <1>1, <1>2, <1>5, <2>1, GotoMoves, QuietTokens
<1>6. CASE proc' = [proc EXCEPT ![p].token = file[Of(p)].id, ![p].pc = "request"]
  <2> DEFINE v == [proc[p] EXCEPT !.token = file[Of(p)].id, !.pc = "request"]
  <2>1. proc' = [proc EXCEPT ![p] = v]
    BY <1>6
  <2>2. v \in State /\ v.token = file[Of(p)].id /\ v.pc = "request"
    BY <1>2 DEF State, Place
  <2> HIDE DEF v
  <2> QED
    BY <1>2, <1>3, <2>1, <2>2
<1>7. ASSUME NEW l \in {"lock", "locked"}, proc' = [proc EXCEPT ![p].copy = file, ![p].pc = l]
      PROVE  TokenInv'
  <2> DEFINE v == [proc[p] EXCEPT !.copy = file, !.pc = l]
  <2>1. proc' = [proc EXCEPT ![p] = v]
    BY <1>7
  <2>2. v \in State /\ v.token = proc[p].token /\ v.pc = l
    BY <1>2 DEF State, Place
  <2> HIDE DEF v
  <2> QED
    BY <1>2, <1>3, <2>1, <2>2
<1>8. CASE proc' = [proc EXCEPT ![p] = [New("load") EXCEPT !.rejected = proc[p].token]]
  <2> DEFINE v == [New("load") EXCEPT !.rejected = proc[p].token]
  <2>1. v \in State /\ v.token = 0 /\ v.pc = "load"
    BY <1>2 DEF New, State, Place
  <2>2. proc' = [proc EXCEPT ![p] = v]
    BY <1>8
  <2> HIDE DEF v
  <2> QED
    BY <1>2, <1>3, <2>1, <2>2
<1>9. CASE Load(p)
  BY <1>4, <1>5, <1>6, <1>7, <1>9 DEF Load
<1>10. CASE Accepted(p) \/ Unauthorized(p) \/ GiveUp(p)
  BY <1>4, <1>8, <1>10 DEF Accepted, Unauthorized, GiveUp
<1>11. CASE FileFails(p) \/ Crash(p)
  BY <1>4, <1>11 DEF FileFails, Crash
<1>12. CASE Acquire(p) \/ Refused(p)
  BY <1>5, <1>7, <1>12 DEF Acquire, Refused, UnderLock
<1> QED
  BY <1>9, <1>10, <1>11, <1>12

LEMMA CallbackTokens ==
  ASSUME CredInv, TokenInv, NEW p \in Process,
         \/ LockedQuery(p) \/ LockedLogin(p) \/ LockedLogout(p) \/ Unreachable(p) \/ Reread(p)
  PROVE  TokenInv'
<1>1. UNCHANGED <<file, run, issued, valid>>
  BY DEF LockedQuery, LockedLogin, LockedLogout, Unreachable, Reread, providerVars
<1>2. /\ CredTyped /\ Of(p) \in Server /\ file \in [Server -> Entry]
      /\ file[Of(p)].id \in Nat /\ file[Of(p)].id \in Given
      /\ proc[p].token \in Given /\ proc[p].token \in Nat /\ 0 \in Given /\ 0 \in Nat
      /\ proc[p].pc \in {"locked", "redeem", "reread"} => proc[p].copy = file
  <2>1. 0 \in Nat
    BY SMTT(30)
  <2> QED
    BY <2>1, SeenTokens, NoneGiven
<1>3. ASSUME NEW t \in {0, file[Of(p)].id}, Unchanged(p, t)
      PROVE  TokenInv'
  <2>1. t \in Nat /\ t \in Given
    BY <1>2
  <2> QED
    BY <1>1, <1>2, <1>3, <2>1, UnchangedTokens DEF Unchanged
<1>4. Absent.id = 0 /\ Cleared.id = 0 /\ Absent \in Entry /\ Cleared \in Entry
  BY EntryTypes DEF Absent, Cleared
<1>5. ASSUME NEW e \in {Absent, Cleared}, Prepare(p, file, e, 0)
      PROVE  TokenInv'
  BY <1>1, <1>2, <1>4, <1>5, PreparedTokens
<1>6. CASE Goto(p, "redeem")
  <2>1. "redeem" \in Place /\ "redeem" # "write"
    BY DEF Place
  <2> QED
    BY <1>1, <1>2, <1>6, <2>1, GotoMoves, QuietTokens
<1>7. CASE LockedQuery(p)
  <2>1. proc[p].copy = file
    BY <1>2, <1>7 DEF LockedQuery, At
  <2> QED
    BY <1>3, <1>5, <1>6, <1>7, <2>1 DEF LockedQuery
<1>8. CASE LockedLogout(p)
  <2>1. proc[p].copy = file
    BY <1>2, <1>8 DEF LockedLogout, At
  <2> QED
    BY <1>3, <1>5, <1>8, <2>1 DEF LockedLogout
<1>9. CASE LockedLogin(p)
  <2>1. proc[p].copy = file
    BY <1>2, <1>9 DEF LockedLogin, At
  <2>2. PICK r \in {0, proc[p].token} :
          Prepare(p, file, SignedInAs(proc[p].token, r), proc[p].token)
    BY <1>9, <2>1 DEF LockedLogin
  <2>3. r \in Nat
    BY <1>2
  <2>4. SignedInAs(proc[p].token, r) \in Entry /\ SignedInAs(proc[p].token, r).id = proc[p].token
    BY <1>2, <2>3, EntryTypes
  <2> QED
    BY <1>1, <1>2, <2>2, <2>4, PreparedTokens
<1>10. CASE Unreachable(p)
  BY <1>3, <1>10 DEF Unreachable
<1>11. CASE Reread(p)
  BY <1>3, <1>5, <1>11 DEF Reread
<1> QED
  BY <1>7, <1>8, <1>9, <1>10, <1>11

LEMMA ProviderTokens ==
  ASSUME CredInv, TokenInv, NEW p \in Process, Redeemed(p) \/ AnswerLost(p) \/ Unusable(p)
  PROVE  TokenInv'
<1>1. At(p, "redeem") /\ UNCHANGED <<file, run>>
  BY DEF Redeemed, AnswerLost, Unusable
<1>2. PICK n \in 1..MaxIssued, r \in 1..MaxIssued :
        /\ Grant(p, n, r)
        /\ \/ Prepare(p, proc[p].copy, SignedInAs(n, r), n)
           \/ Unchanged(p, 0)
           \/ Goto(p, "reread")
  BY DEF Redeemed, AnswerLost, Unusable
<1>3. /\ issued' \in 1..MaxIssued /\ valid' \subseteq 1..issued' /\ Given \subseteq Given'
      /\ n \in Given' /\ 0 \in Given'
  BY <1>1, <1>2, GrantTokens
<1>4. CredTyped /\ proc[p].token \in Given /\ Of(p) \in Server /\ proc[p].copy \in [Server -> Entry]
  BY <1>1, SeenTokens DEF At
<1>5. 0 \in Nat /\ n \in Nat /\ r \in Nat
  BY CredAssumption, SMTT(30)
<1>6. CASE Prepare(p, proc[p].copy, SignedInAs(n, r), n)
  <2>1. SignedInAs(n, r) \in Entry /\ SignedInAs(n, r).id = n
    BY <1>5, EntryTypes
  <2>2. /\ Moves(p, "write") /\ proc'[p].copy = [proc[p].copy EXCEPT ![Of(p)] = SignedInAs(n, r)]
        /\ proc'[p].token = n
    BY <1>4, <1>5, <1>6, <2>1, PrepareMoves
  <2>3. proc'[p].copy[Of(p)].id = n
    BY <1>4, <2>1, <2>2
  <2> QED
    BY <1>1, <1>3, <1>4, <2>2, <2>3, TokenStep
<1>7. CASE Unchanged(p, 0)
  <2>1. Moves(p, After(p, 0)) /\ After(p, 0) # "write" /\ proc'[p].token = 0
    BY <1>4, <1>5, <1>7, ReturnToken DEF Unchanged
  <2> QED
    BY <1>1, <1>3, <1>4, <2>1, TokenStep
<1>8. CASE Goto(p, "reread")
  <2>1. "reread" \in Place /\ "reread" # "write"
    BY DEF Place
  <2>2. Moves(p, "reread") /\ proc'[p].token = proc[p].token
    BY <1>4, <1>8, <2>1, GotoMoves
  <2> QED
    BY <1>1, <1>3, <1>4, <2>1, <2>2, TokenStep
<1> QED
  BY <1>2, <1>6, <1>7, <1>8

LEMMA GrantedTokens ==
  ASSUME CredInv, TokenInv, NEW p \in Process, Granted(p)
  PROVE  TokenInv'
<1>1. UNCHANGED <<file, run>> /\ CredTyped /\ proc[p] \in State /\ 0 \in Given
  BY SeenTokens, NoneGiven DEF Granted
<1>2. CASE End(p, "done") /\ UNCHANGED <<issued, valid>>
  <2>1. "done" \in Place /\ "done" # "write"
    BY DEF Place
  <2> QED
    BY <1>1, <1>2, <2>1, EndToken, QuietTokens
<1>3. CASE /\ issued < MaxIssued /\ issued' = issued + 1 /\ valid' = valid \cup {issued'}
           /\ proc' = [proc EXCEPT ![p].token = issued', ![p].pc = "lock"]
  <2>1. issued \in 1..MaxIssued /\ MaxIssued \in Nat /\ valid \subseteq 1..issued
    BY CredAssumption DEF TokenInv
  <2>2. PICK n : n = issued'
    OBVIOUS
  <2>3. /\ n \in 1..MaxIssued /\ n \in Nat /\ 1..issued \subseteq 1..n /\ n \in 1..n
        /\ 0..issued \subseteq 0..n /\ n \in 0..n
    BY <1>3, <2>1, <2>2, SMTT(30)
  <2>4. valid' \subseteq 1..issued' /\ Given \subseteq Given' /\ n \in Given'
    BY <1>3, <2>1, <2>2, <2>3 DEF Given
  <2> DEFINE v == [proc[p] EXCEPT !.token = n, !.pc = "lock"]
  <2>5. proc' = [proc EXCEPT ![p] = v]
    BY <1>3, <2>2
  <2>6. v \in State /\ v.token = n /\ v.pc = "lock"
    BY <1>1, <2>3 DEF State, Place
  <2> HIDE DEF v
  <2>7. Moves(p, "lock") /\ proc'[p].token = n
    BY <1>1, <2>5, <2>6, SetMoves
  <2> QED
    BY <1>1, <2>2, <2>3, <2>4, <2>7, TokenStep
<1> QED
  BY <1>2, <1>3 DEF Granted

LEMMA WriteTokens ==
  ASSUME CredInv, TokenInv, NEW p \in Process, Write(p)
  PROVE  TokenInv'
<1>1. /\ At(p, "write") /\ file' = proc[p].copy /\ Return(p, proc[p].token)
      /\ run' = run /\ issued' = issued /\ valid' = valid /\ Given' = Given
  BY DEF Write, providerVars, Given
<1>2. CredTyped /\ ProcInv(p) /\ proc[p].token \in Nat /\ proc[p].token \in Given /\ 0 \in Given
  BY SeenTokens, NoneGiven DEF CredInv
<1>3. ASSUME NEW s \in Server
      PROVE  file'[s].id \in Given
  <2>1. CASE s = Of(p)
    BY <1>1, <2>1 DEF TokenInv, NewEntry
  <2>2. CASE s # Of(p)
    BY <1>1, <1>2, <2>2 DEF TokenInv, ProcInv, CopyInv
  <2> QED
    BY <2>1, <2>2
<1>4. ASSUME NEW q \in Process
      PROVE  proc'[q].token \in Given /\ (At(q, "write")' => NewEntry(q)'.id \in Given)
  <2>1. /\ Moves(p, After(p, proc[p].token)) /\ After(p, proc[p].token) # "write"
        /\ proc'[p].token \in {0, proc[p].token}
    BY <1>1, <1>2, ReturnToken
  <2>2. CASE q = p
    BY <1>2, <2>1, <2>2 DEF Moves, At
  <2>3. CASE q # p
    BY <1>1, <2>1, <2>3 DEF Moves, TokenInv, At, NewEntry, Of
  <2> QED
    BY <2>2, <2>3
<1> QED
  BY <1>1, <1>3, <1>4 DEF TokenInv

LEMMA TokensKept == CredInv /\ TokenInv /\ [CredNext]_credVars => TokenInv'
<1> SUFFICES ASSUME CredInv, TokenInv, [CredNext]_credVars
             PROVE  TokenInv'
  OBVIOUS
<1>1. CASE \E p \in Process : Steps(p)
  BY <1>1, RequestTokens, CallbackTokens, ProviderTokens, GrantedTokens, WriteTokens DEF Steps
<1>2. CASE Age \/ Restart \/ UNCHANGED credVars
  <2>1. UNCHANGED <<file, run, proc, issued>> /\ valid' \subseteq valid
    BY <1>2 DEF Age, Restart, credVars, providerVars
  <2> QED
    BY <2>1 DEF TokenInv, Given, At, NewEntry, Of
<1> QED
  BY <1>1, <1>2 DEF CredNext

LEMMA TokensInitially == CredInit => TokenInv
<1> SUFFICES ASSUME CredInit
             PROVE  TokenInv
  OBVIOUS
<1>1. valid = Server /\ issued = Cardinality(Server) /\ proc = [p \in Process |-> New(First[run[p].command])]
  BY DEF CredInit
<1>2. Server = 1..issued /\ issued \in 1..MaxIssued
  BY <1>1, CredAssumption
<1>3. \A s \in Server : s \in Nat /\ s \in Given
  BY <1>2, CredAssumption, SMTT(30) DEF Given
<1>4. \A s \in Server : file[s].id = s
  BY <1>3, EntryTypes DEF CredInit
<1>5. 0 \in Given
  BY <1>2, CredAssumption, SMTT(30) DEF Given
<1>6. \A p \in Process : proc[p].token = 0 /\ ~At(p, "write")
  <2>1. \A p \in Process : run[p].command \in Command
    BY CredAssumption DEF CredInit
  <2>2. \A c \in Command : First[c] # "write"
    BY SMTT(30) DEF Command, First
  <2> QED
    BY <1>1, <2>1, <2>2 DEF New, At
<1> QED
  BY <1>1, <1>2, <1>3, <1>4, <1>5, <1>6 DEF TokenInv

\* Every token in the file, and every one the provider accepts, was issued; and the
\* advisory lock excludes: a process past lockExclusive holds it until Update returns, also
\* when others give up waiting for it, crash, or hold copies of the file from before.
THEOREM LockExcludes == CredSpec => []CredTypeOK
<1>1. CredInv /\ TokenInv => CredTypeOK
  <2> SUFFICES ASSUME CredInv, TokenInv
               PROVE  CredTypeOK
    OBVIOUS
  <2>1. Given \subseteq 0..MaxIssued
    BY CredAssumption, SMTT(30) DEF TokenInv, Given
  <2>2. \A s \in Server : file[s].refresh \in 0..MaxIssued
    <3>1. \A s \in Server : file[s].refresh \in Nat /\ file[s].refresh <= issued
      BY DEF CredInv, CredTyped, FileInv, Entry
    <3> QED
      BY <3>1, CredAssumption, SMTT(30) DEF TokenInv
  <2>3. lock \in Process \cup {Nobody} /\ \A p \in Process : Held(p) => lock = p
    BY DEF CredInv, CredTyped, ProcInv, CopyInv
  <2> QED
    BY <2>1, <2>2, <2>3 DEF TokenInv, CredTypeOK, Held
<1>2. CredInit => CredInv /\ TokenInv
  BY CredInvInitially, TokensInitially
<1>3. CredInv /\ TokenInv /\ [CredNext]_credVars => CredInv' /\ TokenInv'
  BY CredInvKept, TokensKept
<1> QED
  BY <1>1, <1>2, <1>3, PTL DEF CredSpec

=============================================================================
