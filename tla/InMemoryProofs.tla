-------------------------- MODULE InMemoryProofs --------------------------
(***************************************************************************)
(* The in-memory adapter implements the repository protocol, the routes    *)
(* over it answer what they should while it is written and purged, and the *)
(* rules behind them (sorting, caps, comparison, anomalies) compute what   *)
(* they are meant to: for every set of batches, every retention, every     *)
(* bucket length and every cap.                                            *)
(***************************************************************************)
EXTENDS Queries, RuleCases, FiniteSetTheorems, NaturalsInduction, TLAPS

-----------------------------------------------------------------------------
(* Windows and buckets.                                                    *)

\* bucket_start truncates: a moment lies in the bucket that starts there.
LEMMA MomentInBucket ==
  ASSUME NEW t \in Int
  PROVE  BucketStart(t) \in Int /\ BucketStart(t) <= t /\ t < BucketStart(t) + Minute
<1>1. t % Minute \in 0..(Minute - 1)
  BY WindowsAssumption
<1> QED
  BY <1>1, WindowsAssumption DEF BucketStart

\* Queries select buckets by their start: what a window shows is off by less than a
\* bucket.  A moment inside the window, a bucket away from its start, is counted; one
\* before the window, or a bucket or more after it, never is.
THEOREM WindowOffByABucket ==
  ASSUME NEW w \in Window, NEW t \in Int
  PROVE  /\ w.start + Minute <= t /\ t < w.end => InWindow(w, BucketStart(t))
         /\ InWindow(w, BucketStart(t)) => w.start <= t /\ t < w.end + Minute
<1>1. w.start \in Int /\ w.end \in Int
  BY DEF Window
<1> QED
  BY <1>1, MomentInBucket, WindowsAssumption DEF InWindow

\* validate_diff_periods refuses exactly the pairs of periods that could count
\* something twice: valid periods overlap if and only if some moment is in both.
THEOREM OverlapExact ==
  ASSUME NEW b \in Window, NEW c \in Window, Validated(b), Validated(c)
  PROVE  Overlap(b, c) <=> \E t \in Int : InWindow(b, t) /\ InWindow(c, t)
<1>1. b.start \in Int /\ b.end \in Int /\ c.start \in Int /\ c.end \in Int
  BY DEF Window
<1>2. ASSUME NEW t \in Int, InWindow(b, t), InWindow(c, t)
      PROVE  Overlap(b, c)
  BY <1>1, <1>2 DEF InWindow, Overlap
<1>3. ASSUME Overlap(b, c)
      PROVE  \E t \in Int : InWindow(b, t) /\ InWindow(c, t)
  <2>1. CASE b.start <= c.start
    <3>1. InWindow(b, c.start) /\ InWindow(c, c.start)
      BY <1>1, <1>3, <2>1 DEF InWindow, Overlap, Validated
    <3> QED
      BY <1>1, <3>1
  <2>2. CASE c.start <= b.start
    <3>1. InWindow(b, b.start) /\ InWindow(c, b.start)
      BY <1>1, <1>3, <2>2 DEF InWindow, Overlap, Validated
    <3> QED
      BY <1>1, <3>1
  <2> QED
    BY <1>1, <2>1, <2>2
<1> QED
  BY <1>2, <1>3

-----------------------------------------------------------------------------
(* The adapter.                                                            *)

\* What the refinement needs of the adapter's state: the bucket table has its type,
\* and a bucket that holds something has both of its nodes.
MemInv ==
  /\ now \in Nat
  /\ merged \in [Key -> [Batch -> Nat]]
  /\ \A k \in Rows : {k[2], k[3]} \subseteq nodes

\* The nodes upserted for a batch are the endpoints of its bucket keys.
LEMMA NodesOfBatch ==
  ASSUME NEW b \in Batch
  PROVE  UNION {{r.source, r.target} : r \in Reports[b]} = UNION {{k[2], k[3]} : k \in EdgesOf[b]}
<1>1. EdgesOf[b] = {KeyOf(r) : r \in Reports[b]}
  BY DEF EdgesOf
<1>2. \A r \in Reports[b] : KeyOf(r)[2] = r.source /\ KeyOf(r)[3] = r.target
  BY DEF KeyOf
<1> QED
  BY <1>1, <1>2

\* memory.py starts with empty tables.
LEMMA InvInitially == MemInit => MemInv
  BY DEF MemInit, MemInv, Rows, Empty

\* Every operation of the adapter keeps the bucket table and its references intact.
LEMMA InvKept == MemInv /\ [MemNext]_memVars => MemInv'
<1> SUFFICES ASSUME MemInv, [MemNext]_memVars
             PROVE  MemInv'
  OBVIOUS
<1>1. ASSUME NEW b \in Batch, IngestBatch(b)
      PROVE  MemInv'
  <2>1. now' \in Nat /\ merged' \in [Key -> [Batch -> Nat]]
    BY <1>1 DEF IngestBatch, MemInv
  <2>2. ASSUME NEW k \in Rows'
        PROVE  {k[2], k[3]} \subseteq nodes'
    <3>1. CASE k \in EdgesOf[b]
      <4>1. {k[2], k[3]} \subseteq UNION {{j[2], j[3]} : j \in EdgesOf[b]}
        BY <3>1
      <4> QED
        BY <1>1, <4>1, NodesOfBatch, ZenonT(30) DEF IngestBatch
    <3>2. CASE k \notin EdgesOf[b]
      <4>1. k \in Rows
        BY <1>1, <3>2 DEF IngestBatch, Rows, Key
      <4> QED
        BY <1>1, <4>1 DEF IngestBatch, MemInv
    <3> QED
      BY <3>1, <3>2
  <2> QED
    BY <2>1, <2>2 DEF MemInv
<1>2. CASE PurgeExpired
  <2> DEFINE kept == {k \in Rows : ~(k[1] < now - Retention)}
  <2>1. now' \in Nat /\ merged' \in [Key -> [Batch -> Nat]]
    BY <1>2 DEF PurgeExpired, MemInv, Empty, Rows
  <2>2. Rows' \subseteq kept
    BY <1>2 DEF PurgeExpired, Rows, Empty
  <2>3. \A k \in kept : {k[2], k[3]} \subseteq nodes'
    BY <1>2 DEF PurgeExpired, Referenced, MemInv
  <2> QED
    BY <2>1, <2>2, <2>3 DEF MemInv
<1>3. CASE Tick
  BY <1>3 DEF Tick, MemInv, Rows
<1>4. CASE UNCHANGED memVars
  BY <1>4 DEF memVars, MemInv, Rows
<1> QED
  BY <1>1, <1>2, <1>3, <1>4 DEF MemNext

\* An ingest of the adapter is an ingest of the protocol.
LEMMA IngestRefines ==
  ASSUME MemInv, NEW b \in Batch, IngestBatch(b)
  PROVE  Repo!IngestOnce(b)
<1>1. Repo!RepoKey = Key
  BY DEF Repo!RepoKey, Key
<1>2. UNION {Repo!Endpoints(k) : k \in EdgesOf[b]} = UNION {{k[2], k[3]} : k \in EdgesOf[b]}
  BY DEF Repo!Endpoints
<1> QED
  BY <1>1, <1>2, NodesOfBatch DEF IngestBatch, Gate, Repo!IngestOnce

\* A purge of the adapter is a step of maintenance: it removes whole buckets, only
\* expired ones, and no node that a bucket still needs.
LEMMA PurgeRefines ==
  ASSUME MemInv, PurgeExpired
  PROVE  Repo!Maintain
<1> DEFINE kept == {k \in Rows : ~(k[1] < now - Retention)}
<1>1. Repo!RepoKey = Key
  BY DEF Repo!RepoKey, Key
<1>2. \A k \in Key : merged'[k] = IF k \in kept THEN merged[k] ELSE Empty
  BY DEF PurgeExpired
<1>3. \A k \in Key : k \notin kept => ~Repo!Present(merged', k)
  BY <1>2 DEF Repo!Present, Empty
<1>4. \A k \in Key : Repo!Present(merged, k) /\ k \notin kept => Repo!Outdated(k)
  BY DEF Repo!Present, Repo!Outdated, Rows
<1>5. \A k \in kept : Repo!Endpoints(k) \subseteq nodes'
  BY DEF PurgeExpired, Referenced, MemInv, Repo!Endpoints
<1>6. \A k \in kept : Repo!Present(merged, k) => Repo!Present(merged', k)
  BY <1>2 DEF Repo!Present, Rows
<1> QED
  BY <1>1, <1>2, <1>3, <1>4, <1>5, <1>6 DEF PurgeExpired, Repo!Maintain

\* memory.py implements protocol.py: whatever batches agents send and however long
\* buckets are kept, every change of its tables is one atomic ingest of a new batch
\* or a removal that the protocol permits.
THEOREM MemoryRefines == MemSpec => MemoryImplementsRepository
<1>1. MemInit => Repo!RepoInit
  BY DEF MemInit, Repo!RepoInit, Repo!RepoKey, Key, Empty
<1>2. MemInv /\ [MemNext]_memVars => [Repo!RepoNext]_(Repo!repoVars)
  <2> SUFFICES ASSUME MemInv, [MemNext]_memVars
               PROVE  [Repo!RepoNext]_(Repo!repoVars)
    OBVIOUS
  <2>1. ASSUME NEW b \in Batch, IngestBatch(b)
        PROVE  Repo!RepoNext
    BY <2>1, IngestRefines DEF Repo!RepoNext
  <2>2. CASE PurgeExpired
    BY <2>2, PurgeRefines DEF Repo!RepoNext
  <2>3. CASE Tick
    BY <2>3 DEF Tick, MemInv, Repo!RepoNext, Repo!TimePasses
  <2>4. CASE UNCHANGED memVars
    BY <2>4 DEF memVars, Repo!repoVars
  <2> QED
    BY <2>1, <2>2, <2>3, <2>4 DEF MemNext
<1> QED
  BY <1>1, <1>2, InvInitially, InvKept, PTL DEF MemSpec, MemoryImplementsRepository, Repo!RepoSpec

\* Most leaves from here on are first-order; those about numbers, sequences or records
\* name SMT.
USE ZenonT(30)

-----------------------------------------------------------------------------
(* Sorting.                                                                *)

\* below[x] is what a strict total order of the finite set S has below x.
TotalOrder(S, below) ==
  /\ IsFiniteSet(S)
  /\ \A x \in S : below[x] \subseteq S /\ x \notin below[x]
  /\ \A x, y \in S : x = y \/ x \in below[y] \/ y \in below[x]
  /\ \A x, y \in S : y \in below[x] => below[y] \subseteq below[x]

\* s lists S.
Lists(s, S) ==
  /\ s = [i \in 1..Cardinality(S) |-> s[i]]
  /\ \A i \in 1..Cardinality(S) : s[i] \in S
  /\ \A x \in S : \E i \in 1..Cardinality(S) : s[i] = x

\* Sorting by rank loses nothing and adds nothing: what the sorts of query_edges,
\* compare and respond return lists the set they sort.
LEMMA OrderedLists ==
  ASSUME NEW S, NEW below, TotalOrder(S, below)
  PROVE  Lists(Ordered(S, below), S)
<1>1. PICK n : n = Cardinality(S)
  OBVIOUS
<1>2. n \in Nat /\ IsFiniteSet(S)
  BY <1>1, FS_CardinalityType DEF TotalOrder
<1>3. ASSUME NEW x \in S
      PROVE  IsFiniteSet(below[x]) /\ Cardinality(below[x]) \in 0..(n - 1)
  <2>1. below[x] \in SUBSET (S \ {x})
    BY DEF TotalOrder
  <2>2. IsFiniteSet(S \ {x}) /\ Cardinality(S \ {x}) = n - 1
    BY <1>1, <1>2, FS_RemoveElement
  <2>3. IsFiniteSet(below[x]) /\ Cardinality(below[x]) <= n - 1
    BY <2>1, <2>2, FS_Subset, SMTT(30)
  <2>4. Cardinality(below[x]) \in Nat
    BY <2>3, FS_CardinalityType
  <2> QED BY <1>2, <2>3, <2>4, SMTT(30)
<1>4. ASSUME NEW x \in S, NEW y \in S, y \in below[x]
      PROVE  Cardinality(below[y]) # Cardinality(below[x])
  <2>1. below[y] \in SUBSET below[x] /\ y \notin below[y]
    BY <1>4 DEF TotalOrder
  <2>2. below[x] # below[y]
    BY <1>4, <2>1
  <2> QED BY <1>3, <2>1, <2>2, FS_Subset
<1>5. PICK rank : rank = [x \in S |-> Cardinality(below[x])]
  OBVIOUS
<1>6. rank \in Injection(S, 0..(n - 1))
  <2>1. rank \in [S -> 0..(n - 1)]
    BY <1>3, <1>5
  <2>2. \A x, y \in S : rank[x] = rank[y] => x = y
    BY <1>4, <1>5 DEF TotalOrder
  <2> QED BY <2>1, <2>2 DEF Injection, IsInjective
<1>7. IsFiniteSet(0..(n - 1)) /\ Cardinality(0..(n - 1)) = n
  <2>1. 0 \in Int /\ n - 1 \in Int /\ (IF 0 > n - 1 THEN 0 ELSE n - 1 - 0 + 1) = n
    BY <1>2, SMTT(30)
  <2> QED BY <2>1, FS_Interval
<1>8. rank \in Surjection(S, 0..(n - 1))
  BY <1>1, <1>6, <1>7, FS_Injection
<1>9. PICK s : s = Ordered(S, below)
  OBVIOUS
<1>10. s = [i \in 1..n |-> CHOOSE x \in S : Cardinality(below[x]) = i - 1]
  BY <1>1, <1>9 DEF Ordered
<1>11. ASSUME NEW i \in 1..n
       PROVE  s[i] \in S /\ Cardinality(below[s[i]]) = i - 1
  <2>1. i - 1 \in 0..(n - 1)
    BY <1>2, SMTT(30)
  <2>2. PICK x \in S : rank[x] = i - 1
    BY <1>8, <2>1 DEF Surjection
  <2>3. Cardinality(below[x]) = i - 1
    BY <1>5, <2>2
  <2>4. s[i] = CHOOSE y \in S : Cardinality(below[y]) = i - 1
    BY <1>10
  <2> QED BY <2>3, <2>4
<1>12. ASSUME NEW x \in S
       PROVE  \E i \in 1..n : s[i] = x
  <2>1. PICK i : i = Cardinality(below[x]) + 1
    OBVIOUS
  <2>2. i \in 1..n /\ i - 1 = Cardinality(below[x])
    BY <1>2, <1>3, <2>1, SMTT(30)
  <2>3. s[i] \in S /\ rank[s[i]] = rank[x]
    BY <1>5, <1>11, <2>2
  <2> QED BY <1>6, <2>2, <2>3 DEF Injection, IsInjective
<1>13. s = [i \in 1..n |-> s[i]]
  BY <1>10, SMTT(30)
<1> QED BY <1>1, <1>9, <1>11, <1>12, <1>13 DEF Lists

\* Edges by source, then target.
LEMMA SortedLists ==
  ASSUME NEW S, IsFiniteSet(S), S \subseteq Int \X Int
  PROVE  Lists(Sorted(S), S)
<1>1. PICK below : below = [e \in S |-> {f \in S : Lower(f, e)}]
  OBVIOUS
<1>2. \A x \in S : below[x] = {f \in S : Lower(f, x)}
  BY <1>1
<1>3. \A x, y \in Int \X Int : (x = y \/ Lower(x, y) \/ Lower(y, x)) /\ ~Lower(x, x)
  BY SMTT(30) DEF Lower
<1>4. \A x, y, z \in Int \X Int : Lower(z, y) /\ Lower(y, x) => Lower(z, x)
  BY SMTT(30) DEF Lower
<1>5. TotalOrder(S, below)
  <2>1. \A x \in S : below[x] \subseteq S /\ x \notin below[x]
    BY <1>2, <1>3
  <2>2. \A x, y \in S : x = y \/ x \in below[y] \/ y \in below[x]
    BY <1>2, <1>3
  <2>3. \A x, y \in S : y \in below[x] => below[y] \subseteq below[x]
    BY <1>2, <1>4
  <2> QED BY <2>1, <2>2, <2>3 DEF TotalOrder
<1> QED BY <1>1, <1>5, OrderedLists DEF Sorted

\* A type is one of the five; each has its place in ANOMALY_TYPES.
Types == {"CANARY_CONTACT", "NEW_EXTERNAL_EGRESS", "NEW_EDGE", "FAILURE_SPIKE", "SLOW_SETUP"}

\* The order of ANOMALY_TYPES tells the types apart.
LEMMA TypesRanked ==
  /\ \A t \in Types : TypeIndex(t) \in Int
  /\ \A t, u \in Types : TypeIndex(t) = TypeIndex(u) => t = u
<1>1. \A t \in Types : \E i \in 1..Len(AnomalyTypes) : AnomalyTypes[i] = t
  BY SMTT(30) DEF AnomalyTypes, Types
<1>2. \A t \in Types : TypeIndex(t) \in 1..Len(AnomalyTypes) /\ AnomalyTypes[TypeIndex(t)] = t
  BY <1>1 DEF TypeIndex
<1>3. 1..Len(AnomalyTypes) \subseteq Int
  BY SMTT(30) DEF AnomalyTypes
<1> QED BY <1>2, <1>3

\* Anomalies by edge, then type, and no more than the cap.
LEMMA RespondOf ==
  ASSUME NEW S, IsFiniteSet(S), S \subseteq (Int \X Int) \X Types
  PROVE  /\ Len(Respond(S)) \in Nat
         /\ \A i \in 1..Len(Respond(S)) : Respond(S)[i] \in S
<1> DEFINE A == (Int \X Int) \X Types
<1>1. PICK below : below = [a \in S |-> {b \in S : Earlier(b, a)}]
  OBVIOUS
<1>2. \A x \in S : below[x] = {b \in S : Earlier(b, x)}
  BY <1>1
<1>3. \A x, y \in Int \X Int : (x = y \/ Lower(x, y) \/ Lower(y, x)) /\ ~Lower(x, x)
  BY SMTT(30) DEF Lower
<1>4. \A x, y, z \in Int \X Int : Lower(z, y) /\ Lower(y, x) => Lower(z, x)
  BY SMTT(30) DEF Lower
<1>5. ASSUME NEW a \in A, NEW b \in A
      PROVE  (a = b \/ Earlier(a, b) \/ Earlier(b, a)) /\ ~Earlier(a, a)
  <2>1. a[1] \in Int \X Int /\ b[1] \in Int \X Int /\ a[2] \in Types /\ b[2] \in Types
    OBVIOUS
  <2>2. a[1] = b[1] /\ a[2] = b[2] => a = b
    BY SMTT(30)
  <2>3. TypeIndex(a[2]) \in Int /\ TypeIndex(b[2]) \in Int
    BY <2>1, TypesRanked
  <2>4. /\ TypeIndex(a[2]) < TypeIndex(b[2]) \/ TypeIndex(b[2]) < TypeIndex(a[2])
             \/ TypeIndex(a[2]) = TypeIndex(b[2])
        /\ ~(TypeIndex(a[2]) < TypeIndex(a[2]))
    BY <2>3, SMTT(30)
  <2> QED BY <1>3, <2>1, <2>2, <2>4, TypesRanked DEF Earlier
<1>6. ASSUME NEW a \in A, NEW b \in A, NEW c \in A, Earlier(c, b), Earlier(b, a)
      PROVE  Earlier(c, a)
  <2>1. a[1] \in Int \X Int /\ b[1] \in Int \X Int /\ c[1] \in Int \X Int
    OBVIOUS
  <2>2. a[2] \in Types /\ b[2] \in Types /\ c[2] \in Types
    OBVIOUS
  <2>3. TypeIndex(a[2]) \in Int /\ TypeIndex(b[2]) \in Int /\ TypeIndex(c[2]) \in Int
    BY <2>2, TypesRanked
  <2>4. TypeIndex(c[2]) < TypeIndex(b[2]) /\ TypeIndex(b[2]) < TypeIndex(a[2])
          => TypeIndex(c[2]) < TypeIndex(a[2])
    BY <2>3, SMTT(30)
  <2> QED BY <1>4, <1>6, <2>1, <2>4 DEF Earlier
<1>7. TotalOrder(S, below)
  <2>1. \A x \in S : below[x] \subseteq S /\ x \notin below[x]
    BY <1>2, <1>5
  <2>2. \A x, y \in S : x = y \/ x \in below[y] \/ y \in below[x]
    BY <1>2, <1>5
  <2>3. \A x, y \in S : y \in below[x] => below[y] \subseteq below[x]
    BY <1>2, <1>6
  <2> QED BY <2>1, <2>2, <2>3 DEF TotalOrder
<1>8. PICK s : s = Ordered(S, below) /\ Lists(s, S)
  BY <1>7, OrderedLists
<1>9. PICK n : n = Cardinality(S) /\ n \in Nat
  BY FS_CardinalityType
<1>10. s = [i \in 1..n |-> s[i]] /\ \A i \in 1..n : s[i] \in S
  BY <1>8, <1>9 DEF Lists
<1>11. s \in Seq(S) /\ Len(s) = n
  BY <1>9, <1>10, SMTT(30)
<1>12. PICK m : m = (IF Len(s) > MaxEdges THEN MaxEdges ELSE Len(s))
  OBVIOUS
<1>13. m \in 0..n
  BY <1>9, <1>11, <1>12, RulesAssumption, SMTT(30)
<1>14. Respond(S) = SubSeq(s, 1, m)
  BY <1>1, <1>8, <1>12 DEF Respond, Prefix
<1>15. Len(SubSeq(s, 1, m)) = m /\ \A i \in 1..m : SubSeq(s, 1, m)[i] = s[i]
  BY <1>9, <1>11, <1>13, SMTT(30)
<1>16. \A i \in 1..m : i \in 1..n
  BY <1>9, <1>13, SMTT(30)
<1>17. m \in Nat
  BY <1>9, <1>13, SMTT(30)
<1> QED BY <1>10, <1>14, <1>15, <1>16, <1>17

-----------------------------------------------------------------------------
(* Sums.                                                                   *)

\* f sums natural numbers over a finite set.
Counts(f) == IsFiniteSet(DOMAIN f) /\ \A x \in DOMAIN f : f[x] \in Nat

\* What g counts, f counts as well.
Within(g, f) == \A x \in DOMAIN g : g[x] = 0 \/ (x \in DOMAIN f /\ g[x] <= f[x])

\* The units of f are numbered within each of its members.
LEMMA UnitOf ==
  ASSUME NEW f, NEW u
  PROVE  u \in Units(f) <=> \E x \in DOMAIN f : u \in {x} \X (1..f[x])
BY DEF Units

\* Finitely many numbers have finitely many units.
LEMMA UnitsFinite ==
  ASSUME NEW f, Counts(f)
  PROVE  IsFiniteSet(Units(f))
<1>1. PICK g : g = [x \in DOMAIN f |-> {x} \X (1..f[x])]
  OBVIOUS
<1>2. PICK T : T = {{x} \X (1..f[x]) : x \in DOMAIN f}
  OBVIOUS
<1>3. g \in Surjection(DOMAIN f, T)
  BY <1>1, <1>2 DEF Surjection
<1>4. IsFiniteSet(T)
  BY <1>3, FS_Surjection DEF Counts
<1>5. ASSUME NEW x \in DOMAIN f
      PROVE  IsFiniteSet({x} \X (1..f[x]))
  <2>1. 1 \in Int /\ f[x] \in Int
    BY SMTT(30) DEF Counts
  <2>2. IsFiniteSet({x}) /\ IsFiniteSet(1..f[x])
    BY <2>1, FS_Singleton, FS_Interval
  <2> QED BY <2>2, FS_Product
<1>6. \A U \in T : IsFiniteSet(U)
  BY <1>2, <1>5
<1> QED BY <1>2, <1>4, <1>6, FS_UNION DEF Units

\* What g counts no more of than f has its units among f's.
LEMMA UnitsWithin ==
  ASSUME NEW f, NEW g, Counts(f), Counts(g), Within(g, f)
  PROVE  Units(g) \subseteq Units(f)
<1> SUFFICES ASSUME NEW u \in Units(g)
             PROVE  u \in Units(f)
  OBVIOUS
<1>1. PICK x \in DOMAIN g : u \in {x} \X (1..g[x])
  BY UnitOf
<1>2. g[x] \in Nat /\ g[x] # 0
  BY <1>1, SMTT(30) DEF Counts
<1>3. x \in DOMAIN f /\ g[x] <= f[x] /\ f[x] \in Nat
  BY <1>2 DEF Within, Counts
<1>4. u \in {x} \X (1..f[x])
  BY <1>1, <1>2, <1>3, SMTT(30)
<1> QED BY <1>3, <1>4, UnitOf

\* A sum of natural numbers, and one of part of them.
LEMMA TotalWithin ==
  ASSUME NEW f, NEW g, Counts(f), Counts(g), Within(g, f)
  PROVE  Total(g) \in Nat /\ Total(f) \in Nat /\ Total(g) <= Total(f)
<1>1. Units(g) \in SUBSET Units(f) /\ IsFiniteSet(Units(f))
  BY UnitsWithin, UnitsFinite
<1>2. Cardinality(Units(g)) <= Cardinality(Units(f)) /\ IsFiniteSet(Units(g))
  BY <1>1, FS_Subset
<1> QED BY <1>1, <1>2, FS_CardinalityType DEF Total

\* Two separate parts of a sum.
LEMMA TotalTwo ==
  ASSUME NEW f, NEW g, NEW h, Counts(f), Counts(g), Counts(h), Within(g, f), Within(h, f),
         DOMAIN g \cap DOMAIN h = {}
  PROVE  Total(g) + Total(h) <= Total(f)
<1>1. PICK U, V, W : U = Units(f) /\ V = Units(g) /\ W = Units(h)
  OBVIOUS
<1>2. V \subseteq U /\ W \subseteq U /\ IsFiniteSet(U) /\ IsFiniteSet(V) /\ IsFiniteSet(W)
  BY <1>1, UnitsWithin, UnitsFinite
<1>3. V \cap W = {}
  <2> SUFFICES ASSUME NEW u, u \in V, u \in W
               PROVE  FALSE
    OBVIOUS
  <2>1. PICK x \in DOMAIN g : u \in {x} \X (1..g[x])
    BY <1>1, UnitOf
  <2>2. PICK y \in DOMAIN h : u \in {y} \X (1..h[y])
    BY <1>1, UnitOf
  <2>3. x = y
    BY <2>1, <2>2
  <2> QED BY <2>3
<1>4. Cardinality(V \cup W) = Cardinality(V) + Cardinality(W) - Cardinality(V \cap W)
  BY <1>2, FS_Union
<1>5. Cardinality(V \cap W) = 0
  BY <1>3, FS_EmptySet
<1>6. V \cup W \in SUBSET U
  BY <1>2
<1>7. Cardinality(V \cup W) <= Cardinality(U)
  BY <1>2, <1>6, FS_Subset
<1>8. Cardinality(V) \in Nat /\ Cardinality(W) \in Nat /\ Cardinality(U) \in Nat
  BY <1>2, FS_CardinalityType
<1>9. Cardinality(V) + Cardinality(W) <= Cardinality(U)
  <2>1. PICK c : c = Cardinality(V \cup W)
    OBVIOUS
  <2>2. c = Cardinality(V) + Cardinality(W) - 0 /\ c <= Cardinality(U)
    BY <1>4, <1>5, <1>7, <2>1
  <2> QED BY <1>8, <2>2, SMTT(30)
<1> QED BY <1>1, <1>9 DEF Total

\* A sum with a positive term is positive.
LEMMA TotalPositive ==
  ASSUME NEW f, Counts(f), NEW x \in DOMAIN f, f[x] # 0
  PROVE  Total(f) \in Nat /\ Total(f) > 0
<1>1. <<x, 1>> \in {x} \X (1..f[x])
  <2>1. f[x] \in Nat
    BY DEF Counts
  <2> QED BY <2>1, SMTT(30)
<1>2. Units(f) # {}
  BY <1>1, UnitOf
<1>3. IsFiniteSet(Units(f))
  BY UnitsFinite
<1>4. Cardinality(Units(f)) \in Nat /\ Cardinality(Units(f)) # 0
  BY <1>2, <1>3, FS_EmptySet, FS_CardinalityType
<1>5. Total(f) \in Nat /\ Total(f) # 0
  BY <1>4 DEF Total
<1> QED BY <1>5, SMTT(30)

-----------------------------------------------------------------------------
(* Reports and buckets.                                                    *)

\* The edges of the bucket keys.
KeyEdges == {<<k[2], k[3]>> : k \in Key}

\* A report is for a bucket of its batch.
LEMMA ReportKey ==
  ASSUME NEW b \in Batch, NEW r \in Reports[b]
  PROVE  /\ r \in EdgeReport /\ KeyOf(r) \in EdgesOf[b] /\ KeyOf(r) \in Key
         /\ KeyOf(r)[2] = r.source /\ KeyOf(r)[3] = r.target
         /\ KeyOf(r)[1] = BucketStart(r.seen)
<1>1. r \in EdgeReport
  BY InMemoryAssumption
<1>2. KeyOf(r) \in EdgesOf[b]
  BY DEF EdgesOf
<1>3. KeyOf(r) \in Key
  BY <1>2 DEF Key
<1> QED BY <1>1, <1>2, <1>3, SMTT(30) DEF KeyOf

\* Every bucket key is that of a report.
LEMMA KeyReport ==
  ASSUME NEW b \in Batch, NEW k \in EdgesOf[b]
  PROVE  k \in Key /\ \E r \in Reports[b] : KeyOf(r) = k
<1>1. k \in Key
  BY DEF Key
<1> QED BY <1>1 DEF EdgesOf

\* A bucket key: a bucket's start and two nodes.
LEMMA KeyTyped ==
  ASSUME NEW k \in Key
  PROVE  k[1] \in Int /\ k[2] \in Int /\ k[3] \in Int /\ k[1] % Minute = 0 /\ k = <<k[1], k[2], k[3]>>
<1>1. PICK b \in Batch : k \in EdgesOf[b]
  BY DEF Key
<1>2. PICK r \in Reports[b] : KeyOf(r) = k
  BY <1>1, KeyReport
<1>3. r \in EdgeReport
  BY ReportKey
<1>4. r.seen \in Int /\ r.source \in Int /\ r.target \in Int
  BY <1>3, SMTT(30) DEF EdgeReport
<1>5. BucketStart(r.seen) \in Int /\ BucketStart(r.seen) % Minute = 0
  <2>1. PICK t, m : t = r.seen /\ m = Minute /\ t \in Int /\ m \in Nat \ {0}
    BY <1>4, WindowsAssumption
  <2>2. t - (t % m) \in Int /\ (t - (t % m)) % m = 0
    BY <2>1, SMTT(30)
  <2> QED BY <2>1, <2>2 DEF BucketStart
<1>6. k[1] = BucketStart(r.seen) /\ k[2] = r.source /\ k[3] = r.target
  BY <1>2, ReportKey
<1>7. k = <<k[1], k[2], k[3]>>
  BY <1>2, SMTT(30) DEF KeyOf
<1> QED BY <1>4, <1>5, <1>6, <1>7

\* There are finitely many reports, buckets and edges.
LEMMA ReportsFinite ==
  /\ \A ks : IsFiniteSet(ReportsFor(ks))
  /\ IsFiniteSet(KeyEdges) /\ KeyEdges \subseteq Int \X Int
<1>1. PICK all : all = UNION {Reports[b] : b \in Batch}
  OBVIOUS
<1>2. IsFiniteSet(all)
  <2>1. PICK T : T = {Reports[b] : b \in Batch}
    OBVIOUS
  <2>2. PICK f : f = [b \in Batch |-> Reports[b]]
    OBVIOUS
  <2>3. f \in Surjection(Batch, T)
    BY <2>1, <2>2 DEF Surjection
  <2>4. IsFiniteSet(T)
    BY <2>3, FS_Surjection, InMemoryAssumption
  <2>5. \A U \in T : IsFiniteSet(U)
    BY <2>1, InMemoryAssumption
  <2> QED BY <1>1, <2>1, <2>4, <2>5, FS_UNION
<1>3. IsFiniteSet(Batch \X all)
  BY <1>2, FS_Product, InMemoryAssumption
<1>4. ASSUME NEW ks
      PROVE  IsFiniteSet(ReportsFor(ks))
  <2>1. ReportsFor(ks) \in SUBSET (Batch \X all)
    BY <1>1 DEF ReportsFor
  <2> QED BY <1>3, <2>1, FS_Subset
<1>5. PICK g : g = [r \in all |-> <<r.source, r.target>>]
  OBVIOUS
<1>6. g \in Surjection(all, KeyEdges)
  <2>1. ASSUME NEW r \in all
        PROVE  g[r] \in KeyEdges
    <3>1. PICK b \in Batch : r \in Reports[b]
      BY <1>1
    <3>2. KeyOf(r) \in Key /\ KeyOf(r)[2] = r.source /\ KeyOf(r)[3] = r.target
      BY <3>1, ReportKey
    <3>3. <<KeyOf(r)[2], KeyOf(r)[3]>> \in KeyEdges
      BY <3>2 DEF KeyEdges
    <3> QED BY <1>5, <3>2, <3>3
  <2>2. ASSUME NEW e \in KeyEdges
        PROVE  \E r \in all : g[r] = e
    <3>1. PICK k \in Key : e = <<k[2], k[3]>>
      BY DEF KeyEdges
    <3>2. PICK b \in Batch : k \in EdgesOf[b]
      BY <3>1 DEF Key
    <3>3. PICK r \in Reports[b] : KeyOf(r) = k
      BY <3>2, KeyReport
    <3>4. k[2] = r.source /\ k[3] = r.target
      BY <3>3, ReportKey
    <3>5. r \in all
      BY <1>1, <3>3
    <3> QED BY <1>5, <3>1, <3>4, <3>5
  <2> QED BY <1>5, <2>1, <2>2 DEF Surjection
<1>7. IsFiniteSet(KeyEdges)
  BY <1>2, <1>6, FS_Surjection
<1>8. ASSUME NEW e \in KeyEdges
      PROVE  e \in Int \X Int
  <2>1. PICK k \in Key : e = <<k[2], k[3]>>
    BY DEF KeyEdges
  <2>2. k[2] \in Int /\ k[3] \in Int
    BY KeyTyped
  <2> QED BY <2>1, <2>2
<1> QED BY <1>4, <1>7, <1>8

-----------------------------------------------------------------------------
(* The routes.                                                             *)

\* A batch is merged once into each of its buckets, if it is on record, and stays
\* until the bucket expires.
Counted ==
  /\ recorded \subseteq Batch /\ nodes \subseteq Ids
  /\ \A k \in Key, b \in Batch : merged[k][b] = 0 \/ (merged[k][b] = 1 /\ b \in recorded)
  /\ \A b \in recorded : \A k \in EdgesOf[b] : merged[k][b] = 1 \/ k[1] < now - Retention

\* _passes but for the nodes.
Matches(e, f) ==
  /\ External \in {e[1], e[2]} => f.external
  /\ \A matching \in f.tests : {e[1], e[2]} \cap matching # {}

\* What the batches known report of an edge, and what of it lies in a period.
OnRecord(known, e) == {q \in ReportsFor(Key) : q[1] \in known /\ <<q[2].source, q[2].target>> = e}
InPeriod(known, w, e) == {q \in OnRecord(known, e) : InWindow(w, KeyOf(q[2])[1])}
ConnsOf(S) == [p \in S |-> p[2].conns]

\* agg shows no more of an edge than the batches known report for the period.
AtMost(agg, known, w) ==
  \A e \in DOMAIN agg : agg[e].conns \in Nat /\ agg[e].conns <= Total(ConnsOf(InPeriod(known, w, e)))

\* What the request in progress has read, between two reads.
ReadEdges == req.kind \in {"graph", "detail"} => DOMAIN req.edges \subseteq KeyEdges
ReadBaseline ==
  req.kind = "diff" =>
    /\ req.window \in Explicit
    /\ \E b \in Explicit : ~Overlap(b, req.window) /\ AtMost(req.baseline, recorded, b)
ReadCurrent ==
  req.kind \in {"current", "baseline"} =>
    \A e \in DOMAIN req.current : e \in KeyEdges /\ Matches(e, req.filter)
ReadBefore ==
  req.kind = "baseline" =>
    \A b \in req.known : \A k \in EdgesOf[b] :
      /\ <<k[2], k[3]>> \in DOMAIN req.current
      /\ InWindow(BaselineOf(req.window), k[1]) /\ ~(k[1] < req.at - Retention)
      => /\ <<k[2], k[3]>> \in DOMAIN req.baseline
         /\ Attempts(req.baseline[<<k[2], k[3]>>]) > 0
Reads == ReadEdges /\ ReadBaseline /\ ReadCurrent /\ ReadBefore

\* What a request can be doing, and what an answer can be about.
Kinds ==
  /\ req.kind \in {"none", "graph", "detail", "diff", "current", "baseline"}
  /\ resp.kind \in {"none", "graph", "node", "edge", "diff", "anomalies"}

\* A diff shows numbers.
Numbers ==
  resp.kind = "diff" =>
    /\ \A e \in DOMAIN resp.baseline : resp.baseline[e].conns \in Nat
    /\ \A e \in DOMAIN resp.current : resp.current[e].conns \in Nat

\* What holds of the last answer.
Answers ==
  Numbers /\ MissingMeansExpired /\ GraphIsLongestPrefix /\ DiffNeverDoubleCounts /\ NewMeansUnseen

\* The inductive invariant of the routes: what they have read so far is bounded by what
\* was on record, so that the answer assembled from it is right.
QueriesInv == MemInv /\ Counted /\ Kinds /\ Reads /\ Answers

\* memory.py starts with empty tables.
LEMMA CountedInitially == MemInit => Counted
<1> SUFFICES ASSUME MemInit
             PROVE  Counted
  OBVIOUS
<1>1. recorded = {} /\ nodes = {}
  BY DEF MemInit
<1>2. \A k \in Key, b \in Batch : merged[k][b] = 0
  BY DEF MemInit, Empty
<1> QED BY <1>1, <1>2 DEF Counted

\* The gate keeps a batch from being merged again, and a purge forgets buckets, never
\* the batch ids.
LEMMA CountedKept == MemInv /\ Counted /\ [MemNext]_memVars => Counted'
<1> SUFFICES ASSUME MemInv, Counted, [MemNext]_memVars
             PROVE  Counted'
  OBVIOUS
<1>1. ASSUME NEW b \in Batch, IngestBatch(b)
      PROVE  Counted'
  <2>1. recorded' = recorded \cup {b} /\ b \notin recorded /\ now' = now
    BY <1>1 DEF IngestBatch, Gate
  <2>2. nodes' \subseteq Ids
    <3>1. ASSUME NEW r \in Reports[b]
          PROVE  r.source \in Ids /\ r.target \in Ids
      <4>1. KeyOf(r) \in Key /\ KeyOf(r)[2] = r.source /\ KeyOf(r)[3] = r.target
        BY ReportKey
      <4>2. PICK k \in Key : k = KeyOf(r)
        BY <4>1
      <4>3. k[2] \in {k[2], k[3]} /\ k[3] \in {k[2], k[3]} /\ {k[2], k[3]} \subseteq Ids
        BY DEF Ids
      <4> QED BY <4>1, <4>2, <4>3
    <3>2. UNION {{r.source, r.target} : r \in Reports[b]} \subseteq Ids
      BY <3>1
    <3>3. nodes' = nodes \cup UNION {{r.source, r.target} : r \in Reports[b]}
      BY <1>1 DEF IngestBatch
    <3> QED BY <3>2, <3>3 DEF Counted
  <2>3. ASSUME NEW k \in Key, NEW c \in Batch
        PROVE  merged'[k][c] = IF k \in EdgesOf[b] /\ c = b THEN merged[k][b] + 1 ELSE merged[k][c]
    <3>1. merged[k] \in [Batch -> Nat]
      BY DEF MemInv
    <3>2. merged'[k] = IF k \in EdgesOf[b] THEN [merged[k] EXCEPT ![b] = @ + 1] ELSE merged[k]
      BY <1>1 DEF IngestBatch
    <3> QED BY <3>1, <3>2
  <2>4. ASSUME NEW k \in Key
        PROVE  merged[k][b] = 0
    BY <2>1 DEF Counted
  <2>5. 0 + 1 = 1
    BY SMTT(30)
  <2>6. ASSUME NEW k \in Key, NEW c \in Batch
        PROVE  merged'[k][c] = 0 \/ (merged'[k][c] = 1 /\ c \in recorded')
    <3>1. CASE k \in EdgesOf[b] /\ c = b
      <4>1. merged'[k][c] = 0 + 1
        BY <2>3, <2>4, <3>1
      <4> QED BY <2>1, <2>5, <3>1, <4>1
    <3>2. CASE ~(k \in EdgesOf[b] /\ c = b)
      <4>1. merged'[k][c] = merged[k][c]
        BY <2>3, <3>2
      <4>2. merged[k][c] = 0 \/ (merged[k][c] = 1 /\ c \in recorded)
        BY DEF Counted
      <4> QED BY <2>1, <4>1, <4>2
    <3> QED BY <3>1, <3>2
  <2>7. ASSUME NEW c \in recorded', NEW k \in EdgesOf[c]
        PROVE  merged'[k][c] = 1 \/ k[1] < now' - Retention
    <3>1. c \in Batch
      BY <2>1 DEF Counted
    <3>2. k \in Key
      BY <3>1, KeyReport
    <3>3. CASE c = b
      BY <2>3, <2>4, <2>5, <3>1, <3>2, <3>3
    <3>4. CASE c # b
      <4>1. merged[k][c] = 1 \/ k[1] < now - Retention
        BY <2>1, <3>4 DEF Counted
      <4> QED BY <2>1, <2>3, <3>1, <3>2, <3>4, <4>1
    <3> QED BY <3>3, <3>4
  <2> QED BY <2>1, <2>2, <2>6, <2>7 DEF Counted
<1>2. CASE PurgeExpired
  <2> DEFINE kept == {k \in Rows : ~(k[1] < now - Retention)}
  <2>1. recorded' = recorded /\ now' = now /\ nodes' \subseteq nodes
    BY <1>2 DEF PurgeExpired
  <2>2. ASSUME NEW k \in Key
        PROVE  merged'[k] = IF k \in kept THEN merged[k] ELSE Empty
    BY <1>2 DEF PurgeExpired
  <2>3. \A c \in Batch : Empty[c] = 0
    BY DEF Empty
  <2>4. ASSUME NEW k \in Key, NEW c \in Batch
        PROVE  merged'[k][c] = 0 \/ (merged'[k][c] = 1 /\ c \in recorded')
    <3>1. merged[k][c] = 0 \/ (merged[k][c] = 1 /\ c \in recorded)
      BY DEF Counted
    <3>2. CASE k \in kept
      BY <2>1, <2>2, <3>1, <3>2
    <3>3. CASE k \notin kept
      BY <2>2, <2>3, <3>3
    <3> QED BY <3>2, <3>3
  <2>5. ASSUME NEW c \in recorded', NEW k \in EdgesOf[c]
        PROVE  merged'[k][c] = 1 \/ k[1] < now' - Retention
    <3>1. c \in Batch /\ c \in recorded
      BY <2>1 DEF Counted
    <3>2. k \in Key
      BY <3>1, KeyReport
    <3>3. merged[k][c] = 1 \/ k[1] < now - Retention
      BY <3>1 DEF Counted
    <3>4. CASE merged[k][c] = 1 /\ ~(k[1] < now - Retention)
      <4>1. 1 > 0
        BY SMTT(30)
      <4>2. k \in kept
        BY <3>1, <3>2, <3>4, <4>1 DEF Rows
      <4> QED BY <2>2, <3>2, <3>4, <4>2
    <3> QED BY <2>1, <3>3, <3>4
  <2> QED BY <2>1, <2>4, <2>5 DEF Counted
<1>3. CASE Tick
  <2>1. UNCHANGED <<recorded, nodes, merged>> /\ now' = now + 1
    BY <1>3 DEF Tick
  <2>2. ASSUME NEW k \in Key, k[1] < now - Retention
        PROVE  k[1] < now' - Retention
    <3>1. k[1] \in Int /\ now \in Int /\ Retention \in Int
      BY KeyTyped, InMemoryAssumption, SMTT(30) DEF MemInv
    <3> QED BY <2>1, <2>2, <3>1, SMTT(30)
  <2>3. \A b \in Batch : EdgesOf[b] \subseteq Key
    BY DEF Key
  <2> QED BY <2>1, <2>2, <2>3 DEF Counted
<1>4. CASE UNCHANGED memVars
  BY <1>4 DEF memVars, Counted
<1> QED BY <1>1, <1>2, <1>3, <1>4 DEF MemNext

-----------------------------------------------------------------------------
(* Reads.                                                                  *)

\* What a bucket of a recorded batch still needs is stored, unless it has expired.
LEMMA StoredOrGone ==
  ASSUME MemInv, Counted, NEW e
  PROVE  \/ {e[1], e[2]} \subseteq nodes
         \/ \A b \in recorded : \A k \in EdgesOf[b] : <<k[2], k[3]>> = e => k[1] < now - Retention
<1> SUFFICES ASSUME NEW b \in recorded, NEW k \in EdgesOf[b], <<k[2], k[3]>> = e,
                    ~(k[1] < now - Retention)
             PROVE  {e[1], e[2]} \subseteq nodes
  OBVIOUS
<1>1. b \in Batch /\ merged[k][b] = 1
  BY DEF Counted
<1>2. k \in Key
  BY <1>1, KeyReport
<1>3. 1 > 0
  BY SMTT(30)
<1>4. k \in Rows
  BY <1>1, <1>2, <1>3 DEF Rows
<1>5. {k[2], k[3]} \subseteq nodes
  BY <1>4 DEF MemInv
<1>6. e[1] = k[2] /\ e[2] = k[3]
  BY SMTT(30)
<1> QED BY <1>5, <1>6

\* The buckets query_edges sums.
Selected(w, f) == {k \in Rows : InWindow(w, k[1]) /\ Passes(<<k[2], k[3]>>, f)}
SelectedOf(w, f, e) == {k \in Selected(w, f) : <<k[2], k[3]>> = e}

\* query_edges sums, edge by edge, the buckets it selects.
LEMMA ReadIs ==
  ASSUME NEW w, NEW f
  PROVE  /\ DOMAIN QueryEdges(w, f) = {<<k[2], k[3]>> : k \in Selected(w, f)}
         /\ \A e \in DOMAIN QueryEdges(w, f) :
              /\ QueryEdges(w, f)[e].conns = Conns(SelectedOf(w, f, e))
              /\ QueryEdges(w, f)[e].failed = NotMeasured
<1>1. QueryEdges(w, f) = [e \in {<<k[2], k[3]>> : k \in Selected(w, f)} |->
                            [Nothing EXCEPT !.conns = Conns(SelectedOf(w, f, e))]]
  BY DEF QueryEdges, Selected, SelectedOf
<1>2. ASSUME NEW c
      PROVE  [Nothing EXCEPT !.conns = c].conns = c /\ [Nothing EXCEPT !.conns = c].failed = NotMeasured
  BY SMTT(30) DEF Nothing
<1>3. PICK S : S = {<<k[2], k[3]>> : k \in Selected(w, f)}
  OBVIOUS
<1>4. PICK q : q = QueryEdges(w, f)
  OBVIOUS
<1>5. DOMAIN q = S /\ \A e \in S : q[e] = [Nothing EXCEPT !.conns = Conns(SelectedOf(w, f, e))]
  BY <1>1, <1>3, <1>4
<1>6. ASSUME NEW e \in S
      PROVE  q[e].conns = Conns(SelectedOf(w, f, e)) /\ q[e].failed = NotMeasured
  <2>1. PICK c : c = Conns(SelectedOf(w, f, e))
    OBVIOUS
  <2>2. PICK a : a = [Nothing EXCEPT !.conns = c] /\ a.conns = c /\ a.failed = NotMeasured
    BY <1>2
  <2>3. q[e] = a
    BY <1>5, <2>1, <2>2
  <2> QED BY <2>1, <2>2, <2>3
<1> QED BY <1>3, <1>4, <1>5, <1>6

\* Edges read are edges of reports, and match the filter.
LEMMA ReadMatches ==
  ASSUME NEW w, NEW f, NEW e \in DOMAIN QueryEdges(w, f)
  PROVE  e \in KeyEdges /\ Matches(e, f)
<1>1. PICK k \in Selected(w, f) : e = <<k[2], k[3]>>
  <2>1. e \in {<<k[2], k[3]>> : k \in Selected(w, f)}
    BY ReadIs
  <2> QED BY <2>1
<1>2. k \in Key /\ Passes(e, f)
  BY <1>1 DEF Selected, Rows
<1> QED BY <1>1, <1>2 DEF KeyEdges, Passes, Matches

\* The terms of the sums.
LEMMA CountsReports ==
  ASSUME NEW S, NEW ks, S \subseteq ReportsFor(ks)
  PROVE  Counts(ConnsOf(S))
<1>1. IsFiniteSet(ReportsFor(ks)) /\ S \in SUBSET ReportsFor(ks)
  BY ReportsFinite
<1>2. IsFiniteSet(S)
  BY <1>1, FS_Subset
<1>3. ASSUME NEW p \in S
      PROVE  p[2].conns \in Nat
  <2>1. p[1] \in Batch /\ p[2] \in Reports[p[1]]
    BY DEF ReportsFor
  <2>2. p[2] \in EdgeReport
    BY <2>1, ReportKey
  <2> QED BY <2>2, SMTT(30) DEF EdgeReport
<1>4. DOMAIN ConnsOf(S) = S /\ \A p \in S : ConnsOf(S)[p] = p[2].conns
  BY DEF ConnsOf
<1> QED BY <1>2, <1>3, <1>4 DEF Counts

\* The connections merged into the buckets ks, report by report.
MergedConns(ks) == [p \in ReportsFor(ks) |-> merged[KeyOf(p[2])][p[1]] * p[2].conns]

\* Each report counts once if its batch is on record and the bucket still there, else not.
LEMMA CountsMerged ==
  ASSUME Counted, NEW ks, ks \subseteq Key
  PROVE  /\ Counts(MergedConns(ks)) /\ DOMAIN MergedConns(ks) = ReportsFor(ks)
         /\ \A p \in ReportsFor(ks) :
              /\ p[1] \in Batch /\ p[2] \in Reports[p[1]] /\ p[2].conns \in Nat \ {0}
              /\ \/ MergedConns(ks)[p] = 0 /\ merged[KeyOf(p[2])][p[1]] = 0
                 \/ MergedConns(ks)[p] = p[2].conns /\ merged[KeyOf(p[2])][p[1]] = 1 /\ p[1] \in recorded
<1>1. DOMAIN MergedConns(ks) = ReportsFor(ks)
  BY DEF MergedConns
<1>2. ASSUME NEW p \in ReportsFor(ks)
      PROVE  /\ p[1] \in Batch /\ p[2] \in Reports[p[1]] /\ p[2].conns \in Nat \ {0}
             /\ \/ MergedConns(ks)[p] = 0 /\ merged[KeyOf(p[2])][p[1]] = 0
                \/ MergedConns(ks)[p] = p[2].conns /\ merged[KeyOf(p[2])][p[1]] = 1 /\ p[1] \in recorded
  <2>1. p[1] \in Batch /\ p[2] \in Reports[p[1]]
    BY DEF ReportsFor
  <2>2. p[2] \in EdgeReport /\ KeyOf(p[2]) \in Key
    BY <2>1, ReportKey
  <2>3. p[2].conns \in Nat \ {0}
    BY <2>2, SMTT(30) DEF EdgeReport
  <2>4. PICK m, n : m = merged[KeyOf(p[2])][p[1]] /\ n = p[2].conns
    OBVIOUS
  <2>5. MergedConns(ks)[p] = m * n
    BY <2>4 DEF MergedConns
  <2>6. m = 0 \/ (m = 1 /\ p[1] \in recorded)
    BY <2>1, <2>2, <2>4 DEF Counted
  <2>7. 0 * n = 0 /\ 1 * n = n
    BY <2>3, <2>4, SMTT(30)
  <2> QED BY <2>1, <2>3, <2>4, <2>5, <2>6, <2>7
<1>3. \A p \in ReportsFor(ks) : MergedConns(ks)[p] \in Nat
  <2>1. 0 \in Nat
    BY SMTT(30)
  <2> QED BY <1>2, <2>1
<1>4. IsFiniteSet(ReportsFor(ks))
  BY ReportsFinite
<1> QED BY <1>1, <1>2, <1>3, <1>4 DEF Counts

\* A read of a period shows no more of an edge than is on record for the period.
LEMMA ReadAtMost ==
  ASSUME Counted, NEW w, NEW f
  PROVE  AtMost(QueryEdges(w, f), recorded, w)
<1> SUFFICES ASSUME NEW e \in DOMAIN QueryEdges(w, f)
             PROVE  /\ QueryEdges(w, f)[e].conns \in Nat
                    /\ QueryEdges(w, f)[e].conns <= Total(ConnsOf(InPeriod(recorded, w, e)))
  BY DEF AtMost
<1>1. PICK ks : ks = SelectedOf(w, f, e)
  OBVIOUS
<1>2. \A k \in ks : k \in Key /\ InWindow(w, k[1]) /\ <<k[2], k[3]>> = e
  BY <1>1 DEF SelectedOf, Selected, Rows
<1>3. PICK g, h : g = MergedConns(ks) /\ h = ConnsOf(InPeriod(recorded, w, e))
  OBVIOUS
<1>4. ks \subseteq Key
  BY <1>2
<1>5. Counts(g) /\ DOMAIN g = ReportsFor(ks)
  BY <1>3, <1>4, CountsMerged
<1>6. Counts(h) /\ DOMAIN h = InPeriod(recorded, w, e) /\ \A p \in InPeriod(recorded, w, e) : h[p] = p[2].conns
  <2>1. InPeriod(recorded, w, e) \subseteq ReportsFor(Key)
    BY DEF InPeriod, OnRecord
  <2> QED BY <1>3, <2>1, CountsReports DEF ConnsOf
<1>7. ASSUME NEW p \in DOMAIN g
      PROVE  g[p] = 0 \/ (p \in DOMAIN h /\ g[p] <= h[p])
  <2>1. /\ p[1] \in Batch /\ p[2] \in Reports[p[1]] /\ p[2].conns \in Nat \ {0}
        /\ g[p] = 0 \/ (g[p] = p[2].conns /\ p[1] \in recorded)
    BY <1>3, <1>4, <1>5, CountsMerged
  <2>2. KeyOf(p[2]) \in ks /\ p \in ReportsFor(Key)
    BY <1>4, <1>5 DEF ReportsFor
  <2>3. KeyOf(p[2])[2] = p[2].source /\ KeyOf(p[2])[3] = p[2].target
    BY <2>1, ReportKey
  <2>4. InWindow(w, KeyOf(p[2])[1]) /\ <<p[2].source, p[2].target>> = e
    BY <1>2, <2>2, <2>3
  <2>5. p[1] \in recorded => p \in InPeriod(recorded, w, e)
    BY <2>2, <2>4 DEF InPeriod, OnRecord
  <2>6. \A n \in Nat \ {0} : n <= n
    BY SMTT(30)
  <2> QED BY <1>6, <2>1, <2>5, <2>6
<1>8. Total(g) \in Nat /\ Total(g) <= Total(h)
  BY <1>5, <1>6, <1>7, TotalWithin DEF Within
<1>9. QueryEdges(w, f)[e].conns = Total(g)
  BY <1>1, <1>3, ReadIs DEF Conns, MergedConns
<1> QED BY <1>3, <1>8, <1>9

\* A read shows every edge that has an unexpired bucket in the window, and at least
\* one connection of it.
LEMMA ReadShows ==
  ASSUME MemInv, Counted, NEW w, NEW f, NEW b \in recorded, NEW k \in EdgesOf[b],
         InWindow(w, k[1]), ~(k[1] < now - Retention), Matches(<<k[2], k[3]>>, f)
  PROVE  /\ <<k[2], k[3]>> \in DOMAIN QueryEdges(w, f)
         /\ Attempts(QueryEdges(w, f)[<<k[2], k[3]>>]) > 0
<1>1. PICK e : e = <<k[2], k[3]>>
  OBVIOUS
<1>2. b \in Batch /\ merged[k][b] = 1
  BY DEF Counted
<1>3. k \in Key
  BY <1>2, KeyReport
<1>4. 1 > 0 /\ 1 # 0
  BY SMTT(30)
<1>5. k \in Rows
  BY <1>2, <1>3, <1>4 DEF Rows
<1>6. e[1] = k[2] /\ e[2] = k[3]
  BY <1>1, SMTT(30)
<1>7. {e[1], e[2]} \subseteq nodes
  BY <1>5, <1>6 DEF MemInv
<1>8. Passes(e, f)
  BY <1>1, <1>7 DEF Matches, Passes
<1>9. k \in Selected(w, f)
  BY <1>1, <1>5, <1>8 DEF Selected
<1>10. e \in DOMAIN QueryEdges(w, f)
  <2>1. e \in {<<j[2], j[3]>> : j \in Selected(w, f)}
    BY <1>1, <1>9
  <2> QED BY <2>1, ReadIs
<1>11. PICK ks : ks = SelectedOf(w, f, e)
  OBVIOUS
<1>12. k \in ks /\ ks \subseteq Key
  BY <1>1, <1>9, <1>11 DEF SelectedOf, Selected, Rows
<1>13. PICK r \in Reports[b] : KeyOf(r) = k
  BY <1>2, KeyReport
<1>14. PICK p : p = <<b, r>>
  OBVIOUS
<1>15. p[1] = b /\ p[2] = r
  BY <1>14
<1>16. p \in ReportsFor(ks)
  BY <1>2, <1>12, <1>13, <1>14, <1>15 DEF ReportsFor
<1>17. PICK g : g = MergedConns(ks)
  OBVIOUS
<1>18. Counts(g) /\ p \in DOMAIN g /\ g[p] # 0
  <2>1. Counts(g) /\ DOMAIN g = ReportsFor(ks)
    BY <1>12, <1>17, CountsMerged
  <2>2. /\ p[2].conns \in Nat \ {0}
        /\ \/ g[p] = 0 /\ merged[KeyOf(p[2])][p[1]] = 0
           \/ g[p] = p[2].conns
    BY <1>12, <1>16, <1>17, CountsMerged
  <2>3. merged[KeyOf(p[2])][p[1]] = 1
    BY <1>2, <1>13, <1>15
  <2> QED BY <1>4, <1>16, <2>1, <2>2, <2>3
<1>19. Total(g) \in Nat /\ Total(g) > 0
  BY <1>18, TotalPositive
<1>20. PICK a : a = QueryEdges(w, f)[e]
  OBVIOUS
<1>21. a.conns = Total(g) /\ a.failed = NotMeasured
  <2>1. a.conns = Conns(ks) /\ a.failed = NotMeasured
    BY <1>10, <1>11, <1>20, ReadIs
  <2>2. Conns(ks) = Total(g)
    BY <1>17 DEF Conns, MergedConns
  <2> QED BY <2>1, <2>2
<1>22. Attempts(a) = Total(g) + 0
  BY <1>21 DEF Attempts, Failures
<1>23. Attempts(a) > 0
  BY <1>19, <1>22, SMTT(30)
<1> QED BY <1>1, <1>10, <1>20, <1>23

-----------------------------------------------------------------------------
(* Truncation.                                                             *)

\* A nonempty set of natural numbers has a least element.
LEMMA Least ==
  ASSUME NEW S, S \subseteq Nat, S # {}
  PROVE  \E i \in S : \A j \in S : i <= j
<1>1. PICK i \in S : \A j \in S : <<j, i>> \notin OpToRel(<, Nat)
  BY WFMin, NatLessThanWellFounded
<1>2. ASSUME NEW j \in S
      PROVE  i <= j
  <2>1. i \in Nat /\ j \in Nat /\ <<j, i>> \notin OpToRel(<, Nat)
    BY <1>1
  <2> QED BY <2>1, SMTT(30) DEF OpToRel
<1> QED BY <1>2

\* The first n of a sequence, and the first of those.
LEMMA PrefixOf ==
  ASSUME NEW T, NEW s \in Seq(T), NEW n \in 0..Len(s)
  PROVE  /\ Prefix(s, n) \in Seq(T) /\ Len(Prefix(s, n)) = n /\ n \in Nat
         /\ \A i \in 1..n : Prefix(s, n)[i] = s[i] /\ s[i] \in T
         /\ \A m \in 0..n : m \in 0..Len(s) /\ Prefix(Prefix(s, n), m) = Prefix(s, m)
BY SMTT(30) DEF Prefix

\* The nodes of the first edges.
LEMMA NodesOfPrefix ==
  ASSUME NEW T, NEW s \in Seq(T), NEW n \in 0..Len(s)
  PROVE  /\ EdgeNodes(Prefix(s, n)) = UNION {{s[i][1], s[i][2]} : i \in 1..n}
         /\ IsFiniteSet(EdgeNodes(Prefix(s, n)))
<1>1. EdgeNodes(Prefix(s, n)) = UNION {{s[i][1], s[i][2]} : i \in 1..n}
  <2>1. PICK t : t = Prefix(s, n)
    OBVIOUS
  <2>2. Len(t) = n /\ \A i \in 1..n : t[i] = s[i]
    <3>1. Len(Prefix(s, n)) = n /\ \A i \in 1..n : Prefix(s, n)[i] = s[i]
      BY PrefixOf, SMTT(30)
    <3> QED BY <2>1, <3>1
  <2>3. {{t[i][1], t[i][2]} : i \in 1..n} = {{s[i][1], s[i][2]} : i \in 1..n}
    BY <2>2
  <2>4. EdgeNodes(t) = UNION {{t[i][1], t[i][2]} : i \in 1..n}
    BY <2>2 DEF EdgeNodes
  <2> QED BY <2>1, <2>3, <2>4
<1>2. PICK F : F = {{s[i][1], s[i][2]} : i \in 1..n}
  OBVIOUS
<1>3. PICK g : g = [i \in 1..n |-> {s[i][1], s[i][2]}]
  OBVIOUS
<1>4. g \in Surjection(1..n, F)
  BY <1>2, <1>3 DEF Surjection
<1>5. IsFiniteSet(1..n)
  <2>1. 1 \in Int /\ n \in Int
    BY PrefixOf, SMTT(30)
  <2> QED BY <2>1, FS_Interval
<1>6. IsFiniteSet(F)
  BY <1>4, <1>5, FS_Surjection
<1>7. \A x, y : IsFiniteSet({x, y})
  <2>1. ASSUME NEW x, NEW y
        PROVE  IsFiniteSet({x, y})
    <3>1. IsFiniteSet({x}) /\ {x, y} = {x} \cup {y}
      BY FS_Singleton
    <3> QED BY <3>1, FS_AddElement
  <2> QED BY <2>1
<1>8. \A U \in F : IsFiniteSet(U)
  BY <1>2, <1>7
<1>9. IsFiniteSet(UNION F)
  BY <1>6, <1>8, FS_UNION
<1> QED BY <1>1, <1>2, <1>9

\* How many nodes the first n edges have.
NodeCount(s, n) == Cardinality(EdgeNodes(Prefix(s, n)))

\* More edges have no fewer nodes.
LEMMA NodeCountGrows ==
  ASSUME NEW T, NEW s \in Seq(T), NEW m \in 0..Len(s), NEW n \in 0..Len(s), m <= n
  PROVE  NodeCount(s, m) \in Nat /\ NodeCount(s, n) \in Nat /\ NodeCount(s, m) <= NodeCount(s, n)
<1>1. PICK A, B : A = EdgeNodes(Prefix(s, m)) /\ B = EdgeNodes(Prefix(s, n))
  OBVIOUS
<1>2. IsFiniteSet(A) /\ IsFiniteSet(B)
  BY <1>1, NodesOfPrefix
<1>3. A \in SUBSET B
  <2>1. \A i \in 1..m : i \in 1..n
    BY SMTT(30)
  <2>2. A = UNION {{s[i][1], s[i][2]} : i \in 1..m} /\ B = UNION {{s[i][1], s[i][2]} : i \in 1..n}
    BY <1>1, NodesOfPrefix
  <2> QED BY <2>1, <2>2
<1> QED BY <1>1, <1>2, <1>3, FS_Subset, FS_CardinalityType DEF NodeCount

\* The lengths of the prefixes that respect both caps.
Fits(s) == {n \in 0..Len(s) : n <= MaxEdges /\ Cardinality(EdgeNodes(Prefix(s, n))) <= MaxNodes}

\* _truncate keeps the longest prefix that respects both caps.
LEMMA TruncateLongest ==
  ASSUME NEW T, NEW s \in Seq(T)
  PROVE  \E n \in Fits(s) : Truncate(s) = Prefix(s, n) /\ \A m \in Fits(s) : m <= n
<1> USE RulesAssumption
<1>1. PICK L : L = IF Len(s) > MaxEdges THEN MaxEdges ELSE Len(s)
  OBVIOUS
<1>2. /\ L \in 0..Len(s) /\ L \in Nat /\ L <= MaxEdges
      /\ \A n \in 0..Len(s) : n <= MaxEdges <=> n \in 0..L
  BY <1>1, SMTT(30)
<1>3. PICK c : c = Prefix(s, L)
  OBVIOUS
<1>4. c = IF Len(s) > MaxEdges THEN Prefix(s, MaxEdges) ELSE s
  <2>1. Prefix(s, Len(s)) = s
    BY SMTT(30) DEF Prefix
  <2> QED BY <1>1, <1>3, <2>1
<1>5. Len(c) = L /\ \A n \in 0..L : n \in 0..Len(s) /\ Prefix(c, n) = Prefix(s, n)
  BY <1>2, <1>3, PrefixOf
<1>6. PICK over : over = {i \in 1..Len(c) : Cardinality(EdgeNodes(Prefix(c, i))) > MaxNodes}
  OBVIOUS
<1>7. ASSUME NEW i
      PROVE  i \in over <=> i \in 1..L /\ NodeCount(s, i) > MaxNodes
  <2>1. \A n \in 1..L : n \in 0..L
    BY <1>2, SMTT(30)
  <2> QED BY <1>5, <1>6, <2>1 DEF NodeCount
<1>8. ASSUME NEW i
      PROVE  i \in Fits(s) <=> i \in 0..L /\ NodeCount(s, i) <= MaxNodes
  BY <1>2, <1>5 DEF Fits, NodeCount
<1>9. NodeCount(s, 0) = 0
  <2>1. 0 \in 0..Len(s) /\ 1..0 = {}
    BY SMTT(30)
  <2>2. EdgeNodes(Prefix(s, 0)) = UNION {{s[i][1], s[i][2]} : i \in 1..0}
    BY <2>1, NodesOfPrefix
  <2>3. EdgeNodes(Prefix(s, 0)) = {}
    BY <2>1, <2>2
  <2> QED BY <2>3, FS_EmptySet DEF NodeCount
<1>10. \A i \in 0..L : NodeCount(s, i) \in Nat
  <2>1. \A i \in 0..L : i <= i
    BY <1>2, SMTT(30)
  <2> QED BY <1>5, <2>1, NodeCountGrows
<1>11. CASE over = {}
  <2>1. NodeCut(c) = L
    BY <1>5, <1>6, <1>11 DEF NodeCut
  <2>2. L \in 0..L /\ (L = 0 \/ L \in 1..L)
    BY <1>2, SMTT(30)
  <2>3. NodeCount(s, L) <= MaxNodes
    <3>1. CASE L = 0
      <4>1. 0 <= MaxNodes
        BY SMTT(30)
      <4> QED BY <1>9, <3>1, <4>1
    <3>2. CASE L \in 1..L
      <4>1. ~(NodeCount(s, L) > MaxNodes)
        BY <1>7, <1>11, <3>2
      <4> QED BY <1>10, <2>2, <4>1, SMTT(30)
    <3> QED BY <2>2, <3>1, <3>2
  <2>4. L \in Fits(s)
    BY <1>8, <2>2, <2>3
  <2>5. \A m \in Fits(s) : m <= L
    <3>1. \A m \in 0..L : m <= L
      BY <1>2, SMTT(30)
    <3> QED BY <1>8, <3>1
  <2>6. Truncate(s) = Prefix(s, L)
    <3>1. Truncate(s) = Prefix(c, NodeCut(c))
      BY <1>4 DEF Truncate
    <3> QED BY <1>5, <2>1, <2>2, <3>1
  <2> QED BY <2>4, <2>5, <2>6
<1>12. CASE over # {}
  <2>1. over \subseteq Nat
    <3>1. 1..L \subseteq Nat
      BY <1>2, SMTT(30)
    <3> QED BY <1>7, <3>1
  <2>2. \E i \in over : \A j \in over : i <= j
    BY <1>12, <2>1, Least
  <2>3. PICK i : i = CHOOSE h \in over : \A j \in over : h <= j
    OBVIOUS
  <2>4. i \in over /\ \A j \in over : i <= j
    BY <2>2, <2>3
  <2>5. PICK n : n = i - 1
    OBVIOUS
  <2>6. i \in 1..L /\ NodeCount(s, i) > MaxNodes
    BY <1>7, <2>4
  <2>7. n \in 0..L /\ (n = 0 \/ (n \in 1..L /\ ~(i <= n)))
    BY <1>2, <2>5, <2>6, SMTT(30)
  <2>8. NodeCount(s, n) <= MaxNodes
    <3>1. CASE n = 0
      <4>1. 0 <= MaxNodes
        BY SMTT(30)
      <4> QED BY <1>9, <3>1, <4>1
    <3>2. CASE n \in 1..L /\ ~(i <= n)
      <4>1. ~(NodeCount(s, n) > MaxNodes)
        BY <1>7, <2>4, <3>2
      <4> QED BY <1>10, <2>7, <4>1, SMTT(30)
    <3> QED BY <2>7, <3>1, <3>2
  <2>9. ASSUME NEW m \in Fits(s)
        PROVE  m <= n
    <3>1. m \in 0..L /\ NodeCount(s, m) <= MaxNodes
      BY <1>8
    <3>2. CASE i <= m
      <4>1. i \in 0..L
        BY <1>2, <2>6, SMTT(30)
      <4>2. i \in 0..Len(s) /\ m \in 0..Len(s)
        BY <1>5, <3>1, <4>1
      <4>3. NodeCount(s, i) <= NodeCount(s, m)
        BY <3>2, <4>2, NodeCountGrows
      <4>4. NodeCount(s, i) \in Nat /\ NodeCount(s, m) \in Nat
        BY <1>10, <3>1, <4>1
      <4> QED BY <2>6, <3>1, <4>3, <4>4, SMTT(30)
    <3>3. CASE ~(i <= m)
      BY <1>2, <2>5, <2>6, <3>1, <3>3, SMTT(30)
    <3> QED BY <3>2, <3>3
  <2>10. NodeCut(c) = n
    BY <1>6, <1>12, <2>3, <2>5 DEF NodeCut
  <2>11. Truncate(s) = Prefix(s, n)
    <3>1. Truncate(s) = Prefix(c, NodeCut(c))
      BY <1>4 DEF Truncate
    <3> QED BY <1>5, <2>7, <2>10, <3>1
  <2>12. n \in Fits(s)
    BY <1>8, <2>7, <2>8
  <2> QED BY <2>9, <2>11, <2>12
<1> QED BY <1>11, <1>12

-----------------------------------------------------------------------------
(* detect.                                                                 *)

\* detect finds anomalies of the known types on current edges, and calls an edge new
\* only if the baseline had no attempt on it.
LEMMA DetectOf ==
  ASSUME NEW current, NEW baseline, NEW canaries,
         IsFiniteSet(DOMAIN current), DOMAIN current \subseteq Int \X Int
  PROVE  /\ IsFiniteSet(Detect(current, baseline, canaries))
         /\ Detect(current, baseline, canaries) \subseteq (Int \X Int) \X Types
         /\ \A a \in Detect(current, baseline, canaries) :
              /\ a[1] \in DOMAIN current
              /\ a[2] \in {"NEW_EDGE", "NEW_EXTERNAL_EGRESS"} =>
                   ~(a[1] \in DOMAIN baseline /\ Attempts(baseline[a[1]]) > 0)
<1>1. ASSUME NEW a \in Detect(current, baseline, canaries)
      PROVE  /\ a \in (DOMAIN current) \X Types /\ a[1] \in DOMAIN current
             /\ a[2] \in {"NEW_EDGE", "NEW_EXTERNAL_EGRESS"} =>
                  ~(a[1] \in DOMAIN baseline /\ Attempts(baseline[a[1]]) > 0)
  <2> DEFINE before == {e \in DOMAIN baseline : Attempts(baseline[e]) > 0}
             was(e) == IF e \in before THEN baseline[e] ELSE Nothing
             canary(e) == IF e[2] \in canaries THEN {"CANARY_CONTACT"} ELSE {}
             new(e) == IF e \notin before /\ before # {}
                       THEN {IF e[2] = External THEN "NEW_EXTERNAL_EGRESS" ELSE "NEW_EDGE"} ELSE {}
             spike(e) == IF FailureSpike(current[e], e \in before, was(e)) THEN {"FAILURE_SPIKE"} ELSE {}
             slow(e) == IF SlowSetup(current[e], e \in before, was(e)) THEN {"SLOW_SETUP"} ELSE {}
             fires(e) == canary(e) \cup new(e) \cup spike(e) \cup slow(e)
  <2>1. PICK e \in DOMAIN current : \E t \in fires(e) : a = <<e, t>>
    <3>1. a \in UNION {{<<e, t>> : t \in fires(e)} :
                         e \in {x \in DOMAIN current : Attempts(current[x]) > 0}}
      BY DEF Detect
    <3> HIDE DEF fires
    <3> QED BY <3>1
  <2>2. PICK t \in fires(e) : a = <<e, t>>
    BY <2>1
  <2>3. t \in Types
    BY DEF Types
  <2>4. t \in {"NEW_EDGE", "NEW_EXTERNAL_EGRESS"} => e \notin before
    <3>1. t \in canary(e) => t = "CANARY_CONTACT"
      OBVIOUS
    <3>2. t \in spike(e) => t = "FAILURE_SPIKE"
      OBVIOUS
    <3>3. t \in slow(e) => t = "SLOW_SETUP"
      OBVIOUS
    <3>4. t \in new(e) => e \notin before
      OBVIOUS
    <3> QED BY <3>1, <3>2, <3>3, <3>4
  <2>5. a[1] = e /\ a[2] = t
    BY <2>2
  <2> QED BY <2>2, <2>3, <2>4, <2>5
<1>2. IsFiniteSet((DOMAIN current) \X Types)
  <2>1. IsFiniteSet(Types)
    <3>1. IsFiniteSet({"CANARY_CONTACT"})
      BY FS_Singleton
    <3>2. IsFiniteSet({"CANARY_CONTACT"} \cup {"NEW_EXTERNAL_EGRESS"})
      BY <3>1, FS_AddElement
    <3>3. IsFiniteSet({"CANARY_CONTACT"} \cup {"NEW_EXTERNAL_EGRESS"} \cup {"NEW_EDGE"})
      BY <3>2, FS_AddElement
    <3>4. IsFiniteSet({"CANARY_CONTACT"} \cup {"NEW_EXTERNAL_EGRESS"} \cup {"NEW_EDGE"}
                        \cup {"FAILURE_SPIKE"})
      BY <3>3, FS_AddElement
    <3>5. IsFiniteSet({"CANARY_CONTACT"} \cup {"NEW_EXTERNAL_EGRESS"} \cup {"NEW_EDGE"}
                        \cup {"FAILURE_SPIKE"} \cup {"SLOW_SETUP"})
      BY <3>4, FS_AddElement
    <3>6. Types = {"CANARY_CONTACT"} \cup {"NEW_EXTERNAL_EGRESS"} \cup {"NEW_EDGE"}
                    \cup {"FAILURE_SPIKE"} \cup {"SLOW_SETUP"}
      BY DEF Types
    <3> QED BY <3>5, <3>6
  <2> QED BY <2>1, FS_Product
<1>3. Detect(current, baseline, canaries) \in SUBSET ((DOMAIN current) \X Types)
  BY <1>1
<1>4. IsFiniteSet(Detect(current, baseline, canaries))
  BY <1>2, <1>3, FS_Subset
<1>5. (DOMAIN current) \X Types \subseteq (Int \X Int) \X Types
  OBVIOUS
<1> QED BY <1>1, <1>3, <1>4, <1>5

-----------------------------------------------------------------------------
(* Steps.                                                                  *)

\* Of more reports, no fewer connections.
LEMMA ConnsGrow ==
  ASSUME NEW A, NEW B, A \subseteq B, B \subseteq ReportsFor(Key)
  PROVE  /\ Total(ConnsOf(A)) \in Nat /\ Total(ConnsOf(B)) \in Nat
         /\ Total(ConnsOf(A)) <= Total(ConnsOf(B))
<1>1. PICK g, f : g = ConnsOf(A) /\ f = ConnsOf(B)
  OBVIOUS
<1>2. A \subseteq ReportsFor(Key)
  OBVIOUS
<1>3. Counts(g) /\ Counts(f)
  BY <1>1, <1>2, CountsReports
<1>4. DOMAIN g = A /\ DOMAIN f = B /\ \A p \in A : g[p] = f[p]
  BY <1>1 DEF ConnsOf
<1>5. \A n \in Nat : n <= n
  BY SMTT(30)
<1>6. Within(g, f)
  BY <1>3, <1>4, <1>5 DEF Within, Counts
<1> QED BY <1>1, <1>3, <1>6, TotalWithin

\* A read stays true when batches arrive.
LEMMA AtMostKept ==
  ASSUME NEW agg, NEW w, NEW known, NEW more, known \subseteq more, AtMost(agg, known, w)
  PROVE  AtMost(agg, more, w)
<1> SUFFICES ASSUME NEW e \in DOMAIN agg
             PROVE  agg[e].conns \in Nat /\ agg[e].conns <= Total(ConnsOf(InPeriod(more, w, e)))
  BY DEF AtMost
<1>1. PICK A, B : A = InPeriod(known, w, e) /\ B = InPeriod(more, w, e)
  OBVIOUS
<1>2. A \subseteq B /\ B \subseteq ReportsFor(Key)
  BY <1>1 DEF InPeriod, OnRecord
<1>3. /\ Total(ConnsOf(A)) \in Nat /\ Total(ConnsOf(B)) \in Nat
      /\ Total(ConnsOf(A)) <= Total(ConnsOf(B))
  BY <1>2, ConnsGrow
<1>4. agg[e].conns \in Nat /\ agg[e].conns <= Total(ConnsOf(A))
  BY <1>1 DEF AtMost
<1>5. agg[e].conns <= Total(ConnsOf(B))
  BY <1>3, <1>4, SMTT(30)
<1> QED BY <1>1, <1>4, <1>5

\* What two periods that do not overlap show of an edge was reported.
LEMMA TwoPeriods ==
  ASSUME NEW b \in Explicit, NEW c \in Explicit, ~Overlap(b, c), NEW known, NEW e
  PROVE  /\ Total(ConnsOf(InPeriod(known, b, e))) \in Nat
         /\ Total(ConnsOf(InPeriod(known, c, e))) \in Nat
         /\ Total(ConnsOf(OnRecord(known, e))) \in Nat
         /\ Total(ConnsOf(InPeriod(known, b, e))) + Total(ConnsOf(InPeriod(known, c, e)))
              <= Total(ConnsOf(OnRecord(known, e)))
<1>1. PICK A, B, C : /\ A = OnRecord(known, e)
                     /\ B = InPeriod(known, b, e) /\ C = InPeriod(known, c, e)
  OBVIOUS
<1>2. A \subseteq ReportsFor(Key) /\ B \subseteq A /\ C \subseteq A
  BY <1>1 DEF InPeriod, OnRecord
<1>3. B \cap C = {}
  <2> SUFFICES ASSUME NEW p \in B, p \in C
               PROVE  FALSE
    OBVIOUS
  <2>1. PICK k : k = KeyOf(p[2])
    OBVIOUS
  <2>2. InWindow(b, k[1]) /\ InWindow(c, k[1]) /\ k \in Key
    BY <1>1, <1>2, <2>1 DEF InPeriod, ReportsFor
  <2>3. k[1] \in Int
    BY <2>2, KeyTyped
  <2>4. b.start \in Int /\ b.end \in Int /\ c.start \in Int /\ c.end \in Int
    <3>1. b \in Window /\ c \in Window
      BY QueriesAssumption DEF Explicit
    <3> QED BY <3>1 DEF Window
  <2> QED BY <2>2, <2>3, <2>4, SMTT(30) DEF InWindow, Overlap
<1>4. PICK f, g, h : f = ConnsOf(A) /\ g = ConnsOf(B) /\ h = ConnsOf(C)
  OBVIOUS
<1>5. B \subseteq ReportsFor(Key) /\ C \subseteq ReportsFor(Key)
  BY <1>2
<1>6. Counts(f) /\ Counts(g) /\ Counts(h)
  BY <1>2, <1>4, <1>5, CountsReports
<1>7. /\ DOMAIN f = A /\ DOMAIN g = B /\ DOMAIN h = C
      /\ \A p \in B : g[p] = f[p]
      /\ \A p \in C : h[p] = f[p]
  BY <1>2, <1>4 DEF ConnsOf
<1>8. \A n \in Nat : n <= n
  BY SMTT(30)
<1>9. Within(g, f) /\ Within(h, f)
  BY <1>2, <1>6, <1>7, <1>8 DEF Within, Counts
<1>10. Total(g) + Total(h) <= Total(f)
  BY <1>3, <1>6, <1>7, <1>9, TotalTwo
<1>11. Total(g) \in Nat /\ Total(h) \in Nat /\ Total(f) \in Nat
  BY <1>6, <1>9, TotalWithin
<1> QED BY <1>1, <1>4, <1>10, <1>11

\* Batch ids are never forgotten.
LEMMA RecordedGrows == MemNext => recorded \subseteq recorded'
<1>1. ASSUME NEW b \in Batch, IngestBatch(b)
      PROVE  recorded \subseteq recorded'
  BY <1>1 DEF IngestBatch
<1>2. CASE PurgeExpired
  BY <1>2 DEF PurgeExpired
<1>3. CASE Tick
  BY <1>3 DEF Tick
<1> QED BY <1>1, <1>2, <1>3 DEF MemNext

\* The answers stay true: they are about what was read.
LEMMA AnswersKept ==
  ASSUME Answers, recorded \subseteq recorded', resp' = resp
  PROVE  Answers'
<1>1. Numbers' /\ MissingMeansExpired'
  BY DEF Answers, Numbers, MissingMeansExpired, Gone
<1>2. GraphIsLongestPrefix'
  BY DEF Answers, GraphIsLongestPrefix
<1>3. NewMeansUnseen'
  BY DEF Answers, NewMeansUnseen
<1>4. ASSUME resp.kind = "diff", NEW e \in DOMAIN resp.baseline \cup DOMAIN resp.current
      PROVE  (IF e \in DOMAIN resp.baseline THEN resp.baseline[e].conns ELSE 0)
               + (IF e \in DOMAIN resp.current THEN resp.current[e].conns ELSE 0)
             <= Total(ConnsOf(OnRecord(recorded', e)))
  <2>1. PICK x, y : /\ x = IF e \in DOMAIN resp.baseline THEN resp.baseline[e].conns ELSE 0
                    /\ y = IF e \in DOMAIN resp.current THEN resp.current[e].conns ELSE 0
    OBVIOUS
  <2>2. x \in Nat /\ y \in Nat
    <3>1. 0 \in Nat
      BY SMTT(30)
    <3> QED BY <1>4, <2>1, <3>1 DEF Answers, Numbers
  <2>3. x + y <= Total(ConnsOf(OnRecord(recorded, e)))
    BY <1>4, <2>1 DEF Answers, DiffNeverDoubleCounts, Ingested, OnRecord, ConnsOf
  <2>4. PICK A, B : A = OnRecord(recorded, e) /\ B = OnRecord(recorded', e)
    OBVIOUS
  <2>5. A \subseteq B /\ B \subseteq ReportsFor(Key)
    BY <2>4 DEF OnRecord
  <2>6. /\ Total(ConnsOf(A)) \in Nat /\ Total(ConnsOf(B)) \in Nat
        /\ Total(ConnsOf(A)) <= Total(ConnsOf(B))
    BY <2>5, ConnsGrow
  <2>7. x + y <= Total(ConnsOf(B))
    <3>1. x + y <= Total(ConnsOf(A))
      BY <2>3, <2>4
    <3> QED BY <2>2, <2>6, <3>1, SMTT(30)
  <2> QED BY <2>1, <2>4, <2>7
<1>5. DiffNeverDoubleCounts'
  BY <1>4 DEF DiffNeverDoubleCounts, Ingested, OnRecord, ConnsOf
<1> QED BY <1>1, <1>2, <1>3, <1>5 DEF Answers

\* So do the reads of a request.
LEMMA ReadsKept ==
  ASSUME Reads, recorded \subseteq recorded', req' = req
  PROVE  Reads'
<1>1. ReadEdges' /\ ReadCurrent' /\ ReadBefore'
  BY DEF Reads, ReadEdges, ReadCurrent, ReadBefore
<1>2. ASSUME req.kind = "diff"
      PROVE  /\ req.window \in Explicit
             /\ \E b \in Explicit : ~Overlap(b, req.window) /\ AtMost(req.baseline, recorded', b)
  <2>1. PICK b \in Explicit : ~Overlap(b, req.window) /\ AtMost(req.baseline, recorded, b)
    BY <1>2 DEF Reads, ReadBaseline
  <2>2. AtMost(req.baseline, recorded', b)
    BY <2>1, AtMostKept
  <2> QED BY <1>2, <2>1, <2>2 DEF Reads, ReadBaseline
<1>3. ReadBaseline'
  BY <1>2 DEF ReadBaseline
<1> QED BY <1>1, <1>3 DEF Reads

\* A handler changes nothing in storage.
LEMMA StorageKept ==
  ASSUME QueriesInv, UNCHANGED memVars
  PROVE  MemInv' /\ Counted' /\ recorded' = recorded
BY InvKept, CountedKept DEF QueriesInv, memVars

\* A request begins: the answers stay.
LEMMA BeginKept ==
  ASSUME QueriesInv, UNCHANGED memVars, resp' = resp, Reads',
         req'.kind \in {"none", "graph", "detail", "diff", "current", "baseline"}
  PROVE  QueriesInv'
<1>1. MemInv' /\ Counted' /\ recorded' = recorded
  BY StorageKept
<1>2. Answers'
  BY <1>1, AnswersKept DEF QueriesInv
<1>3. Kinds'
  BY DEF QueriesInv, Kinds
<1> QED BY <1>1, <1>2, <1>3 DEF QueriesInv

\* A request ends: it holds nothing it has read.
LEMMA EndKept ==
  ASSUME QueriesInv, UNCHANGED memVars, req' = None, Answers',
         resp'.kind \in {"none", "graph", "node", "edge", "diff", "anomalies"}
  PROVE  QueriesInv'
<1>1. MemInv' /\ Counted'
  BY StorageKept
<1>2. req'.kind = "none"
  BY DEF None
<1>3. Reads'
  BY <1>2 DEF Reads, ReadEdges, ReadBaseline, ReadCurrent, ReadBefore
<1>4. Kinds'
  BY <1>2 DEF Kinds
<1> QED BY <1>1, <1>3, <1>4 DEF QueriesInv

\* get_graph and the details read the edges.
LEMMA EdgesRead ==
  ASSUME QueriesInv, UNCHANGED memVars, resp' = resp, NEW w, NEW f, NEW kind \in {"graph", "detail"},
         req' = [kind |-> kind, edges |-> QueryEdges(w, f)]
  PROVE  QueriesInv'
<1>1. req'.kind = kind /\ req'.edges = QueryEdges(w, f)
  OBVIOUS
<1>2. DOMAIN QueryEdges(w, f) \subseteq KeyEdges
  BY ReadMatches
<1>3. ReadEdges'
  BY <1>1, <1>2 DEF ReadEdges
<1>4. ReadBaseline' /\ ReadCurrent' /\ ReadBefore'
  BY <1>1 DEF ReadBaseline, ReadCurrent, ReadBefore
<1>5. Reads'
  BY <1>3, <1>4 DEF Reads
<1> QED BY <1>1, <1>5, BeginKept

\* get_graph assembles the response from a later read of the nodes.
LEMMA GraphKept ==
  ASSUME QueriesInv, GraphNodes
  PROVE  QueriesInv'
<1>1. PICK all, at, known, graph, stored :
        /\ all = DOMAIN req.edges /\ at = now /\ known = recorded /\ stored = NodesFor(Ends(req.edges))
        /\ graph = Assemble(all, stored)
  OBVIOUS
<1>2. resp' = [kind |-> "graph", at |-> at, known |-> known, all |-> all, graph |-> graph]
  BY <1>1 DEF GraphNodes
<1>3. resp'.kind = "graph" /\ resp'.at = at /\ resp'.known = known /\ resp'.all = all /\ resp'.graph = graph
  BY <1>2
<1>4. all \subseteq KeyEdges
  BY <1>1 DEF GraphNodes, QueriesInv, Reads, ReadEdges
<1>5. IsFiniteSet(all) /\ all \subseteq Int \X Int
  <2>1. all \in SUBSET KeyEdges /\ IsFiniteSet(KeyEdges) /\ KeyEdges \subseteq Int \X Int
    BY <1>4, ReportsFinite
  <2> QED BY <2>1, FS_Subset
<1>6. PICK s : s = Sorted(all)
  OBVIOUS
<1>7. Lists(s, all)
  BY <1>5, <1>6, SortedLists
<1>8. s \in Seq(all) /\ Len(s) = Cardinality(all)
  <2>1. PICK n : n = Cardinality(all) /\ n \in Nat
    BY <1>5, FS_CardinalityType
  <2>2. s = [i \in 1..n |-> s[i]] /\ \A i \in 1..n : s[i] \in all
    BY <1>7, <2>1 DEF Lists
  <2>3. s \in Seq(all) /\ Len(s) = n
    BY <2>1, <2>2, SMTT(30)
  <2> QED BY <2>1, <2>3
<1>9. PICK n \in Fits(s) : Truncate(s) = Prefix(s, n) /\ \A m \in Fits(s) : m <= n
  BY <1>8, TruncateLongest
<1>10. n \in 0..Len(s)
  BY DEF Fits
<1>11. PICK kept : kept = Prefix(s, n)
  OBVIOUS
<1>12. Len(kept) = n /\ \A i \in 1..n : kept[i] \in all
  <2>1. Len(Prefix(s, n)) = n /\ \A i \in 1..n : Prefix(s, n)[i] = s[i] /\ s[i] \in all
    BY <1>8, <1>10, PrefixOf
  <2> QED BY <1>11, <2>1
<1>13. graph = [edges |-> kept, nodes |-> EdgeNodes(kept) \cap stored,
                truncated |-> Len(kept) < Cardinality(all)]
  BY <1>1, <1>6, <1>9, <1>11 DEF Assemble
<1>14. /\ graph.edges = kept /\ graph.nodes = EdgeNodes(kept) \cap stored
       /\ graph.truncated = (Len(kept) < Len(s))
  BY <1>8, <1>13
<1>15. MissingMeansExpired'
  <2>1. ASSUME NEW i \in 1..Len(kept)
        PROVE  \/ {kept[i][1], kept[i][2]} \subseteq graph.nodes
               \/ \A b \in known : \A k \in EdgesOf[b] :
                    <<k[2], k[3]>> = kept[i] => k[1] < at - Retention
    <3>1. PICK e : e = kept[i]
      OBVIOUS
    <3>2. e \in all
      BY <1>12, <3>1
    <3>3. {e[1], e[2]} \subseteq EdgeNodes(kept)
      BY <3>1 DEF EdgeNodes
    <3>4. {e[1], e[2]} \subseteq Ends(req.edges)
      BY <1>1, <3>2 DEF Ends
    <3>5. {e[1], e[2]} \subseteq nodes => {e[1], e[2]} \subseteq graph.nodes
      BY <1>1, <1>14, <3>3, <3>4 DEF NodesFor
    <3>6. \/ {e[1], e[2]} \subseteq nodes
          \/ \A b \in recorded : \A k \in EdgesOf[b] : <<k[2], k[3]>> = e => k[1] < now - Retention
      BY StoredOrGone DEF QueriesInv
    <3> QED BY <1>1, <3>1, <3>5, <3>6
  <2> QED BY <1>3, <1>14, <2>1 DEF MissingMeansExpired, Gone
<1>16. GraphIsLongestPrefix'
  <2>1. PICK m : m = CHOOSE l \in Fits(s) : \A j \in Fits(s) : j <= l
    OBVIOUS
  <2>2. m \in Fits(s) /\ \A l \in Fits(s) : l <= m
    BY <1>9, <2>1
  <2>3. m = n
    <3>1. m \in 0..Len(s) /\ m <= n /\ n <= m
      BY <1>9, <2>2 DEF Fits
    <3> QED BY <1>8, <1>10, <3>1, SMTT(30)
  <2>4. graph.edges = Prefix(s, CHOOSE l \in Fits(s) : \A j \in Fits(s) : j <= l)
    BY <1>11, <1>14, <2>1, <2>3
  <2>5. graph.truncated <=> Len(graph.edges) < Len(s)
    BY <1>14
  <2> QED BY <1>3, <1>6, <2>4, <2>5 DEF GraphIsLongestPrefix, Fits
<1>17. Numbers' /\ DiffNeverDoubleCounts' /\ NewMeansUnseen'
  BY <1>3 DEF Numbers, DiffNeverDoubleCounts, NewMeansUnseen
<1>18. Answers'
  BY <1>15, <1>16, <1>17 DEF Answers
<1>19. req' = None /\ UNCHANGED memVars
  BY DEF GraphNodes
<1> QED BY <1>3, <1>18, <1>19, EndKept

\* get_node and get_edge: a 404 for what the window showed.
LEMMA NodeKept ==
  ASSUME QueriesInv, NEW n \in Ids, NodeDetail(n)
  PROVE  QueriesInv'
<1>1. PICK edges, outgoing, incoming, at, known :
        /\ edges = DOMAIN req.edges /\ outgoing = {e \in edges : e[1] = n}
        /\ incoming = {e \in edges \ outgoing : e[2] = n} /\ at = now /\ known = recorded
  OBVIOUS
<1>2. resp' = [kind |-> "node", at |-> at, known |-> known, found |-> n \in nodes, id |-> n,
               edges |-> edges, outgoing |-> outgoing, incoming |-> incoming]
  BY <1>1 DEF NodeDetail
<1>3. /\ resp'.kind = "node" /\ resp'.at = at /\ resp'.known = known /\ resp'.found = (n \in nodes)
      /\ resp'.outgoing = outgoing /\ resp'.incoming = incoming
  BY <1>2
<1>4. ASSUME n \notin nodes, NEW e \in incoming \cup outgoing
      PROVE  \A b \in known : \A k \in EdgesOf[b] : <<k[2], k[3]>> = e => k[1] < at - Retention
  <2>1. ~({e[1], e[2]} \subseteq nodes)
    BY <1>1, <1>4
  <2> QED BY <1>1, <2>1, StoredOrGone DEF QueriesInv
<1>5. MissingMeansExpired'
  BY <1>3, <1>4 DEF MissingMeansExpired, Gone
<1>6. Numbers' /\ GraphIsLongestPrefix' /\ DiffNeverDoubleCounts' /\ NewMeansUnseen'
  BY <1>3 DEF Numbers, GraphIsLongestPrefix, DiffNeverDoubleCounts, NewMeansUnseen
<1>7. Answers'
  BY <1>5, <1>6 DEF Answers
<1>8. req' = None /\ UNCHANGED memVars
  BY DEF NodeDetail
<1> QED BY <1>3, <1>7, <1>8, EndKept

\* get_edge_detail: not found means not on record or expired.
LEMMA EdgeKept ==
  ASSUME QueriesInv, NEW e \in Ids \X Ids, EdgeDetail(e)
  PROVE  QueriesInv'
<1>1. PICK edges, at, known, found :
        /\ edges = DOMAIN req.edges /\ at = now /\ known = recorded
        /\ found = (e \in DOMAIN req.edges /\ {e[1], e[2]} \subseteq NodesFor(Ends(req.edges)))
  OBVIOUS
<1>2. resp' = [kind |-> "edge", at |-> at, known |-> known, edges |-> edges, id |-> e, found |-> found]
  BY <1>1 DEF EdgeDetail
<1>3. /\ resp'.kind = "edge" /\ resp'.at = at /\ resp'.known = known /\ resp'.found = found
      /\ resp'.edges = edges /\ resp'.id = e
  BY <1>2
<1>4. ASSUME ~found, e \in edges
      PROVE  \A b \in known : \A k \in EdgesOf[b] : <<k[2], k[3]>> = e => k[1] < at - Retention
  <2>1. {e[1], e[2]} \subseteq Ends(req.edges)
    BY <1>1, <1>4 DEF Ends
  <2>2. ~({e[1], e[2]} \subseteq nodes)
    BY <1>1, <1>4, <2>1 DEF NodesFor
  <2> QED BY <1>1, <2>2, StoredOrGone DEF QueriesInv
<1>5. MissingMeansExpired'
  BY <1>3, <1>4 DEF MissingMeansExpired, Gone
<1>6. Numbers' /\ GraphIsLongestPrefix' /\ DiffNeverDoubleCounts' /\ NewMeansUnseen'
  BY <1>3 DEF Numbers, GraphIsLongestPrefix, DiffNeverDoubleCounts, NewMeansUnseen
<1>7. Answers'
  BY <1>5, <1>6 DEF Answers
<1>8. req' = None /\ UNCHANGED memVars
  BY DEF EdgeDetail
<1> QED BY <1>3, <1>7, <1>8, EndKept

\* get_diff reads the baseline period.
LEMMA BaselineKept ==
  ASSUME QueriesInv, DiffBaseline
  PROVE  QueriesInv'
<1>1. PICK b \in Explicit, c \in Explicit, f \in Filters :
        /\ ~Overlap(b, c)
        /\ req' = [kind |-> "diff", window |-> c, filter |-> f, baseline |-> QueryEdges(b, f)]
  BY DEF DiffBaseline
<1>2. req'.kind = "diff" /\ req'.window = c /\ req'.baseline = QueryEdges(b, f)
  BY <1>1
<1>3. UNCHANGED memVars /\ resp' = resp /\ recorded' = recorded
  BY DEF DiffBaseline, memVars
<1>4. AtMost(QueryEdges(b, f), recorded, b)
  BY ReadAtMost DEF QueriesInv
<1>5. AtMost(req'.baseline, recorded', b)
  BY <1>2, <1>3, <1>4
<1>6. ReadBaseline'
  BY <1>1, <1>2, <1>5 DEF ReadBaseline
<1>7. ReadEdges' /\ ReadCurrent' /\ ReadBefore'
  BY <1>2 DEF ReadEdges, ReadCurrent, ReadBefore
<1>8. Reads'
  BY <1>6, <1>7 DEF Reads
<1> QED BY <1>2, <1>3, <1>8, BeginKept

\* get_diff reads the current period, and answers.
LEMMA DiffKept ==
  ASSUME QueriesInv, DiffCurrent
  PROVE  QueriesInv'
<1>1. PICK baseline, current, c : /\ baseline = req.baseline /\ c = req.window
                                  /\ current = QueryEdges(req.window, req.filter)
  OBVIOUS
<1>2. PICK d : resp' = [kind |-> "diff", baseline |-> baseline, current |-> current, diff |-> d]
  BY <1>1 DEF DiffCurrent
<1>3. resp'.kind = "diff" /\ resp'.baseline = baseline /\ resp'.current = current
  BY <1>2
<1>4. req' = None /\ UNCHANGED memVars /\ recorded' = recorded
  BY DEF DiffCurrent, memVars
<1>5. AtMost(current, recorded, c)
  BY <1>1, ReadAtMost DEF QueriesInv
<1>6. PICK b \in Explicit : ~Overlap(b, c) /\ AtMost(baseline, recorded, b) /\ c \in Explicit
  BY <1>1 DEF DiffCurrent, QueriesInv, Reads, ReadBaseline
<1>7. ASSUME NEW e \in DOMAIN baseline \cup DOMAIN current
      PROVE  (IF e \in DOMAIN baseline THEN baseline[e].conns ELSE 0)
               + (IF e \in DOMAIN current THEN current[e].conns ELSE 0)
             <= Total(ConnsOf(OnRecord(recorded, e)))
  <2>1. PICK x, y : /\ x = IF e \in DOMAIN baseline THEN baseline[e].conns ELSE 0
                    /\ y = IF e \in DOMAIN current THEN current[e].conns ELSE 0
    OBVIOUS
  <2>2. PICK u, v, z : /\ u = Total(ConnsOf(InPeriod(recorded, b, e)))
                       /\ v = Total(ConnsOf(InPeriod(recorded, c, e)))
                       /\ z = Total(ConnsOf(OnRecord(recorded, e)))
    OBVIOUS
  <2>3. u \in Nat /\ v \in Nat /\ z \in Nat /\ u + v <= z
    BY <1>6, <2>2, TwoPeriods
  <2>4. 0 \in Nat /\ 0 <= u /\ 0 <= v
    BY <2>3, SMTT(30)
  <2>5. x \in Nat /\ x <= u
    BY <1>6, <2>1, <2>2, <2>4 DEF AtMost
  <2>6. y \in Nat /\ y <= v
    BY <1>5, <2>1, <2>2, <2>4, SMTT(30) DEF AtMost
  <2>7. x + y <= z
    BY <2>3, <2>5, <2>6, SMTT(30)
  <2> QED BY <2>1, <2>2, <2>7
<1>8. DiffNeverDoubleCounts'
  BY <1>3, <1>4, <1>7 DEF DiffNeverDoubleCounts, Ingested, OnRecord, ConnsOf
<1>9. Numbers'
  BY <1>3, <1>5, <1>6 DEF Numbers, AtMost
<1>10. MissingMeansExpired' /\ GraphIsLongestPrefix' /\ NewMeansUnseen'
  BY <1>3 DEF MissingMeansExpired, GraphIsLongestPrefix, NewMeansUnseen
<1>11. Answers'
  BY <1>8, <1>9, <1>10 DEF Answers
<1> QED BY <1>3, <1>4, <1>11, EndKept

\* evaluate_anomalies reads the current window.
LEMMA CurrentKept ==
  ASSUME QueriesInv, AnomaliesCurrent
  PROVE  QueriesInv'
<1>1. PICK w \in Asked, f \in Filters :
        req' = [kind |-> "current", window |-> w, filter |-> f, current |-> QueryEdges(w, f)]
  BY DEF AnomaliesCurrent
<1>2. req'.kind = "current" /\ req'.filter = f /\ req'.current = QueryEdges(w, f)
  BY <1>1
<1>3. ReadCurrent'
  BY <1>2, ReadMatches DEF ReadCurrent
<1>4. ReadEdges' /\ ReadBaseline' /\ ReadBefore'
  BY <1>2 DEF ReadEdges, ReadBaseline, ReadBefore
<1>5. Reads'
  BY <1>3, <1>4 DEF Reads
<1>6. UNCHANGED memVars /\ resp' = resp
  BY DEF AnomaliesCurrent
<1> QED BY <1>2, <1>5, <1>6, BeginKept

\* Then the period before it.
LEMMA BeforeKept ==
  ASSUME QueriesInv, AnomaliesBaseline
  PROVE  QueriesInv'
<1>1. PICK w, f, current, baseline, known, at :
        /\ w = req.window /\ f = req.filter /\ current = req.current
        /\ baseline = QueryEdges(BaselineOf(w), f) /\ known = recorded /\ at = now
  OBVIOUS
<1>2. req' = [kind |-> "baseline", window |-> w, filter |-> f, current |-> current,
              known |-> known, at |-> at, baseline |-> baseline]
  BY <1>1 DEF AnomaliesBaseline
<1>3. /\ req'.kind = "baseline" /\ req'.window = w /\ req'.filter = f /\ req'.current = current
      /\ req'.known = known /\ req'.at = at /\ req'.baseline = baseline
  BY <1>2
<1>4. \A e \in DOMAIN current : e \in KeyEdges /\ Matches(e, f)
  BY <1>1 DEF AnomaliesBaseline, QueriesInv, Reads, ReadCurrent
<1>5. ReadCurrent'
  BY <1>3, <1>4 DEF ReadCurrent
<1>6. ASSUME NEW b \in known, NEW k \in EdgesOf[b], <<k[2], k[3]>> \in DOMAIN current,
             InWindow(BaselineOf(w), k[1]), ~(k[1] < at - Retention)
      PROVE  <<k[2], k[3]>> \in DOMAIN baseline /\ Attempts(baseline[<<k[2], k[3]>>]) > 0
  <2>1. MemInv /\ Counted /\ b \in recorded /\ ~(k[1] < now - Retention)
    BY <1>1, <1>6 DEF QueriesInv
  <2>2. Matches(<<k[2], k[3]>>, f)
    BY <1>4, <1>6
  <2>3. PICK v : v = BaselineOf(w)
    OBVIOUS
  <2>4. InWindow(v, k[1])
    BY <1>6, <2>3
  <2>5. /\ <<k[2], k[3]>> \in DOMAIN QueryEdges(v, f)
        /\ Attempts(QueryEdges(v, f)[<<k[2], k[3]>>]) > 0
    BY <2>1, <2>2, <2>4, ReadShows
  <2> QED BY <1>1, <2>3, <2>5
<1>7. ReadBefore'
  BY <1>3, <1>6 DEF ReadBefore
<1>8. ReadEdges' /\ ReadBaseline'
  BY <1>3 DEF ReadEdges, ReadBaseline
<1>9. Reads'
  BY <1>5, <1>7, <1>8 DEF Reads
<1>10. UNCHANGED memVars /\ resp' = resp
  BY DEF AnomaliesBaseline
<1> QED BY <1>3, <1>9, <1>10, BeginKept

\* Then the nodes, and answers.
LEMMA AnomaliesKept ==
  ASSUME QueriesInv, AnomaliesNodes
  PROVE  QueriesInv'
<1>1. PICK w, current, baseline, known, at, canaries, S :
        /\ w = req.window /\ current = req.current /\ baseline = req.baseline
        /\ known = req.known /\ at = req.at
        /\ canaries = NodesFor(Ends(req.current)) \cap CanaryTargets
        /\ S = Detect(current, baseline, canaries)
  OBVIOUS
<1>2. PICK found : found = Respond(S)
  OBVIOUS
<1>3. resp' = [kind |-> "anomalies", window |-> w, known |-> known, at |-> at, found |-> found]
  BY <1>1, <1>2 DEF AnomaliesNodes
<1>4. /\ resp'.kind = "anomalies" /\ resp'.window = w /\ resp'.known = known /\ resp'.at = at
      /\ resp'.found = found
  BY <1>3
<1>5. IsFiniteSet(DOMAIN current) /\ DOMAIN current \subseteq Int \X Int
  <2>1. DOMAIN current \in SUBSET KeyEdges
    BY <1>1 DEF AnomaliesNodes, QueriesInv, Reads, ReadCurrent
  <2>2. IsFiniteSet(KeyEdges) /\ KeyEdges \subseteq Int \X Int
    BY ReportsFinite
  <2> QED BY <2>1, <2>2, FS_Subset
<1>6. /\ IsFiniteSet(S) /\ S \subseteq (Int \X Int) \X Types
      /\ \A a \in S : /\ a[1] \in DOMAIN current
                      /\ a[2] \in {"NEW_EDGE", "NEW_EXTERNAL_EGRESS"} =>
                           ~(a[1] \in DOMAIN baseline /\ Attempts(baseline[a[1]]) > 0)
  BY <1>1, <1>5, DetectOf
<1>7. \A i \in 1..Len(found) : found[i] \in S
  BY <1>2, <1>6, RespondOf
<1>8. ASSUME NEW b \in known, NEW k \in EdgesOf[b], <<k[2], k[3]>> \in DOMAIN current,
             InWindow(BaselineOf(w), k[1]), ~(k[1] < at - Retention)
      PROVE  <<k[2], k[3]>> \in DOMAIN baseline /\ Attempts(baseline[<<k[2], k[3]>>]) > 0
  BY <1>1, <1>8 DEF AnomaliesNodes, QueriesInv, Reads, ReadBefore
<1>9. ASSUME NEW i \in 1..Len(found), found[i][2] \in {"NEW_EDGE", "NEW_EXTERNAL_EGRESS"},
             NEW b \in known, NEW k \in EdgesOf[b], <<k[2], k[3]>> = found[i][1],
             w.start - BaselineSpan <= k[1], k[1] < w.start
      PROVE  k[1] < at - Retention
  <2>1. PICK a : a = found[i]
    OBVIOUS
  <2>2. a \in S
    BY <1>7, <2>1
  <2>3. a[1] \in DOMAIN current /\ ~(a[1] \in DOMAIN baseline /\ Attempts(baseline[a[1]]) > 0)
    BY <1>6, <1>9, <2>1, <2>2
  <2>4. a[1] = <<k[2], k[3]>>
    BY <1>9, <2>1
  <2>5. InWindow(BaselineOf(w), k[1])
    BY <1>9 DEF InWindow, BaselineOf
  <2> QED BY <1>8, <2>3, <2>4, <2>5
<1>10. NewMeansUnseen'
  BY <1>4, <1>9 DEF NewMeansUnseen
<1>11. Numbers' /\ MissingMeansExpired' /\ GraphIsLongestPrefix' /\ DiffNeverDoubleCounts'
  BY <1>4 DEF Numbers, MissingMeansExpired, GraphIsLongestPrefix, DiffNeverDoubleCounts
<1>12. Answers'
  BY <1>10, <1>11 DEF Answers
<1>13. req' = None /\ UNCHANGED memVars
  BY DEF AnomaliesNodes
<1> QED BY <1>4, <1>12, <1>13, EndKept

\* At the start nothing was asked and nothing is stored.
LEMMA QueriesInvInitially == QueriesInit => QueriesInv
<1> SUFFICES ASSUME QueriesInit
             PROVE  QueriesInv
  OBVIOUS
<1>1. MemInv /\ Counted
  BY InvInitially, CountedInitially DEF QueriesInit
<1>2. req.kind = "none" /\ resp.kind = "none"
  BY DEF QueriesInit, None
<1>3. Kinds /\ Reads
  BY <1>2 DEF Kinds, Reads, ReadEdges, ReadBaseline, ReadCurrent, ReadBefore
<1>4. Answers
  BY <1>2 DEF Answers, Numbers, MissingMeansExpired, GraphIsLongestPrefix, DiffNeverDoubleCounts,
              NewMeansUnseen
<1> QED BY <1>1, <1>3, <1>4 DEF QueriesInv

\* Every step of a handler, and every operation of storage between two of its reads,
\* keeps what the answers rest on.
LEMMA QueriesInvKept == QueriesInv /\ [QueriesNext]_<<memVars, queryVars>> => QueriesInv'
<1> SUFFICES ASSUME QueriesInv, [QueriesNext]_<<memVars, queryVars>>
             PROVE  QueriesInv'
  OBVIOUS
<1>1. CASE GraphEdges
  <2>1. PICK w \in Asked, f \in Filters : req' = [kind |-> "graph", edges |-> QueryEdges(w, f)]
    BY <1>1 DEF GraphEdges
  <2>2. UNCHANGED memVars /\ resp' = resp
    BY <1>1 DEF GraphEdges
  <2> QED BY <2>1, <2>2, EdgesRead
<1>2. CASE DetailEdges
  <2>1. PICK w \in Asked : req' = [kind |-> "detail", edges |-> QueryEdges(w, NoFilter)]
    BY <1>2 DEF DetailEdges
  <2>2. UNCHANGED memVars /\ resp' = resp
    BY <1>2 DEF DetailEdges
  <2> QED BY <2>1, <2>2, EdgesRead
<1>3. CASE MemNext /\ UNCHANGED queryVars
  <2>1. resp' = resp /\ req' = req /\ recorded \subseteq recorded'
    BY <1>3, RecordedGrows DEF queryVars
  <2>2. MemInv' /\ Counted'
    BY <1>3, InvKept, CountedKept DEF QueriesInv
  <2>3. Answers' /\ Reads'
    BY <2>1, AnswersKept, ReadsKept DEF QueriesInv
  <2>4. Kinds'
    BY <2>1 DEF QueriesInv, Kinds
  <2> QED BY <2>2, <2>3, <2>4 DEF QueriesInv
<1>4. CASE UNCHANGED <<memVars, queryVars>>
  <2>1. UNCHANGED memVars /\ resp' = resp /\ req' = req /\ recorded' = recorded
    BY <1>4 DEF queryVars, memVars
  <2>2. Reads'
    BY <2>1, ReadsKept DEF QueriesInv
  <2>3. req'.kind \in {"none", "graph", "detail", "diff", "current", "baseline"}
    BY <2>1 DEF QueriesInv, Kinds
  <2> QED BY <2>1, <2>2, <2>3, BeginKept
<1>5. CASE Handlers
  BY <1>1, <1>2, <1>5, GraphKept, NodeKept, EdgeKept, BaselineKept, DiffKept, CurrentKept,
     BeforeKept, AnomaliesKept DEF Handlers
<1> QED BY <1>3, <1>4, <1>5 DEF QueriesNext

\* A 404 or a missing node for what the window showed means that a purge came between
\* the two reads, and that every bucket ever ingested for the edge had expired.
THEOREM MissingOnlyExpired == QueriesSpec => []MissingMeansExpired
<1>1. QueriesInv => MissingMeansExpired
  BY DEF QueriesInv, Answers
<1> QED BY <1>1, QueriesInvInitially, QueriesInvKept, PTL DEF QueriesSpec

\* get_graph truncates to the longest sorted prefix that respects both caps, and says so.
THEOREM LongestPrefix == QueriesSpec => []GraphIsLongestPrefix
<1>1. QueriesInv => GraphIsLongestPrefix
  BY DEF QueriesInv, Answers
<1> QED BY <1>1, QueriesInvInitially, QueriesInvKept, PTL DEF QueriesSpec

\* get_diff never counts a connection on both sides, whatever arrives between its reads.
THEOREM DiffCountsOnce == QueriesSpec => []DiffNeverDoubleCounts
<1>1. QueriesInv => DiffNeverDoubleCounts
  BY DEF QueriesInv, Answers
<1> QED BY <1>1, QueriesInvInitially, QueriesInvKept, PTL DEF QueriesSpec

\* evaluate_anomalies calls an edge new only if no unexpired bucket of the baseline
\* period had it on record.
THEOREM NewOnlyUnseen == QueriesSpec => []NewMeansUnseen
<1>1. QueriesInv => NewMeansUnseen
  BY DEF QueriesInv, Answers
<1> QED BY <1>1, QueriesInvInitially, QueriesInvKept, PTL DEF QueriesSpec

\* Requests, and what they read, have their types.
THEOREM QueriesTyped == QueriesSpec => []QueriesTypeOK
<1>1. QueriesInv => QueriesTypeOK
  BY KeyTyped DEF QueriesInv, MemInv, Counted, Kinds, QueriesTypeOK
<1> QED BY <1>1, QueriesInvInitially, QueriesInvKept, PTL DEF QueriesSpec

-----------------------------------------------------------------------------
(* compare of one edge.                                                    *)

\* The counts of an aggregate.
LEMMA AggregateTyped ==
  ASSUME NEW a \in EdgeAggregate
  PROVE  /\ a.conns \in Nat /\ a.setups \in Nat /\ a.setupSum \in Nat
         /\ a.failed \in Nat \/ a.failed = NotMeasured
         /\ a.bytes \in Nat \/ a.bytes = NotMeasured
BY DEF EdgeAggregate

\* What compare is given for a side.
Shown(a) == IF a.conns > 0 THEN a ELSE Nothing

\* compare of one edge: nothing if neither period observed it, else its class.
LEMMA DiffClassIs ==
  ASSUME NEW b \in EdgeAggregate, NEW c \in EdgeAggregate
  PROVE  DiffClass(b, c) = IF b.conns > 0 \/ c.conns > 0 THEN Classify(Shown(b), Shown(c)) ELSE "absent"
<1> DEFINE class == [e \in Observed(Current(b)) \cup Observed(Current(c)) |->
                       Classify(Side(Current(b), e), Side(Current(c), e))]
           shown == {e \in DOMAIN class : class[e] # "UNCHANGED" \/ TRUE}
           s == Sorted(shown)
           kept == IF Len(s) > MaxEdges THEN Prefix(s, MaxEdges) ELSE s
           d == Compare(Current(b), Current(c), TRUE)
<1>1. /\ DOMAIN class = Observed(Current(b)) \cup Observed(Current(c))
      /\ \A e \in DOMAIN class : class[e] = Classify(Side(Current(b), e), Side(Current(c), e))
  OBVIOUS
<1>2. shown = DOMAIN class
  OBVIOUS
<1>3. s = Sorted(shown)
  OBVIOUS
<1>4. kept = IF Len(s) > MaxEdges THEN Prefix(s, MaxEdges) ELSE s
  OBVIOUS
<1>5. d = [edges |-> kept, class |-> [i \in 1..Len(kept) |-> class[kept[i]]],
           truncated |-> Cardinality(shown) > MaxEdges]
  BY DEF Compare
<1>6. DiffClass(b, c) = IF d.edges = <<>> THEN "absent" ELSE d.class[1]
  BY DEF DiffClass
<1> HIDE DEF class, shown, s, kept, d
<1>7. d.edges = kept /\ d.class = [i \in 1..Len(kept) |-> class[kept[i]]]
  BY <1>5
<1>8. ASSUME NEW a
      PROVE  /\ \A e : e \in Observed(Current(a)) <=> e = Edge /\ a.conns > 0
             /\ Side(Current(a), Edge) = Shown(a)
  <2>1. DOMAIN Current(a) = {Edge} /\ Current(a)[Edge] = a
    BY DEF Current
  <2>2. \A e : e \in Observed(Current(a)) <=> e = Edge /\ a.conns > 0
    BY <2>1 DEF Observed
  <2> QED BY <2>1, <2>2 DEF Side, Shown
<1>9. shown = Observed(Current(b)) \cup Observed(Current(c))
  BY <1>1, <1>2
<1>10. ASSUME NEW e
       PROVE  e \in shown <=> e = Edge /\ (b.conns > 0 \/ c.conns > 0)
  <2>1. e \in Observed(Current(b)) <=> e = Edge /\ b.conns > 0
    BY <1>8
  <2>2. e \in Observed(Current(c)) <=> e = Edge /\ c.conns > 0
    BY <1>8
  <2> QED BY <1>9, <2>1, <2>2
<1>11. IsFiniteSet(shown) /\ shown \subseteq Int \X Int
  <2>1. shown \in SUBSET {Edge} /\ IsFiniteSet({Edge})
    BY <1>10, FS_Singleton
  <2>2. Edge \in Int \X Int
    BY SMTT(30) DEF Edge
  <2> QED BY <2>1, <2>2, FS_Subset
<1>12. Lists(s, shown)
  BY <1>3, <1>11, SortedLists
<1>13. CASE b.conns > 0 \/ c.conns > 0
  <2>1. shown = {Edge}
    BY <1>10, <1>13
  <2>2. Cardinality(shown) = 1
    BY <2>1, FS_Singleton
  <2>3. s = [i \in 1..1 |-> s[i]] /\ \A i \in 1..1 : s[i] \in {Edge}
    BY <1>12, <2>1, <2>2 DEF Lists
  <2>4. Len(s) = 1 /\ s[1] = Edge /\ s # <<>> /\ 1 \in 1..1
    <3>1. 1 \in 1..1
      BY SMTT(30)
    <3>2. s[1] = Edge
      BY <2>3, <3>1
    <3>3. Len(s) = 1 /\ s # <<>>
      BY <2>3, SMTT(30)
    <3> QED BY <3>1, <3>2, <3>3
  <2>5. kept = s
    <3>1. ~(1 > MaxEdges)
      BY RulesAssumption, RuleCasesAssumption, SMTT(30)
    <3> QED BY <1>4, <2>4, <3>1
  <2>6. d.class[1] = class[Edge]
    BY <1>7, <2>4, <2>5
  <2>7. class[Edge] = Classify(Shown(b), Shown(c))
    <3>1. Edge \in Observed(Current(b)) \cup Observed(Current(c))
      BY <1>8, <1>13
    <3>2. class[Edge] = Classify(Side(Current(b), Edge), Side(Current(c), Edge))
      BY <1>1, <3>1
    <3>3. Side(Current(b), Edge) = Shown(b) /\ Side(Current(c), Edge) = Shown(c)
      BY <1>8
    <3> QED BY <3>2, <3>3
  <2> QED BY <1>6, <1>7, <1>13, <2>4, <2>5, <2>6, <2>7
<1>14. CASE ~(b.conns > 0 \/ c.conns > 0)
  <2>1. shown = {}
    BY <1>10, <1>14
  <2>2. Cardinality(shown) = 0
    BY <2>1, FS_EmptySet
  <2>3. s = [i \in 1..0 |-> s[i]]
    BY <1>12, <2>2 DEF Lists
  <2>4. s = <<>>
    BY <2>3, SMTT(30)
  <2>5. kept = s
    <3>1. ~(Len(<<>>) > MaxEdges)
      BY RulesAssumption, SMTT(30)
    <3> QED BY <1>4, <2>4, <3>1
  <2> QED BY <1>6, <1>7, <1>14, <2>4, <2>5
<1> QED BY <1>13, <1>14

\* Multiplication by a natural number is monotonic.
LEMMA Times ==
  ASSUME NEW x \in Int, NEW y \in Int, NEW z \in Nat, x <= y
  PROVE  z * x <= z * y
BY SMTT(30)

\* Division with remainder.
LEMMA DivMod ==
  ASSUME NEW x \in Nat, NEW y \in Nat \ {0}
  PROVE  /\ x \div y \in Nat /\ x % y \in Nat /\ x % y < y
         /\ x = y * (x \div y) + (x % y)
BY SMTT(30)

\* A percentage rounded to hundredths is off by half a hundredth at most.
LEMMA PercentBounds ==
  ASSUME NEW x \in Nat, NEW y \in Nat, x # 0, NEW t \in Nat
  PROVE  /\ 100 * Magnitude(y - x) >= t * x => PercentDelta(x, y) >= 100 * t
         /\ PercentDelta(x, y) >= 100 * t => 20000 * Magnitude(y - x) >= (200 * t - 1) * x
<1>1. PICK m : m = Magnitude(y - x) /\ m \in Nat
  BY SMTT(30) DEF Magnitude
<1>2. PICK n, q, r : n = m * 10000 /\ q = n \div x /\ r = n % x
  BY SMTT(30)
<1>3. n \in Nat
  BY <1>1, <1>2, SMTT(30)
<1>4. q \in Nat /\ r \in Nat /\ r < x /\ n = x * q + r
  <2>1. x \in Nat \ {0}
    OBVIOUS
  <2>2. PICK j, k : j = n \div x /\ k = n % x
    OBVIOUS
  <2>3. j \in Nat /\ k \in Nat /\ k < x /\ n = x * j + k
    BY <1>3, <2>1, <2>2, DivMod
  <2>4. q = j /\ r = k
    BY <1>2, <2>2, SMTT(30)
  <2> QED BY <2>3, <2>4
<1>5. PICK p : p = PercentDelta(x, y)
  OBVIOUS
<1>6. p = IF 2 * r > x \/ (2 * r = x /\ q % 2 = 1) THEN q + 1 ELSE q
  BY <1>1, <1>2, <1>5, SMTT(30) DEF PercentDelta
<1>7. /\ p \in Int /\ p >= q
      /\ p = q \/ (p = q + 1 /\ 2 * r >= x)
  BY <1>4, <1>6, SMTT(30)
<1>8. PICK u, v : u = x * q /\ v = x * t
  OBVIOUS
<1>9. u \in Nat /\ v \in Nat /\ v = t * x
  BY <1>4, <1>8, SMTT(30)
<1>10. ASSUME 100 * m >= t * x
       PROVE  p >= 100 * t
  <2>1. n >= 100 * v
    BY <1>1, <1>2, <1>9, <1>10, SMTT(30)
  <2>2. CASE q >= 100 * t
    BY <1>4, <1>7, <2>2, SMTT(30)
  <2>3. CASE ~(q >= 100 * t)
    <3>1. q \in Int /\ 100 * t - 1 \in Int /\ q <= 100 * t - 1
      BY <1>4, <2>3, SMTT(30)
    <3>2. x * q <= x * (100 * t - 1)
      BY <3>1, Times
    <3>3. x * (100 * t - 1) = 100 * v - x
      BY <1>8, SMTT(30)
    <3> QED BY <1>4, <1>8, <1>9, <2>1, <3>2, <3>3, SMTT(30)
  <2> QED BY <2>2, <2>3
<1>11. ASSUME p >= 100 * t
       PROVE  20000 * m >= (200 * t - 1) * x
  <2>1. (200 * t - 1) * x = 200 * v - x
    BY <1>8, SMTT(30)
  <2>2. 20000 * m = 2 * u + 2 * r
    <3>1. n = u + r /\ n = m * 10000
      BY <1>2, <1>4, <1>8, SMTT(30)
    <3> QED BY <1>1, <1>4, <1>9, <3>1, SMTT(30)
  <2>3. CASE p = q
    <3>1. 100 * t \in Int /\ q \in Int /\ 100 * t <= q
      BY <1>4, <1>11, <2>3, SMTT(30)
    <3>2. x * (100 * t) <= x * q
      BY <3>1, Times
    <3>3. x * (100 * t) = 100 * v
      BY <1>8, SMTT(30)
    <3> QED BY <1>4, <1>8, <1>9, <2>1, <2>2, <3>2, <3>3, SMTT(30)
  <2>4. CASE p = q + 1 /\ 2 * r >= x
    <3>1. 100 * t - 1 \in Int /\ q \in Int /\ 100 * t - 1 <= q
      BY <1>4, <1>11, <2>4, SMTT(30)
    <3>2. x * (100 * t - 1) <= x * q
      BY <3>1, Times
    <3>3. x * (100 * t - 1) = 100 * v - x
      BY <1>8, SMTT(30)
    <3> QED BY <1>4, <1>8, <1>9, <2>1, <2>2, <2>4, <3>2, <3>3, SMTT(30)
  <2> QED BY <1>7, <2>3, <2>4, SMTT(30)
<1> QED BY <1>1, <1>5, <1>10, <1>11, SMTT(30)

\* compare is what it is meant to be, for every pair of aggregates: the threshold is
\* exact up to the rounding, and the other way round new edges are removed ones.
THEOREM DiffIsSound == case \in Cases \cup {NoCase} => DiffSound
<1> SUFFICES ASSUME case \in Cases, case # NoCase
             PROVE  DiffSound
  BY SMTT(30) DEF DiffSound, ThresholdExact, DiffMirrors
<1>1. PICK b \in EdgeAggregate, c \in EdgeAggregate : case = <<b, c>>
  <2>1. case \in EdgeAggregate \X EdgeAggregate
    BY RuleCasesAssumption
  <2> QED BY <2>1, SMTT(30)
<1>2. case[1] = b /\ case[2] = c
  BY <1>1
<1>3. b.conns \in Nat /\ c.conns \in Nat
  BY AggregateTyped
<1>4. (b.conns > 0 <=> b.conns # 0) /\ (c.conns > 0 <=> c.conns # 0)
  BY <1>3, SMTT(30)
<1>5. ASSUME NEW x \in EdgeAggregate, NEW y \in EdgeAggregate
      PROVE  DiffClass(x, y) = IF x.conns > 0 \/ y.conns > 0 THEN Classify(Shown(x), Shown(y)) ELSE "absent"
  BY DiffClassIs
<1>6. Nothing.conns = 0
  BY DEF Nothing
<1>7. ASSUME b.conns > 0, c.conns > 0, b.bytes = NotMeasured
      PROVE  DiffClass(b, c) = IF Beyond(b.conns, c.conns) THEN "CHANGED" ELSE "UNCHANGED"
  <2>1. DiffClass(b, c) = Classify(b, c)
    BY <1>5, <1>7 DEF Shown
  <2> QED BY <1>4, <1>7, <2>1 DEF Classify
<1>8. ASSUME b.conns > 0, c.conns > 0, b.bytes = NotMeasured
      PROVE  /\ 100 * Change(b.conns, c.conns) >= Threshold * b.conns => DiffClass(b, c) = "CHANGED"
             /\ DiffClass(b, c) = "CHANGED" =>
                  20000 * Change(b.conns, c.conns) >= (200 * Threshold - 1) * b.conns
  <2>1. PICK x, y, t : x = b.conns /\ y = c.conns /\ t = Threshold
    OBVIOUS
  <2>2. x \in Nat /\ y \in Nat /\ x # 0 /\ t \in Nat
    BY <1>3, <1>4, <1>8, <2>1, RulesAssumption
  <2>3. /\ 100 * Magnitude(y - x) >= t * x => PercentDelta(x, y) >= 100 * t
        /\ PercentDelta(x, y) >= 100 * t => 20000 * Magnitude(y - x) >= (200 * t - 1) * x
    BY <2>2, PercentBounds, SMTT(30)
  <2>4. Beyond(x, y) <=> PercentDelta(x, y) >= 100 * t
    BY <2>1, <2>2 DEF Beyond
  <2>5. Change(x, y) = Magnitude(y - x)
    BY DEF Change
  <2>6. DiffClass(b, c) = "CHANGED" <=> Beyond(x, y)
    BY <1>7, <1>8, <2>1
  <2> QED BY <2>1, <2>3, <2>4, <2>5, <2>6, SMTT(30)
<1>9. ThresholdExact
  BY <1>2, <1>8, SMTT(30) DEF ThresholdExact
<1>10. ASSUME NEW x \in EdgeAggregate, NEW y \in EdgeAggregate
       PROVE  /\ DiffClass(x, y) = "NEW" <=> ~(x.conns > 0) /\ y.conns > 0
              /\ DiffClass(x, y) = "REMOVED" <=> x.conns > 0 /\ ~(y.conns > 0)
              /\ DiffClass(x, y) \in {"CHANGED", "UNCHANGED"} <=> x.conns > 0 /\ y.conns > 0
  <2>1. x.conns \in Nat /\ y.conns \in Nat
    BY AggregateTyped
  <2>2. (x.conns > 0 <=> x.conns # 0) /\ (y.conns > 0 <=> y.conns # 0)
    BY <2>1, SMTT(30)
  <2>3. DiffClass(x, y) = IF x.conns > 0 \/ y.conns > 0 THEN Classify(Shown(x), Shown(y)) ELSE "absent"
    BY <1>5
  <2>4. (Shown(x).conns = 0 <=> x.conns = 0) /\ (Shown(y).conns = 0 <=> y.conns = 0)
    BY <1>6, <2>2 DEF Shown
  <2>5. PICK k : k = Classify(Shown(x), Shown(y))
    OBVIOUS
  <2>6. /\ x.conns = 0 => k = "NEW"
        /\ x.conns # 0 /\ y.conns = 0 => k = "REMOVED"
        /\ x.conns # 0 /\ y.conns # 0 => k \in {"CHANGED", "UNCHANGED"}
    BY <2>4, <2>5 DEF Classify
  <2>7. PICK j : j = DiffClass(x, y)
    OBVIOUS
  <2>8. j = IF x.conns # 0 \/ y.conns # 0 THEN k ELSE "absent"
    BY <2>2, <2>3, <2>5, <2>7
  <2>9. /\ j = "NEW" <=> x.conns = 0 /\ y.conns # 0
        /\ j = "REMOVED" <=> x.conns # 0 /\ y.conns = 0
        /\ j \in {"CHANGED", "UNCHANGED"} <=> x.conns # 0 /\ y.conns # 0
    BY <2>6, <2>8
  <2> QED BY <2>2, <2>7, <2>9
<1>11. DiffMirrors
  BY <1>2, <1>10, SMTT(30) DEF DiffMirrors
<1> QED BY <1>9, <1>11 DEF DiffSound

-----------------------------------------------------------------------------
(* detect of one edge.                                                     *)

\* What the baseline says of the edge: nothing when it had no attempt on it.
Past(b) == IF Attempts(b) > 0 THEN b ELSE Nothing

\* What a first contact is called.
NewType == IF Edge[2] = External THEN "NEW_EXTERNAL_EGRESS" ELSE "NEW_EDGE"

\* detect of one edge: nothing without attempts; new if the baseline had none; a spike
\* and a slow setup by their rules.
LEMMA FiredIs ==
  ASSUME NEW b, NEW c, NEW t
  PROVE  t \in Fired(b, c) <=>
           /\ Attempts(c) > 0
           /\ \/ ~(Attempts(b) > 0) /\ t = NewType
              \/ FailureSpike(c, Attempts(b) > 0, Past(b)) /\ t = "FAILURE_SPIKE"
              \/ SlowSetup(c, Attempts(b) > 0, Past(b)) /\ t = "SLOW_SETUP"
<1> DEFINE current == Current(c)
           baseline == Baseline(b)
           before == {e \in DOMAIN baseline : Attempts(baseline[e]) > 0}
           was(e) == IF e \in before THEN baseline[e] ELSE Nothing
           fires(e) ==
             (IF e[2] \in {} THEN {"CANARY_CONTACT"} ELSE {})
             \cup (IF e \notin before /\ before # {}
                   THEN {IF e[2] = External THEN "NEW_EXTERNAL_EGRESS" ELSE "NEW_EDGE"} ELSE {})
             \cup (IF FailureSpike(current[e], e \in before, was(e)) THEN {"FAILURE_SPIKE"} ELSE {})
             \cup (IF SlowSetup(current[e], e \in before, was(e)) THEN {"SLOW_SETUP"} ELSE {})
           found == UNION {{<<e, u>> : u \in fires(e)} : e \in {x \in DOMAIN current : Attempts(current[x]) > 0}}
<1>1. found = Detect(Current(c), Baseline(b), {})
  BY DEF Detect
<1>2. DOMAIN current = {Edge} /\ current[Edge] = c
  BY DEF Current
<1>3. Edge # Other
  BY SMTT(30) DEF Edge, Other
<1>4. /\ DOMAIN baseline = {Edge, Other} /\ baseline[Edge] = b
      /\ baseline[Other] = [Nothing EXCEPT !.conns = 1]
  BY <1>3 DEF Baseline
<1>5. Attempts([Nothing EXCEPT !.conns = 1]) > 0
  BY SMTT(30) DEF Nothing, Attempts, Failures, NotMeasured
<1> HIDE DEF current, baseline
<1>6. before # {} /\ (Edge \in before <=> Attempts(b) > 0)
  BY <1>4, <1>5
<1>7. was(Edge) = Past(b)
  BY <1>4, <1>6 DEF Past
<1> HIDE DEF before, was
<1>8. ASSUME NEW u
      PROVE  u \in fires(Edge) <=>
               \/ ~(Attempts(b) > 0) /\ u = NewType
               \/ FailureSpike(c, Attempts(b) > 0, Past(b)) /\ u = "FAILURE_SPIKE"
               \/ SlowSetup(c, Attempts(b) > 0, Past(b)) /\ u = "SLOW_SETUP"
  <2>1. FailureSpike(current[Edge], Edge \in before, was(Edge)) = FailureSpike(c, Attempts(b) > 0, Past(b))
    BY <1>2, <1>6, <1>7 DEF FailureSpike
  <2>2. SlowSetup(current[Edge], Edge \in before, was(Edge)) = SlowSetup(c, Attempts(b) > 0, Past(b))
    BY <1>2, <1>6, <1>7 DEF SlowSetup
  <2>3. u \in fires(Edge) <=>
          \/ Edge \notin before /\ before # {} /\ u = NewType
          \/ FailureSpike(current[Edge], Edge \in before, was(Edge)) /\ u = "FAILURE_SPIKE"
          \/ SlowSetup(current[Edge], Edge \in before, was(Edge)) /\ u = "SLOW_SETUP"
    BY DEF NewType
  <2> HIDE DEF fires
  <2> QED BY <1>6, <2>1, <2>2, <2>3
<1> HIDE DEF fires
<1>9. ASSUME NEW a
      PROVE  a \in found <=> Attempts(c) > 0 /\ \E u \in fires(Edge) : a = <<Edge, u>>
  <2> DEFINE tried == {x \in DOMAIN current : Attempts(current[x]) > 0}
  <2>1. \A e : e \in tried <=> e = Edge /\ Attempts(c) > 0
    BY <1>2
  <2> HIDE DEF tried
  <2>2. found = UNION {{<<e, u>> : u \in fires(e)} : e \in tried}
    BY DEF tried
  <2>3. a \in found <=> \E e \in tried : a \in {<<e, u>> : u \in fires(e)}
    BY <2>2
  <2> HIDE DEF found
  <2>4. a \in found <=> Attempts(c) > 0 /\ a \in {<<Edge, u>> : u \in fires(Edge)}
    BY <2>1, <2>3
  <2>5. a \in {<<Edge, u>> : u \in fires(Edge)} <=> \E u \in fires(Edge) : a = <<Edge, u>>
    OBVIOUS
  <2> QED BY <2>4, <2>5
<1> HIDE DEF found
<1>10. t \in Fired(b, c) <=> \E a \in found : t = a[2]
  BY <1>1 DEF Fired
<1>11. t \in Fired(b, c) <=> Attempts(c) > 0 /\ t \in fires(Edge)
  <2>1. \A u : <<Edge, u>>[2] = u
    OBVIOUS
  <2>2. ASSUME t \in Fired(b, c)
        PROVE  Attempts(c) > 0 /\ t \in fires(Edge)
    <3>1. PICK a \in found : t = a[2]
      BY <1>10, <2>2
    <3>2. Attempts(c) > 0 /\ \E u \in fires(Edge) : a = <<Edge, u>>
      BY <1>9
    <3> QED BY <2>1, <3>1, <3>2
  <2>3. ASSUME Attempts(c) > 0, t \in fires(Edge)
        PROVE  t \in Fired(b, c)
    <3>1. PICK a : a = <<Edge, t>>
      OBVIOUS
    <3>2. a \in found
      BY <1>9, <2>3, <3>1
    <3> QED BY <1>10, <2>1, <3>1, <3>2
  <2> QED BY <2>2, <2>3
<1> QED BY <1>8, <1>11

\* The attempts of an edge are counted.
LEMMA AttemptsCounted ==
  ASSUME NEW a \in EdgeAggregate
  PROVE  /\ Attempts(a) \in Nat
         /\ a.failed # NotMeasured => a.failed \in Nat /\ Attempts(a) = a.conns + a.failed
<1>1. a.conns \in Nat /\ (a.failed \in Nat \/ a.failed = NotMeasured)
  BY AggregateTyped
<1> QED BY <1>1, SMTT(30) DEF Attempts, Failures

\* One more failure instead of a success keeps a spike a spike.
LEMMA SpikeGrows ==
  ASSUME NEW b \in EdgeAggregate, NEW c \in EdgeAggregate, NEW d,
         FailureSpike(c, Attempts(b) > 0, Past(b)),
         Attempts(d) = Attempts(c), d.failed = c.failed + 1
  PROVE  FailureSpike(d, Attempts(b) > 0, Past(b))
<1>1. PICK f, n : f = c.failed /\ n = Attempts(c)
  OBVIOUS
<1>2. f \in Nat /\ n \in Nat /\ d.failed = f + 1 /\ Attempts(d) = n
  BY <1>1, AttemptsCounted DEF FailureSpike
<1>3. d.failed # NotMeasured
  BY <1>2, SMTT(30) DEF NotMeasured
<1>4. n >= MinAttempts /\ 100 * f >= FailPercent * n
  BY <1>1, SMTT(30) DEF FailureSpike
<1>5. 100 * (f + 1) >= FailPercent * n
  BY <1>2, <1>4, RulesAssumption, SMTT(30)
<1>6. CASE Attempts(b) > 0
  <2>1. PICK g, m : g = b.failed /\ m = Attempts(b)
    OBVIOUS
  <2>2. Past(b) = b /\ b.failed # NotMeasured
    BY <1>6 DEF Past, FailureSpike
  <2>3. g \in Nat /\ m \in Nat
    BY <2>1, <2>2, AttemptsCounted
  <2>4. 100 * (f * m - g * n) >= FailPercent * n * m
    BY <1>1, <1>6, <2>1, <2>2, SMTT(30) DEF FailureSpike
  <2>5. PICK x, y, z : x = f * m /\ y = g * n /\ z = FailPercent * n * m
    OBVIOUS
  <2>6. x \in Nat /\ y \in Nat /\ z \in Nat
    BY <1>2, <2>3, <2>5, RulesAssumption, SMTT(30)
  <2>7. (f + 1) * m = x + m
    BY <1>2, <2>3, <2>5, SMTT(30)
  <2>8. 100 * ((x + m) - y) >= z
    BY <2>3, <2>4, <2>5, <2>6, SMTT(30)
  <2>9. 100 * ((f + 1) * m - g * n) >= FailPercent * n * m
    BY <2>5, <2>7, <2>8, SMTT(30)
  <2> QED BY <1>2, <1>3, <1>4, <1>5, <2>1, <2>2, <2>9, SMTT(30) DEF FailureSpike
<1>7. CASE ~(Attempts(b) > 0)
  BY <1>2, <1>3, <1>4, <1>5, <1>7, SMTT(30) DEF FailureSpike
<1> QED BY <1>6, <1>7

\* A longer setup time over as many setups keeps a slow setup slow.
LEMMA SlowGrows ==
  ASSUME NEW b \in EdgeAggregate, NEW c \in EdgeAggregate, NEW d,
         SlowSetup(c, Attempts(b) > 0, Past(b)),
         d.setups = c.setups, d.setupSum = c.setupSum + 1
  PROVE  SlowSetup(d, Attempts(b) > 0, Past(b))
<1>1. Attempts(b) > 0 /\ Past(b) = b
  BY DEF SlowSetup, Past
<1>2. PICK s, n, r, m : s = c.setupSum /\ n = c.setups /\ r = b.setupSum /\ m = b.setups
  OBVIOUS
<1>3. s \in Nat /\ n \in Nat /\ r \in Nat /\ m \in Nat
  BY <1>2, AggregateTyped
<1>4. /\ n > 0 /\ m > 0 /\ n >= MinAttempts /\ m >= MinAttempts
      /\ s * m >= SetupFactor * r * n
      /\ s * m - r * n >= SetupFloor * n * m
  BY <1>1, <1>2, SMTT(30) DEF SlowSetup
<1>5. PICK x, y, z, w : x = s * m /\ y = r * n /\ z = SetupFactor * r * n /\ w = SetupFloor * n * m
  OBVIOUS
<1>6. x \in Nat /\ y \in Nat /\ z \in Nat /\ w \in Nat
  BY <1>3, <1>5, RulesAssumption, SMTT(30)
<1>7. (s + 1) * m = x + m
  BY <1>3, <1>5, SMTT(30)
<1>8. x + m >= z /\ (x + m) - y >= w
  BY <1>3, <1>4, <1>5, <1>6, SMTT(30)
<1>9. (s + 1) * m >= SetupFactor * r * n /\ (s + 1) * m - r * n >= SetupFloor * n * m
  BY <1>5, <1>7, <1>8, SMTT(30)
<1> QED BY <1>1, <1>2, <1>4, <1>9, SMTT(30) DEF SlowSetup

\* A period like its baseline fires no rule.
LEMMA SteadyFiresNothing ==
  ASSUME NEW b \in EdgeAggregate, Attempts(b) > 0
  PROVE  Fired(b, b) = {}
<1>1. Past(b) = b
  BY DEF Past
<1>2. ASSUME NEW x \in Nat \ {0}, NEW y \in Nat \ {0}
      PROVE  x * y > 0 /\ x * y \in Nat \ {0}
  BY SMTT(30)
<1>3. ~FailureSpike(b, TRUE, b)
  <2> SUFFICES ASSUME FailureSpike(b, TRUE, b)
               PROVE  FALSE
    OBVIOUS
  <2>1. PICK f, n : f = b.failed /\ n = Attempts(b)
    OBVIOUS
  <2>2. f \in Nat /\ n \in Nat \ {0}
    <3>1. f \in Nat /\ n \in Nat
      BY <2>1, AttemptsCounted DEF FailureSpike
    <3> QED BY <2>1, <3>1, SMTT(30)
  <2>3. 100 * (f * n - f * n) >= FailPercent * n * n
    BY <2>1, SMTT(30) DEF FailureSpike
  <2>4. FailPercent \in Nat \ {0}
    BY RulesAssumption, SMTT(30)
  <2>5. FailPercent * n * n > 0
    BY <1>2, <2>2, <2>4
  <2> QED BY <2>2, <2>3, <2>4, <2>5, SMTT(30)
<1>4. ~SlowSetup(b, TRUE, b)
  <2> SUFFICES ASSUME SlowSetup(b, TRUE, b)
               PROVE  FALSE
    OBVIOUS
  <2>1. PICK s, n : s = b.setupSum /\ n = b.setups
    OBVIOUS
  <2>2. s \in Nat /\ n \in Nat \ {0}
    <3>1. s \in Nat /\ n \in Nat
      BY <2>1, AggregateTyped
    <3> QED BY <2>1, <3>1, SMTT(30) DEF SlowSetup
  <2>3. s * n - s * n >= SetupFloor * n * n
    BY <2>1, SMTT(30) DEF SlowSetup
  <2>4. SetupFloor \in Nat \ {0}
    BY RulesAssumption, RuleCasesAssumption, SMTT(30)
  <2>5. SetupFloor * n * n > 0
    BY <1>2, <2>2, <2>4
  <2> QED BY <2>2, <2>3, <2>4, <2>5, SMTT(30)
<1>5. ASSUME NEW t \in Fired(b, b)
      PROVE  FALSE
  <2>1. \/ FailureSpike(b, Attempts(b) > 0, b)
        \/ SlowSetup(b, Attempts(b) > 0, b)
    BY <1>1, FiredIs
  <2> QED BY <1>3, <1>4, <2>1 DEF FailureSpike, SlowSetup
<1> QED BY <1>5

\* detect is what it is meant to be, for every pair of aggregates: quiet when a period
\* is like its baseline, and never quieter for more failures or a slower setup.
THEOREM AnomalyIsSound == case \in Cases \cup {NoCase} => AnomalySound
<1> SUFFICES ASSUME case \in Cases, case # NoCase
             PROVE  AnomalySound
  BY SMTT(30) DEF AnomalySound, SteadyIsQuiet, WorseIsNotQuieter
<1>1. PICK b \in EdgeAggregate, c \in EdgeAggregate : case = <<b, c>>
  <2>1. case \in EdgeAggregate \X EdgeAggregate
    BY RuleCasesAssumption
  <2> QED BY <2>1, SMTT(30)
<1>2. case[1] = b /\ case[2] = c
  BY <1>1
<1>3. SteadyIsQuiet
  BY <1>2, SteadyFiresNothing DEF SteadyIsQuiet
<1>4. NewType \notin {"FAILURE_SPIKE", "SLOW_SETUP"}
  BY DEF NewType
<1>5. ASSUME c.conns > 0, c.failed # NotMeasured, "FAILURE_SPIKE" \in Fired(b, c),
             NEW d, d = [c EXCEPT !.conns = c.conns - 1, !.failed = c.failed + 1]
      PROVE  "FAILURE_SPIKE" \in Fired(b, d)
  <2>1. Attempts(c) > 0 /\ FailureSpike(c, Attempts(b) > 0, Past(b))
    <3>1. PICK t : t = "FAILURE_SPIKE"
      OBVIOUS
    <3>2. /\ Attempts(c) > 0
          /\ \/ ~(Attempts(b) > 0) /\ t = NewType
             \/ FailureSpike(c, Attempts(b) > 0, Past(b)) /\ t = "FAILURE_SPIKE"
             \/ SlowSetup(c, Attempts(b) > 0, Past(b)) /\ t = "SLOW_SETUP"
      <4>1. t \in Fired(b, c)
        BY <1>5, <3>1
      <4> QED BY <4>1, FiredIs
    <3>3. t # NewType /\ t # "SLOW_SETUP"
      BY <1>4, <3>1
    <3> QED BY <3>2, <3>3
  <2>2. c.conns \in Nat /\ c.failed \in Nat /\ Attempts(c) = c.conns + c.failed
    BY <1>5, AggregateTyped, AttemptsCounted
  <2>3. d.conns = c.conns - 1 /\ d.failed = c.failed + 1
    BY <1>5, SMTT(30) DEF EdgeAggregate
  <2>4. Attempts(d) = Attempts(c)
    BY <2>2, <2>3, SMTT(30) DEF Attempts, Failures, NotMeasured
  <2>5. FailureSpike(d, Attempts(b) > 0, Past(b))
    BY <2>1, <2>3, <2>4, SpikeGrows
  <2> QED BY <2>1, <2>4, <2>5, FiredIs
<1>6. ASSUME c.setups > 0, "SLOW_SETUP" \in Fired(b, c),
             NEW d, d = [c EXCEPT !.setupSum = @ + 1]
      PROVE  "SLOW_SETUP" \in Fired(b, d)
  <2>1. Attempts(c) > 0 /\ SlowSetup(c, Attempts(b) > 0, Past(b))
    BY <1>4, <1>6, FiredIs
  <2>2. /\ d.conns = c.conns /\ d.failed = c.failed /\ d.setups = c.setups
        /\ d.setupSum = c.setupSum + 1
    BY <1>6, SMTT(30) DEF EdgeAggregate
  <2>3. Attempts(d) = Attempts(c)
    BY <2>2 DEF Attempts, Failures
  <2>4. SlowSetup(d, Attempts(b) > 0, Past(b))
    BY <2>1, <2>2, SlowGrows
  <2> QED BY <2>1, <2>3, <2>4, FiredIs
<1>7. WorseIsNotQuieter
  BY <1>2, <1>5, <1>6 DEF WorseIsNotQuieter
<1> QED BY <1>3, <1>7 DEF AnomalySound
=============================================================================
