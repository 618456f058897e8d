-------------------------- MODULE AggregateProofs ---------------------------
(***************************************************************************)
(* Proofs about the aggregator, for every set of observations.             *)
(***************************************************************************)
EXTENDS Aggregate, SequenceTheorems, FiniteSetTheorems, TLAPS

\* Most leaves are first-order; those about numbers, sequences or records name SMT.
USE ZenonT(30)

-----------------------------------------------------------------------------
(* Sums.                                                                   *)

Summable(f) == IsFiniteSet(Units(f))

\* A unit of f is one of the f[x] units of some x.
LEMMA UnitOf ==
  ASSUME NEW f, NEW u
  PROVE  u \in Units(f) <=> \E x \in DOMAIN f : u \in {x} \X (1..f[x])
BY DEF Units

\* A sum of natural numbers is one.
LEMMA TotalNat ==
  ASSUME NEW f, Summable(f)
  PROVE  Total(f) \in Nat
BY FS_CardinalityType DEF Summable, Total

\* Nothing sums to zero.
LEMMA TotalNone ==
  ASSUME NEW f, DOMAIN f = {}
  PROVE  Summable(f) /\ Total(f) = 0
<1>1. Units(f) = {}
  BY UnitOf
<1> QED BY <1>1, FS_EmptySet DEF Summable, Total

\* The units of one element.
LEMMA OneTotal ==
  ASSUME NEW x, NEW n \in Nat
  PROVE  IsFiniteSet({x} \X (1..n)) /\ Cardinality({x} \X (1..n)) = n
<1>1. IsFiniteSet({x}) /\ Cardinality({x}) = 1
  BY FS_Singleton
<1>2. IsFiniteSet(1..n) /\ Cardinality(1..n) = n
  <2>1. 1 \in Int /\ n \in Int /\ (IF 1 > n THEN 0 ELSE n - 1 + 1) = n
    BY SMTT(30)
  <2> QED BY <2>1, FS_Interval
<1>3. IsFiniteSet({x} \X (1..n)) /\ Cardinality({x} \X (1..n)) = 1 * n
  <2>1. PICK S, T : S = {x} /\ T = 1..n
    OBVIOUS
  <2>2. IsFiniteSet(S \X T) /\ Cardinality(S \X T) = Cardinality(S) * Cardinality(T)
    BY <1>1, <1>2, <2>1, FS_Product
  <2> QED BY <1>1, <1>2, <2>1, <2>2
<1>4. 1 * n = n
  BY SMTT(30)
<1> QED BY <1>3, <1>4

\* g is f with x added.
Adds(g, f, x) ==
  /\ x \notin DOMAIN f /\ DOMAIN g = DOMAIN f \cup {x}
  /\ \A y \in DOMAIN f : g[y] = f[y]

\* One more term adds its value.
LEMMA TotalAdds ==
  ASSUME NEW f, NEW g, NEW x, Adds(g, f, x), Summable(f), g[x] \in Nat
  PROVE  Summable(g) /\ Total(g) = Total(f) + g[x]
<1>1. PICK V, W, O : V = Units(f) /\ W = Units(g) /\ O = {x} \X (1..g[x])
  OBVIOUS
<1>2. W = V \cup O
  <2>1. ASSUME NEW u
        PROVE  u \in W <=> u \in V \/ u \in O
    <3>1. u \in V <=> \E y \in DOMAIN f : u \in {y} \X (1..f[y])
      BY <1>1, UnitOf
    <3>2. u \in W <=> \E y \in DOMAIN g : u \in {y} \X (1..g[y])
      BY <1>1, UnitOf
    <3>3. (\E y \in DOMAIN g : u \in {y} \X (1..g[y]))
            <=> (\E y \in DOMAIN f : u \in {y} \X (1..f[y])) \/ u \in O
      BY <1>1 DEF Adds
    <3> QED BY <3>1, <3>2, <3>3
  <2> QED BY <2>1
<1>3. V \cap O = {}
  <2>1. ASSUME NEW u, u \in V, u \in O
        PROVE  FALSE
    <3>1. PICK y \in DOMAIN f : u \in {y} \X (1..f[y])
      BY <1>1, <2>1, UnitOf
    <3>2. u[1] = y
      BY <3>1
    <3>3. u[1] = x
      BY <1>1, <2>1
    <3> QED BY <3>1, <3>2, <3>3 DEF Adds
  <2> QED BY <2>1
<1>4. IsFiniteSet(O) /\ Cardinality(O) = g[x] /\ IsFiniteSet(V)
  BY <1>1, OneTotal DEF Summable
<1>5. IsFiniteSet(W) /\ Cardinality(W) = Cardinality(V) + Cardinality(O) - Cardinality({})
  <2>1. IsFiniteSet(V \cup O) /\ Cardinality(V \cup O) = Cardinality(V) + Cardinality(O) - Cardinality(V \cap O)
    BY <1>4, FS_Union
  <2> QED BY <1>2, <1>3, <2>1
<1>6. Cardinality(V) \in Nat /\ Cardinality({}) = 0
  BY <1>4, FS_CardinalityType, FS_EmptySet
<1>7. Cardinality(V) + Cardinality(O) - 0 = Cardinality(V) + g[x]
  BY <1>4, <1>6, SMTT(30)
<1> QED BY <1>1, <1>5, <1>6, <1>7 DEF Summable, Total

\* Only the values other than zero count.
LEMMA TotalSame ==
  ASSUME NEW f, NEW g, DOMAIN g \subseteq DOMAIN f, \A x \in DOMAIN g : g[x] = f[x],
         \A x \in DOMAIN f : x \in DOMAIN g \/ f[x] = 0
  PROVE  Units(g) = Units(f) /\ Total(g) = Total(f) /\ (Summable(f) <=> Summable(g))
<1>1. ASSUME NEW x
      PROVE  {x} \X (1..0) = {}
  BY SMTT(30)
<1>2. ASSUME NEW u
      PROVE  u \in Units(g) <=> u \in Units(f)
  <2>1. u \in Units(f) <=> \E y \in DOMAIN f : u \in {y} \X (1..f[y])
    BY UnitOf
  <2>2. u \in Units(g) <=> \E y \in DOMAIN g : u \in {y} \X (1..g[y])
    BY UnitOf
  <2>3. ASSUME NEW y \in DOMAIN g, u \in {y} \X (1..g[y])
        PROVE  \E x \in DOMAIN f : u \in {x} \X (1..f[x])
    <3>1. y \in DOMAIN f /\ g[y] = f[y]
      OBVIOUS
    <3> QED BY <2>3, <3>1
  <2>4. ASSUME NEW y \in DOMAIN f, u \in {y} \X (1..f[y])
        PROVE  \E x \in DOMAIN g : u \in {x} \X (1..g[x])
    <3>1. f[y] # 0
      BY <1>1, <2>4
    <3>2. y \in DOMAIN g /\ g[y] = f[y]
      BY <3>1
    <3> QED BY <2>4, <3>2
  <2> QED BY <2>1, <2>2, <2>3, <2>4
<1>3. Units(g) = Units(f)
  BY <1>2
<1> QED BY <1>3 DEF Total, Summable

\* g is f, or f with x added, except that it has its own value for x.
Puts(g, f, x) ==
  /\ DOMAIN g = DOMAIN f \cup {x}
  /\ \A y \in DOMAIN f : y # x => g[y] = f[y]

ValueAt(f, x) == IF x \in DOMAIN f THEN f[x] ELSE 0

\* Replacing a term, or adding one, changes the sum by the difference.
LEMMA TotalPuts ==
  ASSUME NEW f, NEW g, NEW x, Puts(g, f, x), Summable(f), g[x] \in Nat,
         ValueAt(f, x) \in Nat
  PROVE  Summable(g) /\ Total(g) + ValueAt(f, x) = Total(f) + g[x]
<1>0. PICK v \in Nat : v = ValueAt(f, x)
  OBVIOUS
<1>1. CASE x \notin DOMAIN f
  <2>1. Adds(g, f, x)
    BY <1>1 DEF Puts, Adds
  <2>2. Summable(g) /\ Total(g) = Total(f) + g[x]
    BY <2>1, TotalAdds
  <2>3. v = 0
    BY <1>0, <1>1 DEF ValueAt
  <2>4. Total(g) \in Nat
    BY <2>2, TotalNat
  <2>5. Total(g) + 0 = Total(g)
    BY <2>4, SMTT(30)
  <2> QED BY <1>0, <2>2, <2>3, <2>5
<1>2. CASE x \in DOMAIN f
  <2>1. PICK h : h = [y \in DOMAIN f \ {x} |-> f[y]]
    OBVIOUS
  <2>2. DOMAIN h = DOMAIN f \ {x} /\ \A y \in DOMAIN h : h[y] = f[y]
    BY <2>1
  <2>3. Adds(f, h, x) /\ Adds(g, h, x)
    BY <1>2, <2>2 DEF Puts, Adds
  <2>4. Units(h) \subseteq Units(f)
    <3>1. ASSUME NEW u, u \in Units(h)
          PROVE  u \in Units(f)
      <4>1. PICK y \in DOMAIN h : u \in {y} \X (1..h[y])
        BY <3>1, UnitOf
      <4>2. y \in DOMAIN f /\ h[y] = f[y]
        BY <2>2
      <4> QED BY <4>1, <4>2, UnitOf
    <3> QED BY <3>1
  <2>5. Summable(h)
    <3>1. Units(h) \in SUBSET Units(f) /\ IsFiniteSet(Units(f))
      BY <2>4 DEF Summable
    <3> QED BY <3>1, FS_Subset DEF Summable
  <2>6. f[x] = v
    BY <1>0, <1>2 DEF ValueAt
  <2>7. Total(f) = Total(h) + f[x]
    BY <2>3, <2>5, <2>6, TotalAdds
  <2>8. Summable(g) /\ Total(g) = Total(h) + g[x]
    BY <2>3, <2>5, TotalAdds
  <2>9. PICK n \in Nat, m \in Nat : n = Total(h) /\ m = g[x]
    BY <2>5, TotalNat
  <2>10. (n + m) + v = (n + v) + m
    BY SMTT(30)
  <2> QED BY <1>0, <2>6, <2>7, <2>8, <2>9, <2>10
<1> QED BY <1>1, <1>2

\* h is f and g side by side.
Joins(h, f, g) ==
  /\ DOMAIN h = DOMAIN f \cup DOMAIN g /\ DOMAIN f \cap DOMAIN g = {}
  /\ \A x \in DOMAIN f : h[x] = f[x]
  /\ \A x \in DOMAIN g : h[x] = g[x]

\* The sum over two separate sets of terms.
LEMMA TotalJoins ==
  ASSUME NEW f, NEW g, NEW h, Joins(h, f, g), Summable(h)
  PROVE  Summable(f) /\ Summable(g) /\ Total(h) = Total(f) + Total(g)
<1>1. PICK U, V, W : U = Units(f) /\ V = Units(g) /\ W = Units(h)
  OBVIOUS
<1>2. ASSUME NEW u
      PROVE  u \in W <=> u \in U \/ u \in V
  <2>1. u \in W <=> \E x \in DOMAIN h : u \in {x} \X (1..h[x])
    BY <1>1, UnitOf
  <2>2. u \in U <=> \E x \in DOMAIN f : u \in {x} \X (1..f[x])
    BY <1>1, UnitOf
  <2>3. u \in V <=> \E x \in DOMAIN g : u \in {x} \X (1..g[x])
    BY <1>1, UnitOf
  <2>4. (\E x \in DOMAIN h : u \in {x} \X (1..h[x])) <=>
          \/ \E x \in DOMAIN f : u \in {x} \X (1..f[x])
          \/ \E x \in DOMAIN g : u \in {x} \X (1..g[x])
    BY DEF Joins
  <2> QED BY <2>1, <2>2, <2>3, <2>4
<1>3. W = U \cup V
  BY <1>2
<1>4. U \cap V = {}
  <2>1. ASSUME NEW u, u \in U, u \in V
        PROVE  FALSE
    <3>1. PICK x \in DOMAIN f : u \in {x} \X (1..f[x])
      BY <1>1, <2>1, UnitOf
    <3>2. PICK y \in DOMAIN g : u \in {y} \X (1..g[y])
      BY <1>1, <2>1, UnitOf
    <3>3. u[1] = x /\ u[1] = y
      BY <3>1, <3>2
    <3> QED BY <3>3 DEF Joins
  <2> QED BY <2>1
<1>5. IsFiniteSet(W) /\ U \in SUBSET W /\ V \in SUBSET W
  BY <1>1, <1>3 DEF Summable
<1>6. IsFiniteSet(U) /\ IsFiniteSet(V)
  BY <1>5, FS_Subset
<1>7. Cardinality(U \cup V) = Cardinality(U) + Cardinality(V) - Cardinality(U \cap V)
  BY <1>6, FS_Union
<1>8. Cardinality(U) \in Nat /\ Cardinality(V) \in Nat /\ Cardinality({}) = 0
  BY <1>6, FS_CardinalityType, FS_EmptySet
<1>9. Cardinality(U) + Cardinality(V) - 0 = Cardinality(U) + Cardinality(V)
  BY <1>8, SMTT(30)
<1> QED BY <1>1, <1>3, <1>4, <1>6, <1>7, <1>8, <1>9 DEF Summable, Total

\* A sum of ones and zeros counts the ones.
LEMMA TotalCounts ==
  ASSUME NEW f, NEW S, S \subseteq DOMAIN f, IsFiniteSet(S),
         \A x \in DOMAIN f : f[x] = IF x \in S THEN 1 ELSE 0
  PROVE  Total(f) = Cardinality(S)
<1>1. ASSUME NEW x
      PROVE  {x} \X (1..0) = {} /\ 1..1 = {1}
  BY SMTT(30)
<1>2. ASSUME NEW u
      PROVE  u \in Units(f) <=> u \in S \X {1}
  <2>1. u \in Units(f) <=> \E x \in DOMAIN f : u \in {x} \X (1..f[x])
    BY UnitOf
  <2>2. ASSUME NEW x \in DOMAIN f, u \in {x} \X (1..f[x])
        PROVE  u \in S \X {1}
    <3>1. CASE x \notin S
      BY <1>1, <2>2, <3>1
    <3>2. CASE x \in S
      <4>1. u \in {x} \X {1}
        BY <1>1, <2>2, <3>2
      <4> QED BY <3>2, <4>1
    <3> QED BY <3>1, <3>2
  <2>3. ASSUME u \in S \X {1}
        PROVE  \E x \in DOMAIN f : u \in {x} \X (1..f[x])
    <3>1. PICK x \in S : u \in {x} \X {1}
      BY <2>3
    <3>2. x \in DOMAIN f /\ f[x] = 1 /\ 1..1 = {1}
      BY <1>1
    <3> QED BY <3>1, <3>2
  <2> QED BY <2>1, <2>2, <2>3
<1>3. Units(f) = S \X {1}
  BY <1>2
<1>4. PICK T : T = {1}
  OBVIOUS
<1>5. IsFiniteSet(T) /\ Cardinality(T) = 1
  BY <1>4, FS_Singleton
<1>6. Cardinality(S \X T) = Cardinality(S) * Cardinality(T)
  BY <1>5, FS_Product
<1>7. Cardinality(S) \in Nat
  BY FS_CardinalityType
<1>8. Cardinality(S) * 1 = Cardinality(S)
  BY <1>7, SMTT(30)
<1> QED BY <1>3, <1>4, <1>5, <1>6, <1>8 DEF Total


-----------------------------------------------------------------------------
(* The aggregator.                                                         *)

EdgeKey == Node \X Node \X Port
EdgeMaps == UNION {[D -> Entry] : D \in SUBSET EdgeKey}
CountFields == {"count", "failedCount", "latencyCount", "latencySumUS"}

\* What the observation o adds to each count.
Gain(o) ==
  [count |-> IF o.failed THEN 0 ELSE 1,
   failedCount |-> IF o.failed THEN 1 ELSE 0,
   latencyCount |-> IF ~o.failed /\ o.latency >= 0 THEN 1 ELSE 0,
   latencySumUS |-> IF ~o.failed /\ o.latency >= 0 THEN o.latency ELSE 0]

\* An edge map is a function from edge keys to entries.
LEMMA EdgeMapIs ==
  ASSUME NEW m
  PROVE  m \in EdgeMaps <=> DOMAIN m \subseteq EdgeKey /\ m \in [DOMAIN m -> Entry]
BY DEF EdgeMaps

\* A fresh map holds no edge.
LEMMA NoEdgesMap == NoEdges \in EdgeMaps /\ DOMAIN NoEdges = {}
<1>1. NoEdges \in [{} -> Entry] /\ DOMAIN NoEdges = {}
  BY DEF NoEdges
<1> QED BY <1>1, EdgeMapIs

\* The fields of what the collector hands to Add.
LEMMA ObservationTyped ==
  ASSUME NEW o \in Observations
  PROVE  /\ o.failed \in BOOLEAN /\ o.latency \in Nat \cup {NoLatency} /\ o.ts \in Nat /\ o.port \in Port
         /\ o.source \in Endpoint /\ o.target \in Endpoint
BY ObservationsAssumption

\* What an observation adds is a natural number.
LEMMA GainTyped ==
  ASSUME NEW o \in Observations, NEW f \in CountFields
  PROVE  Gain(o)[f] \in Nat
<1>1. o.failed \in BOOLEAN /\ o.latency \in Nat \cup {NoLatency}
  BY ObservationTyped
<1> QED BY <1>1, SMTT(30) DEF Gain, CountFields, NoLatency

\* The key of a recorded observation names two nodes.
LEMMA RecordedKey ==
  ASSUME NEW o \in Observations, Verdict(o) = "recorded"
  PROVE  KeyOf(o) \in EdgeKey
<1>1. o.source.id \in Node \cup {NoID} /\ o.target.id \in Node \cup {NoID} /\ o.port \in Port
  BY ObservationTyped DEF Endpoint
<1>2. NoID \notin {o.source.id, o.target.id}
  BY SMTT(30) DEF Verdict
<1> QED BY <1>1, <1>2 DEF KeyOf, EdgeKey

\* A new entry counts nothing and its window is the first event.
LEMMA NewEntryFacts ==
  ASSUME NEW o \in Observations
  PROVE  /\ NewEntry(o) \in Entry /\ NewEntry(o).firstSeen = o.ts /\ NewEntry(o).lastSeen = o.ts
         /\ \A f \in CountFields : NewEntry(o)[f] = 0
<1>1. o.ts \in Nat
  BY ObservationTyped
<1> QED BY <1>1, SMTT(30) DEF NewEntry, Entry, CountFields

\* Merged adds the gain, and widens the window to the observation's time.
LEMMA MergedFacts ==
  ASSUME NEW e \in Entry, NEW o \in Observations
  PROVE  /\ Merged(e, o) \in Entry
         /\ \A f \in CountFields : Merged(e, o)[f] = e[f] + Gain(o)[f]
         /\ Merged(e, o).firstSeen = IF o.ts < e.firstSeen THEN o.ts ELSE e.firstSeen
         /\ Merged(e, o).lastSeen = IF o.ts > e.lastSeen THEN o.ts ELSE e.lastSeen
<1>1. o.failed \in BOOLEAN /\ o.latency \in Nat \cup {NoLatency} /\ o.ts \in Nat
  BY ObservationTyped
<1>2. PICK a, b, c, d, x, y : /\ a = IF o.failed THEN e.failedCount + 1 ELSE e.failedCount
                              /\ b = IF o.failed THEN e.count ELSE e.count + 1
                              /\ c = IF ~o.failed /\ o.latency >= 0 THEN e.latencyCount + 1 ELSE e.latencyCount
                              /\ d = IF ~o.failed /\ o.latency >= 0 THEN e.latencySumUS + o.latency
                                     ELSE e.latencySumUS
                              /\ x = IF o.ts < e.firstSeen THEN o.ts ELSE e.firstSeen
                              /\ y = IF o.ts > e.lastSeen THEN o.ts ELSE e.lastSeen
  OBVIOUS
<1>3. Merged(e, o) = [e EXCEPT !.failedCount = a, !.count = b, !.latencyCount = c, !.latencySumUS = d,
                               !.firstSeen = x, !.lastSeen = y]
  BY <1>2, SMTT(30) DEF Merged
<1>4. /\ a \in Nat /\ b \in Nat /\ c \in Nat /\ d \in Nat /\ x \in Nat /\ y \in Nat
      /\ a = e.failedCount + Gain(o).failedCount /\ b = e.count + Gain(o).count
      /\ c = e.latencyCount + Gain(o).latencyCount /\ d = e.latencySumUS + Gain(o).latencySumUS
  BY <1>1, <1>2, SMTT(30) DEF Entry, Gain, NoLatency
<1>5. /\ Merged(e, o) \in Entry
      /\ Merged(e, o).failedCount = a /\ Merged(e, o).count = b /\ Merged(e, o).latencyCount = c
      /\ Merged(e, o).latencySumUS = d /\ Merged(e, o).firstSeen = x /\ Merged(e, o).lastSeen = y
  <2>1. PICK m : m = [e EXCEPT !.failedCount = a, !.count = b, !.latencyCount = c, !.latencySumUS = d,
                               !.firstSeen = x, !.lastSeen = y]
    OBVIOUS
  <2>2. m \in Entry
    BY <1>4, <2>1 DEF Entry
  <2>3. /\ m.failedCount = a /\ m.count = b /\ m.latencyCount = c
        /\ m.latencySumUS = d /\ m.firstSeen = x /\ m.lastSeen = y
    BY <2>1 DEF Entry
  <2> QED BY <1>3, <2>1, <2>2, <2>3
<1>6. \A f \in CountFields : Merged(e, o)[f] = e[f] + Gain(o)[f]
  BY <1>4, <1>5 DEF CountFields
<1> QED BY <1>2, <1>5, <1>6

\* The entry Add merges the observation into.
Base(m, o) == IF KeyOf(o) \in DOMAIN m THEN m[KeyOf(o)] ELSE NewEntry(o)

\* Recorded puts one entry into the map: the one Merged makes.
LEMMA RecordedFacts ==
  ASSUME NEW m \in EdgeMaps, NEW o \in Observations, Verdict(o) = "recorded", NEW n, n = Recorded(m, o)
  PROVE  /\ n \in EdgeMaps /\ Puts(n, m, KeyOf(o)) /\ Base(m, o) \in Entry
         /\ n[KeyOf(o)] = Merged(Base(m, o), o)
<1>1. PICK x : x = KeyOf(o)
  OBVIOUS
<1>2. m \in [DOMAIN m -> Entry] /\ DOMAIN m \subseteq EdgeKey
  BY EdgeMapIs
<1>3. Base(m, o) \in Entry
  BY <1>2, NewEntryFacts DEF Base
<1>4. n = [k \in DOMAIN m \cup {x} |-> IF k # x THEN m[k] ELSE Merged(IF k \in DOMAIN m THEN m[k] ELSE NewEntry(o), o)]
  BY <1>1 DEF Recorded
<1>5. DOMAIN n = DOMAIN m \cup {x} /\ \A k \in DOMAIN m : k # x => n[k] = m[k]
  BY <1>4
<1>6. n[x] = Merged(Base(m, o), o)
  BY <1>1, <1>4 DEF Base
<1>7. n[x] \in Entry
  BY <1>3, <1>6, MergedFacts
<1>8. \A k \in DOMAIN n : n[k] \in Entry
  BY <1>2, <1>5, <1>7
<1>9. n = [k \in DOMAIN n |-> n[k]]
  BY <1>4
<1>10. n \in [DOMAIN n -> Entry]
  BY <1>8, <1>9
<1>11. DOMAIN n \subseteq EdgeKey
  BY <1>1, <1>2, <1>5, RecordedKey
<1> QED BY <1>1, <1>3, <1>5, <1>6, <1>10, <1>11, EdgeMapIs DEF Puts

\* A field of an edge goes up by the gain of what is recorded for it.
LEMMA FieldRecorded ==
  ASSUME NEW m \in EdgeMaps, NEW o \in Observations, Verdict(o) = "recorded", NEW k, NEW f \in CountFields
  PROVE  /\ FieldIn(m, k, f) \in Nat
         /\ FieldIn(Recorded(m, o), k, f) = FieldIn(m, k, f) + (IF k = KeyOf(o) THEN Gain(o)[f] ELSE 0)
<1>1. PICK n, x, g : n = Recorded(m, o) /\ x = KeyOf(o) /\ g = Gain(o)[f]
  OBVIOUS
<1>2. Puts(n, m, x) /\ n[x] = Merged(Base(m, o), o) /\ Base(m, o) \in Entry
  BY <1>1, RecordedFacts, SMTT(30)
<1>3. ASSUME NEW e \in Entry
      PROVE  e[f] \in Nat
  BY SMTT(30) DEF Entry, CountFields
<1>4. m \in [DOMAIN m -> Entry] /\ 0 \in Nat
  BY EdgeMapIs, SMTT(30)
<1>5. FieldIn(m, k, f) \in Nat
  BY <1>3, <1>4 DEF FieldIn
<1>6. CASE k # x
  <2>1. FieldIn(n, k, f) = FieldIn(m, k, f)
    BY <1>2, <1>6 DEF FieldIn, Puts
  <2>2. FieldIn(m, k, f) + 0 = FieldIn(m, k, f)
    BY <1>5, SMTT(30)
  <2> QED BY <1>1, <1>5, <1>6, <2>1, <2>2
<1>7. CASE k = x
  <2>1. FieldIn(n, x, f) = n[x][f]
    BY <1>2, SMTT(30) DEF FieldIn, Puts
  <2>2. n[x][f] = Base(m, o)[f] + g
    BY <1>1, <1>2, MergedFacts, SMTT(30)
  <2>3. Base(m, o)[f] = FieldIn(m, x, f)
    BY <1>1, NewEntryFacts, SMTT(30) DEF Base, FieldIn
  <2> QED BY <1>1, <1>5, <1>7, <2>1, <2>2, <2>3
<1> QED BY <1>6, <1>7


Recording(o) == o \in Observations /\ Verdict(o) = "recorded"
Keys == {KeyOf(o) : o \in Observations}

LogGain(k, f) == [i \in LogOf(k) |-> Gain(log[i])[f]]
BatchField(k, f) == [i \in DOMAIN batches |-> FieldIn(batches[i], k, f)]

\* Every field of every edge is what the observations recorded add up to.
Exact(k, f) ==
  /\ Summable(LogGain(k, f)) /\ Summable(BatchField(k, f))
  /\ FieldIn(edges, k, f) + FieldIn(taken, k, f) + Total(BatchField(k, f)) = Total(LogGain(k, f))

\* Every window is between two events of the edge, every event in a window.
Stamped(k) ==
  /\ \A e \in Entries(k) : (\E i \in LogOf(k) : e.firstSeen = log[i].ts) /\ (\E i \in LogOf(k) : e.lastSeen = log[i].ts)
  /\ \A i \in LogOf(k) : \E e \in Entries(k) : e.firstSeen <= log[i].ts /\ log[i].ts <= e.lastSeen

HasEnds(k) ==
  LogOf(k) # {} =>
    /\ \E i \in LogOf(k) : \A j \in LogOf(k) : log[i].ts <= log[j].ts
    /\ \E i \in LogOf(k) : \A j \in LogOf(k) : log[j].ts <= log[i].ts

CounterNames ==
  {"Observed", "FilteredInfraPort", "FilteredNotGraphable", "FilteredIncompleteID",
   "UnresolvedEndpoints", "AggregatedEdgesFlushed", "BatchesFlushed"}

AggShape ==
  /\ edges \in EdgeMaps /\ IsFiniteSet(DOMAIN edges)
  /\ taken \in EdgeMaps
  /\ aggCounters \in [CounterNames -> Nat]
  /\ flushPc \in {"idle", "build"} /\ (flushPc = "idle" => taken = NoEdges)
  /\ log \in Seq(Observations)
  /\ batches \in Seq(EdgeMaps)

AggInv ==
  /\ AggShape
  /\ \A k \in Keys, f \in CountFields : Exact(k, f)
  /\ \A k \in Keys : Stamped(k) /\ HasEnds(k)

\* What appending to a sequence leaves where it was.
LEMMA SeqAppend ==
  ASSUME NEW S, NEW s \in Seq(S), NEW x \in S, NEW t, t = Append(s, x), NEW n, n = Len(s) + 1
  PROVE  /\ t \in Seq(S) /\ DOMAIN s = 1..Len(s) /\ DOMAIN t = DOMAIN s \cup {n} /\ n \notin DOMAIN s
         /\ t[n] = x /\ (\A i \in DOMAIN s : t[i] = s[i]) /\ n \in Nat /\ Len(t) = n
         /\ \A i \in DOMAIN s : s[i] \in S
BY SMTT(30)

\* A field of an edge is a natural number, zero if the edge is not there.
LEMMA FieldTyped ==
  ASSUME NEW m \in EdgeMaps, NEW k, NEW f \in CountFields
  PROVE  FieldIn(m, k, f) \in Nat
<1>1. ASSUME NEW e \in Entry
      PROVE  e[f] \in Nat
  BY SMTT(30) DEF Entry, CountFields
<1>2. m \in [DOMAIN m -> Entry] /\ 0 \in Nat
  BY EdgeMapIs, SMTT(30)
<1> QED BY <1>1, <1>2, SMTT(30) DEF FieldIn

\* An empty map has no field.
LEMMA NoField ==
  ASSUME NEW k, NEW f, NEW m, DOMAIN m = {}
  PROVE  FieldIn(m, k, f) = 0
BY DEF FieldIn

\* A new aggregator satisfies the invariant.
LEMMA InitAgg == AggInit => AggInv
<1> SUFFICES ASSUME AggInit
             PROVE  AggInv
  OBVIOUS
<1>1. AggShape
  <2>1. aggCounters \in [CounterNames -> Nat]
    BY SMTT(30) DEF AggInit, CounterNames
  <2>2. log \in Seq(Observations) /\ batches \in Seq(EdgeMaps)
    BY SMTT(30) DEF AggInit
  <2> QED BY <2>1, <2>2, NoEdgesMap, FS_EmptySet, SMTT(30) DEF AggInit, AggShape
<1>2. DOMAIN log = {} /\ DOMAIN batches = {}
  BY SMTT(30) DEF AggInit
<1>3. ASSUME NEW k \in Keys, NEW f \in CountFields
      PROVE  Exact(k, f)
  <2>1. DOMAIN LogGain(k, f) = {} /\ DOMAIN BatchField(k, f) = {}
    BY <1>2 DEF LogGain, BatchField, LogOf
  <2>2. /\ Summable(LogGain(k, f)) /\ Summable(BatchField(k, f))
        /\ Total(LogGain(k, f)) = 0 /\ Total(BatchField(k, f)) = 0
    BY <2>1, TotalNone
  <2>3. FieldIn(edges, k, f) = 0 /\ FieldIn(taken, k, f) = 0
    BY NoEdgesMap, NoField DEF AggInit
  <2>4. 0 + 0 + 0 = 0
    BY SMTT(30)
  <2> QED BY <2>2, <2>3, <2>4 DEF Exact
<1>4. ASSUME NEW k \in Keys
      PROVE  Stamped(k) /\ HasEnds(k)
  <2>1. LogOf(k) = {}
    BY <1>2 DEF LogOf
  <2>2. Entries(k) = {}
    BY <1>2, NoEdgesMap DEF AggInit, Entries, Maps
  <2> QED BY <2>1, <2>2 DEF Stamped, HasEnds
<1> QED BY <1>1, <1>3, <1>4 DEF AggInv

\* A step of somebody else keeps it.
LEMMA SameAgg ==
  ASSUME AggInv, UNCHANGED aggVars
  PROVE  AggInv'
<1>1. UNCHANGED <<edges, aggCounters, flushPc, taken, log, batches>>
  BY DEF aggVars
<1>2. AggShape'
  BY <1>1 DEF AggInv, AggShape
<1>3. \A k : LogOf(k)' = LogOf(k) /\ Entries(k)' = Entries(k)
  BY <1>1 DEF LogOf, Entries, Maps
<1>4. \A k, f : Exact(k, f) => Exact(k, f)'
  BY <1>1, <1>3 DEF Exact, LogGain, BatchField
<1>5. \A k : Stamped(k) /\ HasEnds(k) => Stamped(k)' /\ HasEnds(k)'
  BY <1>1, <1>3, SMTT(30) DEF Stamped, HasEnds
<1> QED BY <1>2, <1>4, <1>5 DEF AggInv, Keys


\* Every verdict but one names a counter.
LEMMA VerdictNames ==
  ASSUME NEW o
  PROVE  Verdict(o) \in {"FilteredInfraPort", "UnresolvedEndpoints", "FilteredNotGraphable",
                         "FilteredIncompleteID", "recorded"}
BY SMTT(30) DEF Verdict

\* Add records o: the live map and the log grow by it.
AddRecorded(o, n) ==
  /\ edges' = Recorded(edges, o) /\ log' = Append(log, o) /\ n = Len(log) + 1
  /\ UNCHANGED <<flushPc, taken, batches>>

\* The log of the observation's edge grows by its place.
LEMMA LogGrows ==
  ASSUME AggShape, NEW o, Recording(o), NEW n, AddRecorded(o, n), NEW k
  PROVE  /\ n \notin DOMAIN log /\ log'[n] = o /\ \A i \in DOMAIN log : log'[i] = log[i]
         /\ LogOf(k)' = IF k = KeyOf(o) THEN LogOf(k) \cup {n} ELSE LogOf(k)
         /\ LogOf(k) \subseteq DOMAIN log
<1>1. log \in Seq(Observations) /\ o \in Observations /\ log' = Append(log, o) /\ n = Len(log) + 1
  BY DEF AggShape, Recording, AddRecorded
<1>2. PICK t : t = log'
  BY SMTT(30)
<1>3. DOMAIN t = DOMAIN log \cup {n} /\ n \notin DOMAIN log /\ t[n] = o /\ \A i \in DOMAIN log : t[i] = log[i]
  BY <1>1, <1>2, SeqAppend, SMTT(30)
<1>4. LogOf(k)' = {i \in DOMAIN t : KeyOf(t[i]) = k}
  BY <1>2 DEF LogOf
<1>5. CASE k = KeyOf(o)
  <2>1. ASSUME NEW i
        PROVE  i \in LogOf(k)' <=> i \in LogOf(k) \/ i = n
    BY <1>3, <1>4, <1>5 DEF LogOf
  <2> QED BY <1>2, <1>3, <1>5, <2>1 DEF LogOf
<1>6. CASE k # KeyOf(o)
  <2>1. ASSUME NEW i
        PROVE  i \in LogOf(k)' <=> i \in LogOf(k)
    BY <1>3, <1>4, <1>6 DEF LogOf
  <2> QED BY <1>2, <1>3, <1>6, <2>1 DEF LogOf
<1> QED BY <1>5, <1>6

\* Add keeps every field of every edge exact.
LEMMA AddExact ==
  ASSUME AggShape, NEW o, Recording(o), NEW n, AddRecorded(o, n), NEW k, NEW f \in CountFields, Exact(k, f)
  PROVE  Exact(k, f)'
<1>1. o \in Observations /\ Verdict(o) = "recorded" /\ edges \in EdgeMaps /\ taken \in EdgeMaps
  BY DEF Recording, AggShape
<1>2. PICK a, b, c, d, g : /\ a = FieldIn(edges, k, f) /\ b = FieldIn(taken, k, f) /\ c = Total(BatchField(k, f))
                           /\ d = Total(LogGain(k, f)) /\ g = Gain(o)[f]
  OBVIOUS
<1>3. a \in Nat /\ b \in Nat /\ c \in Nat /\ d \in Nat /\ g \in Nat /\ a + b + c = d
  BY <1>1, <1>2, FieldTyped, TotalNat, GainTyped DEF Exact
<1>4. /\ FieldIn(taken, k, f)' = b /\ BatchField(k, f)' = BatchField(k, f)
      /\ FieldIn(edges, k, f)' = FieldIn(Recorded(edges, o), k, f)
  BY <1>2 DEF AddRecorded, FieldIn, BatchField
<1>5. FieldIn(Recorded(edges, o), k, f) = a + (IF k = KeyOf(o) THEN g ELSE 0)
  BY <1>1, <1>2, FieldRecorded, SMTT(30)
<1>6. PICK G, H : G = LogGain(k, f) /\ H = LogGain(k, f)'
  OBVIOUS
<1>7. /\ n \notin DOMAIN log /\ log'[n] = o /\ \A i \in DOMAIN log : log'[i] = log[i]
      /\ LogOf(k)' = IF k = KeyOf(o) THEN LogOf(k) \cup {n} ELSE LogOf(k)
      /\ LogOf(k) \subseteq DOMAIN log
  BY LogGrows
<1>8. /\ DOMAIN G = LogOf(k) /\ \A i \in DOMAIN G : G[i] = Gain(log[i])[f]
      /\ DOMAIN H = LogOf(k)' /\ \A i \in DOMAIN H : H[i] = Gain(log'[i])[f]
  BY <1>6 DEF LogGain
<1>9. H = [i \in LogOf(k)' |-> Gain(log'[i])[f]] /\ G = [i \in LogOf(k) |-> Gain(log[i])[f]]
  BY <1>6 DEF LogGain
<1>10. Summable(G) /\ Summable(BatchField(k, f)')
  BY <1>4, <1>6 DEF Exact
<1>11. CASE k = KeyOf(o)
  <2>1. Adds(H, G, n) /\ H[n] = g
    <3>1. LogOf(k)' = LogOf(k) \cup {n} /\ n \notin LogOf(k)
      BY <1>7, <1>11
    <3>2. DOMAIN H = DOMAIN G \cup {n} /\ n \notin DOMAIN G
      BY <1>8, <3>1
    <3>3. \A i \in DOMAIN G : H[i] = G[i]
      <4>1. TAKE i \in DOMAIN G
      <4>2. i \in DOMAIN log /\ i \in DOMAIN H
        BY <1>7, <1>8, <3>2
      <4>3. G[i] = Gain(log[i])[f] /\ H[i] = Gain(log'[i])[f] /\ log'[i] = log[i]
        BY <1>7, <1>8, <4>2
      <4> QED BY <4>3
    <3>4. H[n] = g
      <4>1. n \in DOMAIN H
        BY <3>2
      <4>2. H[n] = Gain(log'[n])[f] /\ log'[n] = o
        BY <1>7, <1>8, <4>1
      <4> QED BY <1>2, <4>2
    <3> QED BY <3>2, <3>3, <3>4 DEF Adds
  <2>2. Summable(H) /\ Total(H) = d + g
    <3>1. H[n] \in Nat
      BY <1>3, <2>1
    <3>2. Summable(H) /\ Total(H) = Total(G) + H[n]
      BY <1>10, <2>1, <3>1, TotalAdds
    <3> QED BY <1>2, <1>6, <2>1, <3>2
  <2>3. (a + g) + b + c = d + g
    BY <1>3, SMTT(30)
  <2> QED BY <1>2, <1>4, <1>5, <1>6, <1>10, <1>11, <2>2, <2>3 DEF Exact
<1>12. CASE k # KeyOf(o)
  <2>1. H = G
    BY <1>7, <1>9, <1>12
  <2>2. a + 0 = a
    BY <1>3, SMTT(30)
  <2> QED BY <1>2, <1>3, <1>4, <1>5, <1>6, <1>10, <1>12, <2>1, <2>2 DEF Exact
<1> QED BY <1>11, <1>12

\* The entries of an edge after Add: the live one is merged with o.
LEMMA AddEntries ==
  ASSUME AggShape, NEW o, Recording(o), NEW n, AddRecorded(o, n), NEW k
  PROVE  /\ \A e \in Entries(k) : e \in Entry
         /\ k # KeyOf(o) => Entries(k)' = Entries(k)
         /\ k = KeyOf(o) =>
              /\ Merged(Base(edges, o), o) \in Entries(k)'
              /\ \A e \in Entries(k) : e \in Entries(k)' \/ e = Base(edges, o)
              /\ \A e \in Entries(k)' : e \in Entries(k) \/ e = Merged(Base(edges, o), o)
              /\ Base(edges, o) \in Entries(k) \/ Base(edges, o) = NewEntry(o)
<1>1. o \in Observations /\ Verdict(o) = "recorded" /\ edges \in EdgeMaps /\ taken \in EdgeMaps
  BY DEF Recording, AggShape
<1>2. PICK m, x : m = Recorded(edges, o) /\ x = KeyOf(o)
  OBVIOUS
<1>3. Puts(m, edges, x) /\ m[x] = Merged(Base(edges, o), o)
  BY <1>1, <1>2, RecordedFacts
<1>4. PICK R : R = {taken} \cup {batches[i] : i \in DOMAIN batches}
  OBVIOUS
<1>5. Maps = R \cup {edges} /\ Maps' = R \cup {m}
  BY <1>2, <1>4 DEF Maps, AddRecorded
<1>6. ASSUME NEW e
      PROVE  /\ e \in Entries(k) <=> (\E q \in R : k \in DOMAIN q /\ e = q[k]) \/ (k \in DOMAIN edges /\ e = edges[k])
             /\ e \in Entries(k)' <=> (\E q \in R : k \in DOMAIN q /\ e = q[k]) \/ (k \in DOMAIN m /\ e = m[k])
  BY <1>5 DEF Entries
<1>7. ASSUME NEW e \in Entries(k)
      PROVE  e \in Entry
  <2>1. PICK q \in Maps : k \in DOMAIN q /\ e = q[k]
    BY DEF Entries
  <2>2. \A i \in DOMAIN batches : batches[i] \in EdgeMaps
    BY SMTT(30) DEF AggShape
  <2>3. q \in EdgeMaps
    BY <1>1, <2>2 DEF Maps
  <2> QED BY <2>1, <2>3, EdgeMapIs
<1>8. CASE k # x
  <2>1. \A e : e \in Entries(k)' <=> e \in Entries(k)
    BY <1>3, <1>6, <1>8 DEF Puts
  <2> QED BY <1>2, <1>7, <1>8, <2>1
<1>9. CASE k = x
  <2>1. Merged(Base(edges, o), o) \in Entries(k)'
    BY <1>3, <1>6, <1>9 DEF Puts
  <2>2. \A e \in Entries(k) : e \in Entries(k)' \/ e = Base(edges, o)
    BY <1>2, <1>6, <1>9 DEF Base
  <2>3. \A e \in Entries(k)' : e \in Entries(k) \/ e = Merged(Base(edges, o), o)
    BY <1>3, <1>6, <1>9
  <2>4. Base(edges, o) \in Entries(k) \/ Base(edges, o) = NewEntry(o)
    BY <1>2, <1>6, <1>9 DEF Base
  <2> QED BY <1>2, <1>7, <1>9, <2>1, <2>2, <2>3, <2>4
<1> QED BY <1>8, <1>9


\* Event times are natural numbers.
LEMMA StampsNat ==
  ASSUME AggShape, NEW k
  PROVE  \A i \in LogOf(k) : log[i].ts \in Nat
<1>1. \A i \in DOMAIN log : log[i] \in Observations
  BY SMTT(30) DEF AggShape
<1> QED BY <1>1, ObservationTyped DEF LogOf

\* So are the ends of an entry's window.
LEMMA EntryWindow ==
  ASSUME NEW e \in Entry
  PROVE  e.firstSeen \in Nat /\ e.lastSeen \in Nat
BY DEF Entry

\* Merged's window holds the entry's and the observation's time.
LEMMA MergedWindow ==
  ASSUME NEW e \in Entry, NEW o \in Observations, NEW m, m = Merged(e, o)
  PROVE  /\ m.firstSeen \in {o.ts, e.firstSeen} /\ m.lastSeen \in {o.ts, e.lastSeen}
         /\ m.firstSeen <= o.ts /\ o.ts <= m.lastSeen
         /\ m.firstSeen <= e.firstSeen /\ e.lastSeen <= m.lastSeen
<1>1. PICK t, x, y : t = o.ts /\ x = e.firstSeen /\ y = e.lastSeen
  OBVIOUS
<1>2. t \in Nat /\ x \in Nat /\ y \in Nat
  BY <1>1, ObservationTyped, EntryWindow
<1>3. m.firstSeen = (IF t < x THEN t ELSE x) /\ m.lastSeen = IF t > y THEN t ELSE y
  BY <1>1, MergedFacts
<1>4. PICK p, q : p = m.firstSeen /\ q = m.lastSeen
  OBVIOUS
<1>5. /\ p \in {t, x} /\ q \in {t, y} /\ p <= t /\ t <= q /\ p <= x /\ y <= q
  BY <1>2, <1>3, <1>4, SMTT(30)
<1> QED BY <1>1, <1>4, <1>5

\* Add keeps every window between two events, and every event in a window.
LEMMA AddStamped ==
  ASSUME AggShape, NEW o, Recording(o), NEW n, AddRecorded(o, n), NEW k, Stamped(k)
  PROVE  Stamped(k)'
<1>1. /\ n \notin DOMAIN log /\ log'[n] = o /\ \A i \in DOMAIN log : log'[i] = log[i]
      /\ LogOf(k)' = IF k = KeyOf(o) THEN LogOf(k) \cup {n} ELSE LogOf(k)
      /\ LogOf(k) \subseteq DOMAIN log
  BY LogGrows
<1>2. o \in Observations /\ Verdict(o) = "recorded" /\ edges \in EdgeMaps
  BY DEF Recording, AggShape
<1>3. CASE k # KeyOf(o)
  <2>1. LogOf(k)' = LogOf(k) /\ Entries(k)' = Entries(k) /\ \A i \in LogOf(k) : log'[i] = log[i]
    <3>1. Entries(k)' = Entries(k)
      BY <1>3, AddEntries
    <3> QED BY <1>1, <1>3, <3>1
  <2>2. ASSUME NEW e \in Entries(k)'
        PROVE  /\ \E i \in LogOf(k)' : e.firstSeen = log'[i].ts
               /\ \E i \in LogOf(k)' : e.lastSeen = log'[i].ts
    <3>1. e \in Entries(k)
      BY <2>1
    <3>2. PICK i \in LogOf(k) : e.firstSeen = log[i].ts
      BY <3>1 DEF Stamped
    <3>3. PICK j \in LogOf(k) : e.lastSeen = log[j].ts
      BY <3>1 DEF Stamped
    <3>4. /\ i \in LogOf(k)' /\ e.firstSeen = log'[i].ts
          /\ j \in LogOf(k)' /\ e.lastSeen = log'[j].ts
      BY <2>1, <3>2, <3>3
    <3> QED BY <3>4
  <2>3. ASSUME NEW i \in LogOf(k)'
        PROVE  \E e \in Entries(k)' : e.firstSeen <= log'[i].ts /\ log'[i].ts <= e.lastSeen
    <3>1. i \in LogOf(k) /\ log'[i] = log[i]
      BY <2>1
    <3>2. PICK e \in Entries(k) : e.firstSeen <= log[i].ts /\ log[i].ts <= e.lastSeen
      BY <3>1 DEF Stamped
    <3>3. e \in Entries(k)' /\ e.firstSeen <= log'[i].ts /\ log'[i].ts <= e.lastSeen
      BY <2>1, <3>1, <3>2
    <3> QED BY <3>3
  <2> QED BY <2>2, <2>3 DEF Stamped
<1>4. CASE k = KeyOf(o)
  <2>1. PICK b, m : b = Base(edges, o) /\ m = Merged(b, o)
    OBVIOUS
  <2>2. /\ m \in Entries(k)'
        /\ \A e \in Entries(k) : e \in Entries(k)' \/ e = b
        /\ \A e \in Entries(k)' : e \in Entries(k) \/ e = m
        /\ b \in Entries(k) \/ b = NewEntry(o)
        /\ \A e \in Entries(k) : e \in Entry
    BY <1>4, <2>1, AddEntries
  <2>3. b \in Entry
    BY <1>2, <2>1, RecordedFacts
  <2>4. /\ m.firstSeen \in {o.ts, b.firstSeen} /\ m.lastSeen \in {o.ts, b.lastSeen}
        /\ m.firstSeen <= o.ts /\ o.ts <= m.lastSeen
        /\ m.firstSeen <= b.firstSeen /\ b.lastSeen <= m.lastSeen
    BY <1>2, <2>1, <2>3, MergedWindow
  <2>5. LogOf(k)' = LogOf(k) \cup {n} /\ \A i \in LogOf(k) : log'[i] = log[i]
    BY <1>1, <1>4
  <2>6. ASSUME NEW e \in Entries(k)
        PROVE  /\ \E i \in LogOf(k)' : e.firstSeen = log'[i].ts
               /\ \E i \in LogOf(k)' : e.lastSeen = log'[i].ts
    <3>1. PICK i \in LogOf(k) : e.firstSeen = log[i].ts
      BY DEF Stamped
    <3>2. PICK j \in LogOf(k) : e.lastSeen = log[j].ts
      BY DEF Stamped
    <3>3. /\ i \in LogOf(k)' /\ e.firstSeen = log'[i].ts
          /\ j \in LogOf(k)' /\ e.lastSeen = log'[j].ts
      BY <2>5, <3>1, <3>2
    <3> QED BY <3>3
  <2>7. (\E i \in LogOf(k)' : b.firstSeen = log'[i].ts) /\ (\E i \in LogOf(k)' : b.lastSeen = log'[i].ts)
    <3>1. CASE b \in Entries(k)
      BY <2>6, <3>1
    <3>2. CASE b = NewEntry(o)
      <4>1. b.firstSeen = o.ts /\ b.lastSeen = o.ts
        BY <1>2, <3>2, NewEntryFacts, SMTT(30)
      <4> QED BY <1>1, <2>5, <4>1
    <3> QED BY <2>2, <3>1, <3>2
  <2>8. ASSUME NEW e \in Entries(k)'
        PROVE  /\ \E i \in LogOf(k)' : e.firstSeen = log'[i].ts
               /\ \E i \in LogOf(k)' : e.lastSeen = log'[i].ts
    <3>1. CASE e \in Entries(k)
      BY <2>6, <3>1
    <3>2. CASE e = m
      BY <1>1, <2>4, <2>5, <2>7, <3>2
    <3> QED BY <2>2, <3>1, <3>2
  <2>9. ASSUME NEW i \in LogOf(k)'
        PROVE  \E e \in Entries(k)' : e.firstSeen <= log'[i].ts /\ log'[i].ts <= e.lastSeen
    <3>1. CASE i = n
      BY <1>1, <2>2, <2>4, <3>1
    <3>2. CASE i \in LogOf(k)
      <4>1. PICK t : t = log[i].ts
        OBVIOUS
      <4>2. PICK e \in Entries(k) : e.firstSeen <= t /\ t <= e.lastSeen
        BY <3>2, <4>1 DEF Stamped
      <4>3. t \in Nat /\ t = log'[i].ts
        <5>1. t \in Nat
          BY <3>2, <4>1, StampsNat
        <5>2. t = log'[i].ts
          BY <2>5, <3>2, <4>1
        <5> QED BY <5>1, <5>2
      <4>4. CASE e = b
        <5>1. PICK p, q, x, y : p = m.firstSeen /\ q = m.lastSeen /\ x = b.firstSeen /\ y = b.lastSeen
          OBVIOUS
        <5>2. x \in Nat /\ y \in Nat /\ o.ts \in Nat
          BY <1>2, <2>3, <5>1, EntryWindow, ObservationTyped
        <5>3. p \in Nat /\ q \in Nat /\ p <= x /\ y <= q /\ x <= t /\ t <= y
          <6>1. p \in Nat /\ q \in Nat
            BY <2>4, <5>1, <5>2
          <6>2. p <= x /\ y <= q
            BY <2>4, <5>1
          <6>3. x <= t /\ t <= y
            BY <4>2, <4>4, <5>1
          <6> QED BY <6>1, <6>2, <6>3
        <5>4. p <= t /\ t <= q
          BY <4>3, <5>2, <5>3, SMTT(30)
        <5>5. m.firstSeen <= log'[i].ts /\ log'[i].ts <= m.lastSeen
          BY <4>3, <5>1, <5>4
        <5>6. m \in Entries(k)'
          BY <2>2
        <5> QED BY <5>5, <5>6
      <4>5. CASE e \in Entries(k)'
        BY <4>2, <4>3, <4>5
      <4> QED BY <2>2, <4>4, <4>5
    <3> QED BY <2>5, <3>1, <3>2
  <2> QED BY <2>8, <2>9 DEF Stamped
<1> QED BY <1>3, <1>4

\* After Add an edge still has an earliest and a latest event.
LEMMA AddEnds ==
  ASSUME AggShape, NEW o, Recording(o), NEW n, AddRecorded(o, n), NEW k, HasEnds(k)
  PROVE  HasEnds(k)'
<1>1. /\ n \notin DOMAIN log /\ log'[n] = o /\ \A i \in DOMAIN log : log'[i] = log[i]
      /\ LogOf(k)' = IF k = KeyOf(o) THEN LogOf(k) \cup {n} ELSE LogOf(k)
      /\ LogOf(k) \subseteq DOMAIN log
  BY LogGrows
<1>2. o.ts \in Nat /\ \A i \in LogOf(k) : log[i].ts \in Nat
  BY StampsNat, ObservationTyped DEF Recording
<1>3. CASE k # KeyOf(o)
  <2>1. LogOf(k)' = LogOf(k) /\ \A i \in LogOf(k) : log'[i] = log[i]
    BY <1>1, <1>3
  <2>2. LogOf(k)' # {} =>
          /\ \E i \in LogOf(k)' : \A j \in LogOf(k)' : log'[i].ts <= log'[j].ts
          /\ \E i \in LogOf(k)' : \A j \in LogOf(k)' : log'[j].ts <= log'[i].ts
    BY <2>1, SMTT(30) DEF HasEnds
  <2> QED BY <2>2 DEF HasEnds
<1>4. CASE k = KeyOf(o)
  <2>1. PICK L, M : L = LogOf(k) /\ M = LogOf(k)'
    OBVIOUS
  <2>2. M = L \cup {n} /\ \A i \in L : log'[i] = log[i]
    BY <1>1, <1>4, <2>1
  <2>3. PICK t : t = [i \in M |-> log'[i].ts]
    OBVIOUS
  <2>4. \A i \in M : t[i] \in Nat
    BY <1>1, <1>2, <2>1, <2>2, <2>3
  <2>5. CASE L = {}
    <3>1. M = {n} /\ t[n] <= t[n]
      BY <2>2, <2>4, <2>5, SMTT(30)
    <3> QED BY <2>1, <2>3, <3>1 DEF HasEnds
  <2>6. CASE L # {}
    <3>1. PICK a \in L : \A j \in L : log[a].ts <= log[j].ts
      BY <2>1, <2>6 DEF HasEnds
    <3>2. PICK z \in L : \A j \in L : log[j].ts <= log[z].ts
      BY <2>1, <2>6 DEF HasEnds
    <3>3. \A j \in L : t[a] <= t[j] /\ t[j] <= t[z]
      BY <2>2, <2>3, <3>1, <3>2
    <3>4. PICK u, v, w : u = t[a] /\ v = t[z] /\ w = t[n] /\ u \in Nat /\ v \in Nat /\ w \in Nat
      BY <2>2, <2>4
    <3>5. \A x \in Nat : (u <= x /\ w <= u => w <= x) /\ (x <= v /\ v <= w => x <= w) /\ w <= w
      BY <3>4, SMTT(30)
    <3>6. \E i \in M : \A j \in M : t[i] <= t[j]
      <4>1. CASE u <= w
        <5>1. \A j \in M : t[a] <= t[j]
          BY <2>2, <3>3, <3>4, <4>1
        <5> QED BY <2>2, <5>1
      <4>2. CASE w <= u
        <5>1. \A j \in L : t[n] <= t[j]
          BY <2>2, <2>4, <3>3, <3>4, <3>5, <4>2
        <5>2. t[n] <= t[n]
          BY <3>4, <3>5
        <5> QED BY <2>2, <5>1, <5>2
      <4>3. u <= w \/ w <= u
        BY <3>4, SMTT(30)
      <4> QED BY <4>1, <4>2, <4>3
    <3>7. \E i \in M : \A j \in M : t[j] <= t[i]
      <4>1. CASE w <= v
        <5>1. \A j \in M : t[j] <= t[z]
          BY <2>2, <3>3, <3>4, <4>1
        <5> QED BY <2>2, <5>1
      <4>2. CASE v <= w
        <5>1. \A j \in L : t[j] <= t[n]
          BY <2>2, <2>4, <3>3, <3>4, <3>5, <4>2
        <5>2. t[n] <= t[n]
          BY <3>4, <3>5
        <5> QED BY <2>2, <5>1, <5>2
      <4>3. w <= v \/ v <= w
        BY <3>4, SMTT(30)
      <4> QED BY <4>1, <4>2, <4>3
    <3>8. (\E i \in M : \A j \in M : log'[i].ts <= log'[j].ts) /\ (\E i \in M : \A j \in M : log'[j].ts <= log'[i].ts)
      BY <2>3, <3>6, <3>7
    <3> QED BY <2>1, <3>8 DEF HasEnds
  <2> QED BY <2>5, <2>6
<1> QED BY <1>3, <1>4


\* Counters that go up by natural numbers stay natural numbers.
LEMMA CountersTyped ==
  ASSUME NEW c \in [CounterNames -> Nat], NEW a \in CounterNames, NEW b \in CounterNames, NEW n \in Nat
  PROVE  /\ [c EXCEPT ![a] = @ + 1] \in [CounterNames -> Nat]
         /\ [c EXCEPT ![a] = @ + 1, ![b] = @ + n] \in [CounterNames -> Nat]
<1>1. PICK x, y, z : x = c[a] + 1 /\ y = c[b] + n /\ z = (c[a] + 1) + n
  OBVIOUS
<1>2. c[a] \in Nat /\ c[b] \in Nat
  OBVIOUS
<1>3. x \in Nat /\ y \in Nat /\ z \in Nat
  BY <1>1, <1>2, SMTT(30)
<1>4. [c EXCEPT ![a] = x] \in [CounterNames -> Nat]
  BY <1>3
<1>5. [c EXCEPT ![a] = @ + 1, ![b] = @ + n] \in [CounterNames -> Nat]
  BY <1>1, <1>2, <1>3
<1> QED BY <1>1, <1>4, <1>5

\* Add keeps the invariant, whether it records or filters.
LEMMA AddStep ==
  ASSUME AggInv, NEW o \in Observations, Add(o)
  PROVE  AggInv'
<1>1. AggShape
  BY DEF AggInv
<1>2. aggCounters' \in [CounterNames -> Nat]
  <2>1. aggCounters \in [CounterNames -> Nat]
    BY <1>1 DEF AggShape
  <2>2. PICK v : v = Verdict(o)
    OBVIOUS
  <2>3. v \in CounterNames \cup {"recorded"}
    BY <2>2, VerdictNames DEF CounterNames
  <2>4. \/ aggCounters' = [aggCounters EXCEPT !.Observed = @ + 1]
        \/ v # "recorded" /\ aggCounters' = [aggCounters EXCEPT !.Observed = @ + 1, ![v] = @ + 1]
    BY <2>2 DEF Add
  <2>5. "Observed" \in CounterNames /\ 1 \in Nat
    BY SMTT(30) DEF CounterNames
  <2>6. [aggCounters EXCEPT !.Observed = @ + 1] \in [CounterNames -> Nat]
    BY <2>1, <2>5, CountersTyped
  <2>7. v \in CounterNames => [aggCounters EXCEPT !.Observed = @ + 1, ![v] = @ + 1] \in [CounterNames -> Nat]
    BY <2>1, <2>5, CountersTyped
  <2> QED BY <2>3, <2>4, <2>6, <2>7
<1>3. CASE Verdict(o) = "recorded"
  <2>1. Recording(o)
    BY <1>3 DEF Recording
  <2>2. PICK n : n = Len(log) + 1
    OBVIOUS
  <2>3. AddRecorded(o, n)
    BY <1>3, <2>2 DEF Add, AddRecorded
  <2>4. \A k \in Keys, f \in CountFields : Exact(k, f)'
    BY <1>1, <2>1, <2>3, AddExact DEF AggInv
  <2>5. \A k \in Keys : Stamped(k)' /\ HasEnds(k)'
    BY <1>1, <2>1, <2>3, AddStamped, AddEnds DEF AggInv
  <2>6. PICK m : m = Recorded(edges, o)
    OBVIOUS
  <2>7. m \in EdgeMaps /\ Puts(m, edges, KeyOf(o))
    BY <1>1, <1>3, <2>6, RecordedFacts DEF AggShape
  <2>8. DOMAIN m = DOMAIN edges \cup {KeyOf(o)} /\ IsFiniteSet(DOMAIN edges)
    BY <1>1, <2>7 DEF AggShape, Puts
  <2>9. IsFiniteSet(DOMAIN m)
    BY <2>8, FS_AddElement, SMTT(30)
  <2>10. log' \in Seq(Observations)
    <3>1. log' = Append(log, o) /\ log \in Seq(Observations)
      BY <1>1, <2>3 DEF AddRecorded, AggShape
    <3> QED BY <2>2, <3>1, SeqAppend, SMTT(30)
  <2>11. AggShape'
    BY <1>1, <1>2, <2>3, <2>6, <2>7, <2>9, <2>10 DEF AddRecorded, AggShape
  <2> QED BY <2>4, <2>5, <2>11 DEF AggInv, Keys
<1>4. CASE Verdict(o) # "recorded"
  <2>1. UNCHANGED <<edges, log, flushPc, taken, batches>>
    BY <1>4 DEF Add
  <2>2. AggShape'
    BY <1>1, <1>2, <2>1 DEF AggShape
  <2>3. \A k : LogOf(k)' = LogOf(k) /\ Entries(k)' = Entries(k)
    BY <2>1 DEF LogOf, Entries, Maps
  <2>4. \A k, f : Exact(k, f) => Exact(k, f)'
    BY <2>1, <2>3 DEF Exact, LogGain, BatchField
  <2>5. \A k : Stamped(k) /\ HasEnds(k) => Stamped(k)' /\ HasEnds(k)'
    BY <2>1, <2>3 DEF Stamped, HasEnds
  <2> QED BY <2>2, <2>4, <2>5 DEF AggInv, Keys
<1> QED BY <1>3, <1>4

\* A flush step moves entries from one map to another.
Moves(k) == Entries(k)' = Entries(k) /\ UNCHANGED log

\* Moving entries from map to map changes no window.
LEMMA MoveKeeps ==
  ASSUME NEW k, Moves(k), Stamped(k), HasEnds(k)
  PROVE  Stamped(k)' /\ HasEnds(k)'
<1>1. log' = log /\ LogOf(k)' = LogOf(k) /\ Entries(k)' = Entries(k)
  BY DEF Moves, LogOf
<1> QED BY <1>1 DEF Stamped, HasEnds

\* Flush under the lock: the counts change maps, not their sum.
LEMMA SwapStep ==
  ASSUME AggInv, FlushSwap
  PROVE  AggInv'
<1>1. AggShape
  BY DEF AggInv
<1>2. /\ taken = NoEdges /\ taken' = edges /\ edges' = NoEdges /\ flushPc' = "build"
      /\ UNCHANGED <<log, batches>>
  BY <1>1 DEF AggShape, FlushSwap, FreshMap
<1>3. AggShape'
  <2>1. Cardinality(DOMAIN edges) \in Nat
    BY <1>1, FS_CardinalityType DEF AggShape
  <2>2. PICK n \in Nat : n = Cardinality(DOMAIN edges)
    BY <2>1
  <2>3. aggCounters' = [aggCounters EXCEPT !.BatchesFlushed = @ + 1, !.AggregatedEdgesFlushed = @ + n]
    BY <2>2 DEF FlushSwap, CountFlushed
  <2>4. aggCounters \in [CounterNames -> Nat]
    BY <1>1 DEF AggShape
  <2>5. aggCounters' \in [CounterNames -> Nat]
    BY <2>2, <2>3, <2>4, CountersTyped DEF CounterNames
  <2> QED BY <1>1, <1>2, <2>5, NoEdgesMap, FS_EmptySet DEF AggShape
<1>4. ASSUME NEW k \in Keys, NEW f \in CountFields
      PROVE  Exact(k, f)'
  <2>1. Exact(k, f)
    BY DEF AggInv
  <2>2. LogGain(k, f)' = LogGain(k, f) /\ BatchField(k, f)' = BatchField(k, f)
    BY <1>2 DEF LogGain, BatchField, LogOf
  <2>3. PICK a, c, d : a = FieldIn(edges, k, f) /\ c = Total(BatchField(k, f)) /\ d = Total(LogGain(k, f))
    OBVIOUS
  <2>4. a \in Nat /\ c \in Nat
    BY <1>1, <2>1, <2>3, FieldTyped, TotalNat DEF AggShape, Exact
  <2>5. FieldIn(taken, k, f) = 0 /\ FieldIn(edges, k, f)' = 0 /\ FieldIn(taken, k, f)' = a
    <3>1. FieldIn(NoEdges, k, f) = 0
      BY NoEdgesMap, NoField
    <3> QED BY <1>2, <2>3, <3>1 DEF FieldIn
  <2>6. a + 0 + c = d
    BY <2>1, <2>3, <2>5 DEF Exact
  <2>7. 0 + a + c = d
    BY <2>4, <2>6, SMTT(30)
  <2> QED BY <2>1, <2>2, <2>3, <2>5, <2>7 DEF Exact
<1>5. ASSUME NEW k \in Keys
      PROVE  Stamped(k)' /\ HasEnds(k)'
  <2>1. Maps' = Maps
    BY <1>2 DEF Maps
  <2>2. Moves(k)
    BY <1>2, <2>1 DEF Moves, Entries
  <2> QED BY <2>2, MoveKeeps DEF AggInv
<1> QED BY <1>3, <1>4, <1>5 DEF AggInv, Keys

\* Flush after the unlock: the counts of the map become those of a batch.
LEMMA BuildStep ==
  ASSUME AggInv, FlushBuild
  PROVE  AggInv'
<1>1. AggShape
  BY DEF AggInv
<1>2. /\ taken' = NoEdges /\ flushPc' = "idle" /\ UNCHANGED <<edges, aggCounters, log>>
      /\ batches' = IF DOMAIN taken = {} THEN batches ELSE Append(batches, taken)
  BY DEF FlushBuild
<1>3. PICK m, s, t, n : m = taken /\ s = batches /\ t = batches' /\ n = Len(s) + 1
  OBVIOUS
<1>4. m \in EdgeMaps /\ s \in Seq(EdgeMaps)
  BY <1>1, <1>3 DEF AggShape
<1>5. \A k, f : LogGain(k, f)' = LogGain(k, f) /\ FieldIn(edges, k, f)' = FieldIn(edges, k, f)
  BY <1>2 DEF LogGain, LogOf, FieldIn
<1>6. \A k, f : FieldIn(taken, k, f)' = 0
  <2>1. \A k, f : FieldIn(NoEdges, k, f) = 0
    BY NoEdgesMap, NoField
  <2> QED BY <1>2, <2>1 DEF FieldIn
<1>7. CASE DOMAIN m = {}
  <2>1. t = s
    BY <1>2, <1>3, <1>7
  <2>2. AggShape'
    BY <1>1, <1>2, <1>3, <2>1, NoEdgesMap DEF AggShape
  <2>3. ASSUME NEW k \in Keys, NEW f \in CountFields
        PROVE  Exact(k, f)'
    <3>1. FieldIn(taken, k, f) = 0
      BY <1>3, <1>7, NoField
    <3>2. BatchField(k, f)' = BatchField(k, f)
      BY <1>3, <2>1 DEF BatchField
    <3>3. Exact(k, f)
      BY DEF AggInv
    <3> QED BY <1>5, <1>6, <3>1, <3>2, <3>3 DEF Exact
  <2>4. ASSUME NEW k \in Keys
        PROVE  Stamped(k)' /\ HasEnds(k)'
    <3>1. \A q : k \in DOMAIN q => (q \in Maps' <=> q \in Maps)
      BY <1>2, <1>3, <1>7, <2>1, NoEdgesMap DEF Maps
    <3>2. \A e : e \in Entries(k)' <=> e \in Entries(k)
      BY <3>1 DEF Entries
    <3>3. Moves(k)
      BY <1>2, <3>2 DEF Moves
    <3> QED BY <3>3, MoveKeeps DEF AggInv
  <2> QED BY <2>2, <2>3, <2>4 DEF AggInv, Keys
<1>8. CASE DOMAIN m # {}
  <2>1. t = Append(s, m)
    BY <1>2, <1>3, <1>8, SMTT(30)
  <2>2. /\ t \in Seq(EdgeMaps) /\ DOMAIN t = DOMAIN s \cup {n} /\ n \notin DOMAIN s
        /\ t[n] = m /\ \A i \in DOMAIN s : t[i] = s[i]
    BY <1>3, <1>4, <2>1, SeqAppend, SMTT(30)
  <2>3. AggShape'
    BY <1>1, <1>2, <1>3, <2>2, NoEdgesMap DEF AggShape
  <2>4. ASSUME NEW k \in Keys, NEW f \in CountFields
        PROVE  Exact(k, f)'
    <3>1. Exact(k, f)
      BY DEF AggInv
    <3>2. PICK g, h, a, b, d : /\ g = BatchField(k, f) /\ h = BatchField(k, f)'
                               /\ a = FieldIn(edges, k, f) /\ b = FieldIn(m, k, f) /\ d = Total(LogGain(k, f))
      OBVIOUS
    <3>3. /\ DOMAIN g = DOMAIN s /\ \A i \in DOMAIN g : g[i] = FieldIn(s[i], k, f)
          /\ DOMAIN h = DOMAIN t /\ \A i \in DOMAIN h : h[i] = FieldIn(t[i], k, f)
      BY <1>3, <3>2 DEF BatchField, FieldIn
    <3>4. Adds(h, g, n) /\ h[n] = b
      BY <2>2, <3>2, <3>3 DEF Adds
    <3>5. a \in Nat /\ b \in Nat
      BY <1>1, <1>4, <3>2, FieldTyped DEF AggShape
    <3>6. Summable(g) /\ a + b + Total(g) = d
      BY <1>3, <3>1, <3>2 DEF Exact
    <3>7. Summable(h) /\ Total(h) = Total(g) + b /\ Total(g) \in Nat
      BY <3>4, <3>5, <3>6, TotalAdds, TotalNat
    <3>8. a + 0 + Total(h) = d
      BY <3>5, <3>6, <3>7, SMTT(30)
    <3> QED BY <1>5, <1>6, <3>1, <3>2, <3>7, <3>8 DEF Exact
  <2>5. ASSUME NEW k \in Keys
        PROVE  Stamped(k)' /\ HasEnds(k)'
    <3>1. \A q : k \in DOMAIN q => (q \in Maps' <=> q \in Maps)
      <4>1. \A q : q \in {t[i] : i \in DOMAIN t} <=> q = m \/ q \in {s[i] : i \in DOMAIN s}
        BY <2>2
      <4> QED BY <1>2, <1>3, <4>1, NoEdgesMap, SMTT(30) DEF Maps
    <3>2. \A e : e \in Entries(k)' <=> e \in Entries(k)
      BY <3>1 DEF Entries
    <3>3. Moves(k)
      BY <1>2, <3>2 DEF Moves
    <3> QED BY <3>3, MoveKeeps DEF AggInv
  <2> QED BY <2>3, <2>4, <2>5 DEF AggInv, Keys
<1> QED BY <1>7, <1>8

\* Every step of the aggregator keeps the invariant.
LEMMA StepAgg == AggInv /\ [AggNext]_aggVars => AggInv'
<1> SUFFICES ASSUME AggInv, [AggNext]_aggVars
             PROVE  AggInv'
  OBVIOUS
<1>1. CASE \E o \in Observations : Add(o)
  BY <1>1, AddStep
<1>2. CASE FlushSwap
  BY <1>2, SwapStep
<1>3. CASE FlushBuild
  BY <1>3, BuildStep
<1>4. CASE UNCHANGED aggVars
  BY <1>4, SameAgg
<1> QED BY <1>1, <1>2, <1>3, <1>4 DEF AggNext, AggBounded


\* The invariant gives exact counts: sums of ones are cardinalities.
LEMMA ExactlyFromInv == AggInv => AggregatesExactly
<1> SUFFICES ASSUME AggInv, NEW i0 \in DOMAIN log, NEW k, k = KeyOf(log[i0])
             PROVE  LET ok == {i \in LogOf(k) : ~log[i].failed}
                        sampled == {i \in ok : log[i].latency # NoLatency}
                    IN  /\ FieldTotal(k, "count") = Cardinality(ok)
                        /\ FieldTotal(k, "failedCount") = Cardinality(LogOf(k) \ ok)
                        /\ FieldTotal(k, "latencyCount") = Cardinality(sampled)
                        /\ FieldTotal(k, "latencySumUS") = Total([i \in sampled |-> log[i].latency])
  BY DEF AggregatesExactly
<1> DEFINE ok == {i \in LogOf(k) : ~log[i].failed}
           sampled == {i \in ok : log[i].latency # NoLatency}
<1>1. log \in Seq(Observations)
  BY DEF AggInv, AggShape
<1>2. (\A i \in DOMAIN log : log[i] \in Observations) /\ DOMAIN log = 1..Len(log) /\ 1 \in Int /\ Len(log) \in Int
  BY <1>1, SMTT(30)
<1>3. k \in Keys
  BY <1>2 DEF Keys
<1>4. ASSUME NEW f \in CountFields
      PROVE  FieldTotal(k, f) = Total(LogGain(k, f))
  <2>1. Exact(k, f)
    BY <1>3 DEF AggInv
  <2> QED BY <2>1 DEF Exact, FieldTotal, BatchField
<1>5. IsFiniteSet(DOMAIN log)
  BY <1>2, FS_Interval
<1>6. /\ ok \subseteq LogOf(k) /\ sampled \subseteq LogOf(k) /\ LogOf(k) \ ok \subseteq LogOf(k)
      /\ LogOf(k) \subseteq DOMAIN log
  BY DEF LogOf
<1>7. IsFiniteSet(LogOf(k))
  BY <1>5, <1>6, FS_Subset
<1>8. IsFiniteSet(ok) /\ IsFiniteSet(sampled) /\ IsFiniteSet(LogOf(k) \ ok)
  BY <1>6, <1>7, FS_Subset
<1>9. ASSUME NEW i \in LogOf(k)
      PROVE  /\ Gain(log[i])["count"] = IF i \in ok THEN 1 ELSE 0
             /\ Gain(log[i])["failedCount"] = IF i \in LogOf(k) \ ok THEN 1 ELSE 0
             /\ Gain(log[i])["latencyCount"] = IF i \in sampled THEN 1 ELSE 0
             /\ i \in sampled => Gain(log[i])["latencySumUS"] = log[i].latency
             /\ i \notin sampled => Gain(log[i])["latencySumUS"] = 0
  <2>1. PICK o : o = log[i]
    OBVIOUS
  <2>2. o \in Observations
    BY <1>2, <1>6, <2>1
  <2>3. o.failed \in BOOLEAN /\ o.latency \in Nat \cup {NoLatency}
    BY <2>2, ObservationTyped
  <2>4. (o.latency >= 0) <=> (o.latency # NoLatency)
    BY <2>3, SMTT(30) DEF NoLatency
  <2>5. (i \in ok <=> ~o.failed) /\ (i \in sampled <=> ~o.failed /\ o.latency >= 0)
    BY <2>1, <2>4
  <2>6. /\ Gain(o)["count"] = IF o.failed THEN 0 ELSE 1
        /\ Gain(o)["failedCount"] = IF o.failed THEN 1 ELSE 0
        /\ Gain(o)["latencyCount"] = IF ~o.failed /\ o.latency >= 0 THEN 1 ELSE 0
        /\ Gain(o)["latencySumUS"] = IF ~o.failed /\ o.latency >= 0 THEN o.latency ELSE 0
    BY DEF Gain
  <2>7. CASE o.failed
    BY <2>1, <2>5, <2>6, <2>7
  <2>8. CASE ~o.failed
    BY <2>1, <2>5, <2>6, <2>8
  <2> QED BY <2>7, <2>8
<1>10. ASSUME NEW f
       PROVE  DOMAIN LogGain(k, f) = LogOf(k) /\ \A i \in LogOf(k) : LogGain(k, f)[i] = Gain(log[i])[f]
  BY DEF LogGain
<1> HIDE DEF ok, sampled
<1>11. Total(LogGain(k, "count")) = Cardinality(ok)
  <2>1. PICK g : g = LogGain(k, "count")
    OBVIOUS
  <2>2. ok \subseteq DOMAIN g /\ \A i \in DOMAIN g : g[i] = IF i \in ok THEN 1 ELSE 0
    <3>1. DOMAIN g = LogOf(k) /\ \A i \in LogOf(k) : g[i] = Gain(log[i])["count"]
      BY <1>10, <2>1
    <3> QED BY <1>6, <1>9, <2>1, <3>1, SMTT(30)
  <2> QED BY <1>8, <2>1, <2>2, TotalCounts
<1>12. Total(LogGain(k, "failedCount")) = Cardinality(LogOf(k) \ ok)
  <2>1. PICK g, S : g = LogGain(k, "failedCount") /\ S = LogOf(k) \ ok
    OBVIOUS
  <2>2. S \subseteq DOMAIN g /\ \A i \in DOMAIN g : g[i] = IF i \in S THEN 1 ELSE 0
    <3>1. DOMAIN g = LogOf(k) /\ \A i \in LogOf(k) : g[i] = Gain(log[i])["failedCount"]
      BY <1>10, <2>1
    <3> QED BY <1>6, <1>9, <2>1, <3>1
  <2>3. IsFiniteSet(S)
    BY <1>8, <2>1
  <2>4. Total(g) = Cardinality(S)
    BY <2>2, <2>3, TotalCounts
  <2> QED BY <2>1, <2>4
<1>13. Total(LogGain(k, "latencyCount")) = Cardinality(sampled)
  <2>1. PICK g : g = LogGain(k, "latencyCount")
    OBVIOUS
  <2>2. sampled \subseteq DOMAIN g /\ \A i \in DOMAIN g : g[i] = IF i \in sampled THEN 1 ELSE 0
    <3>1. DOMAIN g = LogOf(k) /\ \A i \in LogOf(k) : g[i] = Gain(log[i])["latencyCount"]
      BY <1>10, <2>1
    <3> QED BY <1>6, <1>9, <2>1, <3>1, SMTT(30)
  <2> QED BY <1>8, <2>1, <2>2, TotalCounts
<1>14. Total(LogGain(k, "latencySumUS")) = Total([i \in sampled |-> log[i].latency])
  <2>1. PICK g, h : g = LogGain(k, "latencySumUS") /\ h = [i \in sampled |-> log[i].latency]
    OBVIOUS
  <2>2. DOMAIN h = sampled /\ \A i \in DOMAIN h : h[i] = log[i].latency
    BY <2>1
  <2>3. DOMAIN g = LogOf(k) /\ \A i \in DOMAIN g : g[i] = Gain(log[i])["latencySumUS"]
    BY <1>10, <2>1
  <2>4. DOMAIN h \subseteq DOMAIN g /\ (\A i \in DOMAIN h : h[i] = g[i]) /\ \A i \in DOMAIN g : i \in DOMAIN h \/ g[i] = 0
    BY <1>6, <1>9, <2>2, <2>3
  <2>5. Total(h) = Total(g)
    BY <2>4, TotalSame
  <2> QED BY <2>1, <2>5
<1> QED BY <1>4, <1>11, <1>12, <1>13, <1>14 DEF CountFields, ok, sampled

\* The least and the greatest of a set of numbers are unique.
LEMMA EndsUnique ==
  ASSUME NEW S, \A x \in S : x \in Nat, NEW a \in S
  PROVE  /\ (\A y \in S : a <= y) => Earliest(S) = a
         /\ (\A y \in S : y <= a) => Latest(S) = a
<1>1. ASSUME NEW x \in S, NEW y \in S, x <= y, y <= x
      PROVE  x = y
  <2>1. x \in Nat /\ y \in Nat
    OBVIOUS
  <2> QED BY <1>1, <2>1, SMTT(30)
<1>2. ASSUME \A y \in S : a <= y
      PROVE  Earliest(S) = a
  <2>1. PICK b : b = Earliest(S)
    OBVIOUS
  <2>2. b \in S /\ \A y \in S : b <= y
    BY <1>2, <2>1 DEF Earliest
  <2> QED BY <1>1, <1>2, <2>1, <2>2
<1>3. ASSUME \A y \in S : y <= a
      PROVE  Latest(S) = a
  <2>1. PICK b : b = Latest(S)
    OBVIOUS
  <2>2. b \in S /\ \A y \in S : y <= b
    BY <1>3, <2>1 DEF Latest
  <2> QED BY <1>1, <1>3, <2>1, <2>2
<1> QED BY <1>2, <1>3

\* The invariant gives exact windows.
LEMMA WindowFromInv == AggInv => SeenWindowExact
<1> SUFFICES ASSUME AggInv, NEW i0 \in DOMAIN log, NEW k, k = KeyOf(log[i0])
             PROVE  LET stamps == {log[i].ts : i \in LogOf(k)}
                    IN  /\ Earliest({e.firstSeen : e \in Entries(k)}) = Earliest(stamps)
                        /\ Latest({e.lastSeen : e \in Entries(k)}) = Latest(stamps)
  BY DEF SeenWindowExact
<1>1. AggShape
  BY DEF AggInv
<1>2. \A i \in DOMAIN log : log[i] \in Observations
  BY <1>1, SMTT(30) DEF AggShape
<1>3. k \in Keys /\ i0 \in LogOf(k)
  BY <1>2 DEF Keys, LogOf
<1>4. Stamped(k) /\ HasEnds(k)
  BY <1>3 DEF AggInv
<1>5. PICK T, F, L : /\ T = {log[i].ts : i \in LogOf(k)} /\ F = {e.firstSeen : e \in Entries(k)}
                     /\ L = {e.lastSeen : e \in Entries(k)}
  OBVIOUS
<1>6. \A t \in T : t \in Nat
  BY <1>1, <1>5, StampsNat, SMTT(30)
<1>7. F \subseteq T /\ L \subseteq T
  BY <1>4, <1>5, SMTT(30) DEF Stamped
<1>8. \A x \in F : x \in Nat
  BY <1>6, <1>7
<1>9. \A x \in L : x \in Nat
  BY <1>6, <1>7
<1>10. \A t \in T : (\E x \in F : x <= t) /\ (\E y \in L : t <= y)
  <2>1. ASSUME NEW t \in T
        PROVE  (\E x \in F : x <= t) /\ (\E y \in L : t <= y)
    <3>1. PICK i \in LogOf(k) : t = log[i].ts
      BY <1>5
    <3>2. PICK e \in Entries(k) : e.firstSeen <= t /\ t <= e.lastSeen
      BY <1>4, <3>1 DEF Stamped
    <3>3. e.firstSeen \in F /\ e.lastSeen \in L
      BY <1>5
    <3> QED BY <3>2, <3>3
  <2> QED BY <2>1
<1>11. PICK a \in T : \A t \in T : a <= t
  <2>1. PICK i \in LogOf(k) : \A j \in LogOf(k) : log[i].ts <= log[j].ts
    BY <1>3, <1>4 DEF HasEnds
  <2>2. PICK a : a = log[i].ts
    OBVIOUS
  <2>3. a \in T /\ \A t \in T : a <= t
    BY <1>5, <2>1, <2>2
  <2> QED BY <2>3
<1>12. PICK z \in T : \A t \in T : t <= z
  <2>1. PICK i \in LogOf(k) : \A j \in LogOf(k) : log[j].ts <= log[i].ts
    BY <1>3, <1>4 DEF HasEnds
  <2>2. PICK z : z = log[i].ts
    OBVIOUS
  <2>3. z \in T /\ \A t \in T : t <= z
    BY <1>5, <2>1, <2>2
  <2> QED BY <2>3
<1>13. ASSUME NEW x \in T, NEW y \in T, x <= y, y <= x
       PROVE  x = y
  <2>1. x \in Nat /\ y \in Nat
    BY <1>6
  <2> QED BY <1>13, <2>1, SMTT(30)
<1>14. a \in F /\ \A x \in F : a <= x
  BY <1>7, <1>10, <1>11, <1>13
<1>15. z \in L /\ \A x \in L : x <= z
  BY <1>7, <1>10, <1>12, <1>13
<1>16. Earliest(F) = a /\ Earliest(T) = a
  BY <1>6, <1>8, <1>11, <1>14, EndsUnique
<1>17. Latest(L) = z /\ Latest(T) = z
  BY <1>6, <1>9, <1>12, <1>15, EndsUnique
<1> QED BY <1>5, <1>16, <1>17

\* AggSpec maintains the invariant.
LEMMA AggAlways == AggSpec => []AggInv
BY InitAgg, StepAgg, PTL DEF AggSpec

\* Whatever Add and Flush interleave, for every set of observations and any number
\* of calls, every recorded connection is counted exactly once.
THEOREM AggregatesExact == AggSpec => []AggregatesExactly
BY AggAlways, ExactlyFromInv, PTL

\* However the ring buffer reorders events, first_seen and last_seen over all places
\* are the times of the earliest and the latest event of the edge.
THEOREM WindowExact == AggSpec => []SeenWindowExact
BY AggAlways, WindowFromInv, PTL

=============================================================================
