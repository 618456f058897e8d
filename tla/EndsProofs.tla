----------------------------- MODULE EndsProofs -----------------------------
(***************************************************************************)
(* Proofs about the two ends of the system.  The identity resolver: what a *)
(* resolution may name while the informer caches lag behind the cluster,   *)
(* each by as much as it likes, and what it names when they do not.  The   *)
(* page: whatever the reader does, and whatever order requests, answers,   *)
(* aborts and failures take, it shows what its controls ask for.           *)
(***************************************************************************)
EXTENDS Resolver, Frontend, FiniteSetTheorems, TLAPS

-----------------------------------------------------------------------------
(* The resolver: the inductive invariant.                                  *)

Objects(r) == CASE r = "pods" -> Pod [] r = "sets" -> ReplicaSet [] OTHER -> Service

Endpoint == [ip : Address, ready : BOOLEAN]
PodStatus == {Gone} \cup {v \in [ip : Address, ready : BOOLEAN, finished : BOOLEAN] :
                            v.finished => ~v.ready}

Values(r) == CASE r = "pods" -> PodStatus [] r = "slices" -> SUBSET Endpoint [] OTHER -> BOOLEAN

Table(r) == [Objects(r) -> Values(r)]
WatchEvent(r) == [object : Objects(r), value : Values(r)]

Tables == UNION {Table(r) : r \in Resource}
Tabled(c) == c \in [Resource -> Tables] /\ \A r \in Resource : c[r] \in Table(r)

IsQueues(q) == DOMAIN q = Resource /\ q = [x \in Resource |-> q[x]]

\* What a pod may be taken for: its replica set may be gone from the cache.
Naming(p) == {WorkloadFor(Empty, p), WorkloadIs("Pod", p)}
Answer == {Host, External, Unresolved} \cup {ServiceIs(s) : s \in Service}
            \cup UNION {Naming(p) : p \in Pod}

Step == {"idle", "answered", "pod", "owner", "endpoints", "each", "behind"}
BehindService == {"endpoints", "each", "behind"}

Lookup == [pc : Step, role : {"", "source", "destination"}, ip : Address \cup {NoIP},
           pod : Pod \cup {""}, service : Service \cup {""}, todo : SUBSET Address,
           seen : SUBSET Answer, answer : Answer, current : BOOLEAN]

\* The types; a resolution under way has an address and a role.
ResolverTyped ==
  /\ Tabled(cluster) /\ Tabled(cache)
  /\ IsQueues(pending)
  /\ \A r \in Resource : pending[r] \in Seq(WatchEvent(r))
  /\ held \in [Pod -> SUBSET Address] /\ served \in [Service -> SUBSET Address]
  /\ lookup \in Lookup
  /\ lookup.pc # "idle" => lookup.ip \in Address /\ lookup.role \in {"source", "destination"}

\* The table d follows the table c with the events q to come: c has, of each object, the
\* value of the last of them that is about it, and what d has if there is none.
About(q, o) == {i \in 1..Len(q) : q[i].object = o}
Tracks(d, q, c) ==
  \A o \in DOMAIN c :
    /\ About(q, o) = {} => d[o] = c[o]
    /\ \A i \in About(q, o) : (\A j \in About(q, o) : j <= i) => q[i].value = c[o]

CacheInv == \A r \in Resource : Tracks(cache[r], pending[r], cluster[r])

\* A value that object o may have been given: a pod's address is one it has had, and
\* a ready endpoint was published as such.
Witnessed(r, o, v) ==
  /\ r = "pods" /\ v.ip # NoIP => v.ip \in held[o]
  /\ r = "slices" => \A e \in v : e.ready => e.ip \in served[o]

WitnessInv ==
  \A r \in Resource :
    /\ \A o \in Objects(r) : Witnessed(r, o, cluster[r][o]) /\ Witnessed(r, o, cache[r][o])
    /\ \A i \in 1..Len(pending[r]) : Witnessed(r, pending[r][i].object, pending[r][i].value)

\* Pod p has had an address that was ready behind Service s.
WasBehind(p, s) == held[p] \cap served[s] # {}

\* If answer a is a workload, it has had the address, or was behind its Service.
Founded(ip, a) ==
  a.class = "workload" =>
    \E p \in Pod :
      /\ a \in Naming(p)
      /\ ip \in held[p] \/ \E s \in Service : ClusterIP[s] = ip /\ WasBehind(p, s)

\* What resolution l has gathered was true of some pod at some time.
Gathered(l) ==
  /\ l.pc = "owner" => l.pod \in Pod /\ l.ip \in held[l.pod]
  /\ l.pc \in BehindService =>
       /\ l.service \in Service /\ ClusterIP[l.service] = l.ip
       /\ l.todo \subseteq served[l.service]
       /\ \A w \in l.seen : \E p \in Pod : w \in Naming(p) /\ WasBehind(p, l.service)
  /\ l.pc = "behind" => l.pod \in Pod /\ WasBehind(l.pod, l.service)
  /\ l.pc = "answered" => Founded(l.ip, l.answer)

GatheredInv == Gathered(lookup)

\* The ready pods of a Service, their workloads, and those that resolution l has looked at.
Ready(c, s) == {p \in Selects[s] : c["pods"][p].ready}
Behind(c, s) == {WorkloadFor(c, p) : p \in Ready(c, s)}
LookedAt(c, l) ==
  {p \in Ready(c, l.service) : c["pods"][p].ip \notin l.todo /\ (l.pc = "behind" => p # l.pod)}

\* Truth, of a state c of the cluster.
Says(c, role, ip) ==
  LET owners == {WorkloadFor(c, p) : p \in PodsByIP(c, ip)}
      services == ServicesByClusterIP(c, ip)
  IN  IF role = "source" /\ IsNodeIP(ip) THEN {Host}
      ELSE IF role = "destination" /\ services # {}
           THEN UNION {IF Cardinality(Behind(c, s)) = 1 THEN Behind(c, s) ELSE {ServiceIs(s)} :
                         s \in services}
      ELSE IF owners # {} THEN owners
      ELSE {NoPod(role, ip)}

\* What resolution l has gathered is what c says.
Accurate(c, l) ==
  /\ l.pc \in {"pod", "owner"} =>
       /\ l.role = "source" => ~IsNodeIP(l.ip)
       /\ l.role = "destination" => ServicesByClusterIP(c, l.ip) = {}
  /\ l.pc = "owner" => l.pod \in PodsByIP(c, l.ip)
  /\ l.pc \in BehindService =>
       l.role = "destination" /\ l.service \in ServicesByClusterIP(c, l.ip)
  /\ l.pc = "endpoints" => l.seen = {}
  /\ l.pc \in {"each", "behind"} =>
       /\ l.todo \subseteq {c["pods"][p].ip : p \in Ready(c, l.service)}
       /\ l.seen = {WorkloadFor(c, p) : p \in LookedAt(c, l)}
       /\ ~Ambiguous(l.seen)
  /\ l.pc = "behind" => l.pod \in Ready(c, l.service) /\ c["pods"][l.pod].ip \notin l.todo
  /\ l.pc = "answered" => l.answer \in Says(c, l.role, l.ip)

\* So it is when l began with the caches caught up and the cluster has stood still since.
Exact(l) == l.current => UpToDate /\ (Unshared => Accurate(cluster, l))

ExactInv == Exact(lookup)

ResolverInv == ResolverTyped /\ CacheInv /\ WitnessInv /\ GatheredInv /\ ExactInv

\* Most leaves are first-order; those about numbers, sequences or records name SMT.
USE ZenonT(30)

-----------------------------------------------------------------------------
(* The watches.                                                            *)

\* The event of a change goes to the end: what the cluster has follows.
LEMMA FollowsAppend ==
  ASSUME NEW O, NEW V, NEW c \in [O -> V], NEW d, NEW q \in Seq([object : O, value : V]),
         NEW o \in O, NEW v \in V, Tracks(d, q, c)
  PROVE  Tracks(d, Append(q, [object |-> o, value |-> v]), [c EXCEPT ![o] = v])
<1> DEFINE e == [object |-> o, value |-> v]
           q2 == Append(q, e)
           c2 == [c EXCEPT ![o] = v]
<1>1. e \in [object : O, value : V] /\ e.object = o /\ e.value = v
  BY SMTT(30)
<1>2. /\ Len(q) \in Nat /\ Len(q2) = Len(q) + 1
      /\ \A i \in 1..Len(q) : q2[i] = q[i]
      /\ q2[Len(q) + 1] = e
  <2> HIDE DEF e
  <2> QED BY <1>1, SMTT(30)
<1>3. SUFFICES ASSUME NEW x \in O
               PROVE  /\ About(q2, x) = {} => d[x] = c2[x]
                      /\ \A i \in About(q2, x) :
                           (\A j \in About(q2, x) : j <= i) => q2[i].value = c2[x]
  BY DEF Tracks
<1> HIDE DEF q2, e
<1>4. CASE x = o
  <2>1. c2[x] = v
    BY <1>4
  <2>2. Len(q) + 1 \in About(q2, x)
    BY <1>1, <1>2, <1>4, SMTT(30) DEF About
  <2>3. ASSUME NEW i \in About(q2, x), \A j \in About(q2, x) : j <= i
        PROVE  q2[i].value = c2[x]
    <3>1. i = Len(q) + 1
      BY <2>2, <2>3, <1>2, SMTT(30) DEF About
    <3> QED BY <3>1, <1>1, <1>2, <2>1
  <2> QED BY <2>2, <2>3
<1>5. CASE x # o
  <2>1. c2[x] = c[x]
    BY <1>5
  <2>2. About(q2, x) = About(q, x)
    BY <1>1, <1>2, <1>5, SMTT(30) DEF About
  <2>3. \A i \in About(q, x) : q2[i] = q[i]
    BY <1>2 DEF About
  <2>4. /\ About(q, x) = {} => d[x] = c[x]
        /\ \A i \in About(q, x) : (\A j \in About(q, x) : j <= i) => q[i].value = c[x]
    BY DEF Tracks
  <2> QED BY <2>1, <2>2, <2>3, <2>4
<1> QED BY <1>4, <1>5

\* The first event leaves the queue as the cache takes it.
LEMMA FollowsTail ==
  ASSUME NEW O, NEW V, NEW c \in [O -> V], NEW d \in [O -> V],
         NEW q \in Seq([object : O, value : V]), q # <<>>, Tracks(d, q, c)
  PROVE  Tracks([d EXCEPT ![Head(q).object] = Head(q).value], Tail(q), c)
<1> DEFINE h == Head(q)
           q2 == Tail(q)
           d2 == [d EXCEPT ![h.object] = h.value]
<1>1. /\ Len(q) \in Nat \ {0} /\ Len(q2) = Len(q) - 1 /\ h = q[1]
      /\ \A i \in 1..Len(q2) : q2[i] = q[i + 1]
  BY SMTT(30)
<1>2. h \in [object : O, value : V]
  <2> DEFINE E == [object : O, value : V]
  <2>1. q \in Seq(E)
    OBVIOUS
  <2> HIDE DEF E
  <2>2. h \in E
    BY <2>1, SMTT(30)
  <2> QED BY <2>2 DEF E
<1>3. h.object \in O /\ h.value \in V
  BY <1>2
<1>4. SUFFICES ASSUME NEW x \in O
               PROVE  /\ About(q2, x) = {} => d2[x] = c[x]
                      /\ \A i \in About(q2, x) :
                           (\A j \in About(q2, x) : j <= i) => q2[i].value = c[x]
  BY DEF Tracks
<1>5. /\ About(q, x) = {} => d[x] = c[x]
      /\ \A i \in About(q, x) : (\A j \in About(q, x) : j <= i) => q[i].value = c[x]
  BY DEF Tracks
<1>6. d2[x] = IF x = h.object THEN h.value ELSE d[x]
  BY <1>3
<1> HIDE DEF d2, h, q2
<1>7. \A i \in About(q2, x) : i + 1 \in About(q, x)
  BY <1>1, SMTT(30) DEF About
<1>8. \A j \in About(q, x) : j # 1 => j - 1 \in About(q2, x)
  BY <1>1, SMTT(30) DEF About
<1>9. ASSUME About(q2, x) = {}
      PROVE  d2[x] = c[x]
  <2>1. CASE x = h.object
    <3>1. 1 \in About(q, x)
      BY <2>1, <1>1, SMTT(30) DEF About
    <3>2. \A j \in About(q, x) : j <= 1
      BY <1>8, <1>9, SMTT(30) DEF About
    <3> QED BY <3>1, <3>2, <1>5, <1>6, <1>1, <2>1
  <2>2. CASE x # h.object
    <3>1. About(q, x) = {}
      <4>1. 1 \notin About(q, x)
        BY <2>2, <1>1 DEF About
      <4> QED BY <4>1, <1>8, <1>9
    <3> QED BY <3>1, <1>5, <1>6, <2>2
  <2> QED BY <2>1, <2>2
<1>10. ASSUME NEW i \in About(q2, x), \A j \in About(q2, x) : j <= i
       PROVE  q2[i].value = c[x]
  <2>1. i \in 1..Len(q2) /\ q2[i] = q[i + 1]
    BY <1>1 DEF About
  <2>2. i + 1 \in About(q, x)
    BY <1>7
  <2>3. ASSUME NEW j \in About(q, x)
        PROVE  j <= i + 1
    <3>1. j \in 1..Len(q)
      BY DEF About
    <3>2. CASE j = 1
      BY <3>2, <2>1, SMTT(30)
    <3>3. CASE j # 1
      BY <3>1, <3>3, <1>8, <1>10, <2>1, <1>1, SMTT(30)
    <3> QED BY <3>2, <3>3
  <2> QED BY <1>5, <2>1, <2>2, <2>3
<1> QED BY <1>9, <1>10

-----------------------------------------------------------------------------
(* A change of the cluster.                                                *)

ChangeTo(r, o, v) == r \in Resource /\ o \in Objects(r) /\ v \in Values(r) /\ Change(r, o, v)

\* What pods have had, and what was ready behind Services, only grows.
Grown ==
  /\ held' \in [Pod -> SUBSET Address] /\ served' \in [Service -> SUBSET Address]
  /\ \A p \in Pod : held[p] \subseteq held'[p]
  /\ \A s \in Service : served[s] \subseteq served'[s]

\* One entry of one table is replaced.
EntryReplaced(c, r, o, v, d) == d = [c EXCEPT ![r][o] = v]
OnlyEntry(c, r, o, v, d) ==
  d[r] = [c[r] EXCEPT ![o] = v] /\ \A x \in Resource : x # r => d[x] = c[x]

LEMMA TableReplaced ==
  ASSUME NEW c, Tabled(c), NEW r \in Resource, NEW o \in Objects(r), NEW v \in Values(r),
         NEW d, EntryReplaced(c, r, o, v, d)
  PROVE  Tabled(d) /\ OnlyEntry(c, r, o, v, d)
<1> DEFINE t == [c[r] EXCEPT ![o] = v]
<1>0. d = [c EXCEPT ![r] = t]
  BY DEF EntryReplaced
<1>1. c \in [Resource -> Tables] /\ \A x \in Resource : c[x] \in Table(x)
  BY DEF Tabled
<1>2. t \in Table(r)
  BY <1>1 DEF Table
<1>3. t \in Tables
  BY <1>2 DEF Tables
<1> HIDE DEF t
<1>4. d \in [Resource -> Tables] /\ d[r] = t /\ \A x \in Resource : x # r => d[x] = c[x]
  BY <1>0, <1>1, <1>3
<1>5. \A x \in Resource : d[x] \in Table(x)
  BY <1>1, <1>2, <1>4
<1>6. Tabled(d)
  BY <1>4, <1>5 DEF Tabled
<1> QED BY <1>4, <1>6 DEF t, OnlyEntry

\* The queues are a function of the resources, one replaced at a time.
QueueReplaced(q, r, n, d) == d = [q EXCEPT ![r] = n]
OnlyQueue(q, r, n, d) == d[r] = n /\ \A x \in Resource : x # r => d[x] = q[x]

LEMMA QueuesReplaced ==
  ASSUME NEW q, IsQueues(q), NEW r \in Resource, NEW n, NEW d, QueueReplaced(q, r, n, d)
  PROVE  IsQueues(d) /\ OnlyQueue(q, r, n, d)
BY SMTT(30) DEF IsQueues, QueueReplaced, OnlyQueue

\* A change writes one entry of the cluster and announces it.
Announces(r, o, v) ==
  /\ Tabled(cluster')
  /\ cluster'[r] = [cluster[r] EXCEPT ![o] = v]
  /\ IsQueues(pending')
  /\ pending'[r] = Append(pending[r], [object |-> o, value |-> v])
  /\ \A x \in Resource : x # r => cluster'[x] = cluster[x] /\ pending'[x] = pending[x]
  /\ cache' = cache
  /\ lookup' = [lookup EXCEPT !.current = FALSE]

LEMMA ChangeAnnounces ==
  ASSUME ResolverTyped, NEW r, NEW o, NEW v, ChangeTo(r, o, v)
  PROVE  Announces(r, o, v)
<1>1. /\ r \in Resource /\ o \in Objects(r) /\ v \in Values(r)
      /\ cluster' = [cluster EXCEPT ![r][o] = v]
      /\ pending' = [pending EXCEPT ![r] = Append(pending[r], [object |-> o, value |-> v])]
      /\ lookup' = [lookup EXCEPT !.current = FALSE]
      /\ cache' = cache
  BY DEF ChangeTo, Change
<1>2. /\ Tabled(cluster') /\ cluster'[r] = [cluster[r] EXCEPT ![o] = v]
      /\ \A x \in Resource : x # r => cluster'[x] = cluster[x]
  <2>1. Tabled(cluster)
    BY DEF ResolverTyped
  <2>2. EntryReplaced(cluster, r, o, v, cluster')
    BY <1>1 DEF EntryReplaced
  <2>3. /\ r \in Resource /\ o \in Objects(r) /\ v \in Values(r)
    BY <1>1
  <2>4. Tabled(cluster')
    BY <2>3, <2>1, <2>2, TableReplaced
  <2>5. OnlyEntry(cluster, r, o, v, cluster')
    BY <2>3, <2>1, <2>2, TableReplaced
  <2> QED BY <2>4, <2>5 DEF OnlyEntry
<1>3. /\ IsQueues(pending')
      /\ pending'[r] = Append(pending[r], [object |-> o, value |-> v])
      /\ \A x \in Resource : x # r => pending'[x] = pending[x]
  <2>1. IsQueues(pending)
    BY DEF ResolverTyped
  <2>2. QueueReplaced(pending, r, Append(pending[r], [object |-> o, value |-> v]), pending')
    BY <1>1 DEF QueueReplaced
  <2>3. IsQueues(pending') /\ OnlyQueue(pending, r, Append(pending[r], [object |-> o, value |-> v]), pending')
    BY <1>1, <2>1, <2>2, QueuesReplaced
  <2> QED BY <2>3 DEF OnlyQueue
<1> QED BY <1>1, <1>2, <1>3 DEF Announces

LEMMA ChangeTyped ==
  ASSUME ResolverTyped, NEW r, NEW o, NEW v, ChangeTo(r, o, v), Grown
  PROVE  ResolverTyped'
<1>1. r \in Resource /\ o \in Objects(r) /\ v \in Values(r) /\ Announces(r, o, v)
  BY ChangeAnnounces DEF ChangeTo
<1>4. pending'[r] \in Seq(WatchEvent(r))
  <2>1. [object |-> o, value |-> v] \in WatchEvent(r)
    BY <1>1 DEF WatchEvent
  <2>2. pending[r] \in Seq(WatchEvent(r)) /\ pending'[r] = Append(pending[r], [object |-> o, value |-> v])
    BY <1>1 DEF ResolverTyped, Announces
  <2> QED BY <2>1, <2>2, SMTT(30)
<1>5. \A x \in Resource : pending'[x] \in Seq(WatchEvent(x))
  BY <1>1, <1>4 DEF ResolverTyped, Announces
<1>6. lookup' = [lookup EXCEPT !.current = FALSE] /\ lookup \in Lookup
  BY <1>1 DEF ResolverTyped, Announces
<1>7. lookup' \in Lookup
  BY <1>6 DEF Lookup
<1>8. lookup'.pc = lookup.pc /\ lookup'.ip = lookup.ip /\ lookup'.role = lookup.role
  BY <1>6 DEF Lookup
<1> QED BY <1>1, <1>5, <1>7, <1>8 DEF ResolverTyped, Grown, Announces

LEMMA ChangeCache ==
  ASSUME ResolverTyped, CacheInv, NEW r, NEW o, NEW v, ChangeTo(r, o, v)
  PROVE  CacheInv'
<1>1. r \in Resource /\ o \in Objects(r) /\ v \in Values(r) /\ Announces(r, o, v)
  BY ChangeAnnounces DEF ChangeTo
<1>2. Tracks(cache'[r], pending'[r], cluster'[r])
  <2>1. /\ cluster[r] \in [Objects(r) -> Values(r)]
        /\ pending[r] \in Seq([object : Objects(r), value : Values(r)])
        /\ Tracks(cache[r], pending[r], cluster[r])
    BY <1>1 DEF ResolverTyped, Tabled, Table, WatchEvent, CacheInv
  <2>2. Tracks(cache[r], Append(pending[r], [object |-> o, value |-> v]), [cluster[r] EXCEPT ![o] = v])
    BY <1>1, <2>1, FollowsAppend, SMTT(30)
  <2> QED BY <1>1, <2>2 DEF Announces
<1>3. \A x \in Resource : x # r => Tracks(cache'[x], pending'[x], cluster'[x])
  BY <1>1 DEF CacheInv, Announces
<1> QED BY <1>2, <1>3 DEF CacheInv

\* What was true at some time stays so.
LEMMA StillWitnessed ==
  ASSUME Grown, NEW r \in Resource, NEW o \in Objects(r), NEW v, Witnessed(r, o, v)
  PROVE  Witnessed(r, o, v)'
<1>1. r = "pods" => Objects(r) = Pod
  BY DEF Objects
<1>2. r = "slices" => Objects(r) = Service
  BY DEF Objects
<1> QED BY <1>1, <1>2 DEF Witnessed, Grown

LEMMA ChangeWitness ==
  ASSUME ResolverTyped, WitnessInv, NEW r, NEW o, NEW v, ChangeTo(r, o, v), Grown,
         Witnessed(r, o, v)'
  PROVE  WitnessInv'
<1>1. r \in Resource /\ o \in Objects(r) /\ v \in Values(r) /\ Announces(r, o, v)
  BY ChangeAnnounces DEF ChangeTo
<1>2. /\ cluster'[r] = [cluster[r] EXCEPT ![o] = v]
      /\ \A x \in Resource : x # r => cluster'[x] = cluster[x]
      /\ cache' = cache
  BY <1>1 DEF Announces
<1>3. /\ pending'[r] = Append(pending[r], [object |-> o, value |-> v])
      /\ \A x \in Resource : x # r => pending'[x] = pending[x]
  BY <1>1 DEF Announces
<1>4. cluster[r] \in [Objects(r) -> Values(r)] /\ \A x \in Resource : pending[x] \in Seq(WatchEvent(x))
  BY <1>1 DEF ResolverTyped, Tabled, Table
<1>5. ASSUME NEW x \in Resource, NEW y \in Objects(x)
      PROVE  Witnessed(x, y, cluster[x][y])' /\ Witnessed(x, y, cache[x][y])'
  <2>1. Witnessed(x, y, cluster[x][y]) /\ Witnessed(x, y, cache[x][y])
    BY <1>5 DEF WitnessInv
  <2>2. PICK old, new, cached : old = cluster[x][y] /\ new = cluster'[x][y] /\ cached = cache[x][y]
    OBVIOUS
  <2>3. Witnessed(x, y, old)' /\ Witnessed(x, y, cached)'
    BY <2>1, <2>2, StillWitnessed
  <2>4. new = old \/ (x = r /\ y = o /\ new = v)
    BY <1>2, <1>4, <2>2
  <2>5. Witnessed(x, y, new)'
    BY <2>3, <2>4
  <2> QED BY <2>2, <2>3, <2>5, <1>2 DEF Witnessed
<1>6. ASSUME NEW x \in Resource, NEW i \in 1..Len(pending'[x])
      PROVE  Witnessed(x, pending[x][i].object, pending[x][i].value)'
  <2>1. PICK e : e = pending'[x][i]
    OBVIOUS
  <2>2. CASE i \in 1..Len(pending[x]) /\ pending'[x][i] = pending[x][i]
    <3>1. Witnessed(x, e.object, e.value)
      BY <2>1, <2>2 DEF WitnessInv
    <3>2. e \in WatchEvent(x)
      BY <1>4, <2>1, <2>2, SMTT(30)
    <3>3. e.object \in Objects(x)
      BY <3>2 DEF WatchEvent
    <3>4. PICK y, w : y = e.object /\ w = e.value
      OBVIOUS
    <3>5. Witnessed(x, y, w)'
      BY <3>1, <3>3, <3>4, StillWitnessed
    <3> QED BY <3>4, <3>5, <2>1 DEF Witnessed
  <2>3. CASE x = r /\ e = [object |-> o, value |-> v]
    <3>1. e.object = o /\ e.value = v
      BY <2>3
    <3> QED BY <2>1, <2>3, <3>1 DEF Witnessed
  <2>4. \/ i \in 1..Len(pending[x]) /\ pending'[x][i] = pending[x][i]
        \/ x = r /\ e = [object |-> o, value |-> v]
    <3>1. CASE x # r
      BY <1>3, <3>1
    <3>2. CASE x = r
      <4>1. PICK n : n = [object |-> o, value |-> v]
        OBVIOUS
      <4>2. pending'[x] = Append(pending[x], n) /\ pending[x] \in Seq(WatchEvent(x))
        BY <1>3, <1>4, <3>2, <4>1
      <4>3. \/ i \in 1..Len(pending[x]) /\ pending'[x][i] = pending[x][i]
            \/ pending'[x][i] = n
        BY <4>2, <1>6, SMTT(30)
      <4> QED BY <4>1, <4>3, <2>1, <3>2
    <3> QED BY <3>1, <3>2
  <2> QED BY <2>2, <2>3, <2>4
<1> QED BY <1>5, <1>6 DEF WitnessInv

\* The resolution under way is left as it is, but for its being current.
LookupKept ==
  /\ lookup'.pc = lookup.pc /\ lookup'.ip = lookup.ip /\ lookup'.pod = lookup.pod
  /\ lookup'.service = lookup.service /\ lookup'.todo = lookup.todo
  /\ lookup'.seen = lookup.seen /\ lookup'.answer = lookup.answer

LEMMA StillBehind ==
  ASSUME Grown, NEW p \in Pod, NEW s \in Service, WasBehind(p, s)
  PROVE  WasBehind(p, s)'
BY DEF Grown, WasBehind

LEMMA GatheredGrows ==
  ASSUME ResolverTyped, GatheredInv, Grown, LookupKept
  PROVE  GatheredInv'
<1>1. PICK pc, ip, pod, service, todo, seen :
        /\ pc = lookup.pc /\ ip = lookup.ip /\ pod = lookup.pod /\ service = lookup.service
        /\ todo = lookup.todo /\ seen = lookup.seen
  OBVIOUS
<1>2. /\ pc = lookup'.pc /\ ip = lookup'.ip /\ pod = lookup'.pod /\ service = lookup'.service
      /\ todo = lookup'.todo /\ seen = lookup'.seen
  BY <1>1 DEF LookupKept
<1>3. pc = "owner" => pod \in Pod /\ ip \in held'[pod]
  BY <1>1 DEF GatheredInv, Gathered, Grown
<1>4. ASSUME pc \in BehindService
      PROVE  /\ service \in Service /\ ClusterIP[service] = ip
             /\ todo \subseteq served'[service]
             /\ \A w \in seen : \E p \in Pod : w \in Naming(p) /\ WasBehind(p, service)'
  <2>1. /\ service \in Service /\ ClusterIP[service] = ip
        /\ todo \subseteq served[service]
        /\ \A w \in seen : \E p \in Pod : w \in Naming(p) /\ WasBehind(p, service)
    BY <1>1, <1>4 DEF GatheredInv, Gathered
  <2>2. todo \subseteq served'[service]
    BY <2>1 DEF Grown
  <2>3. \A p \in Pod : WasBehind(p, service) => WasBehind(p, service)'
    BY <2>1, StillBehind
  <2> QED BY <2>1, <2>2, <2>3
<1>5. ASSUME pc = "behind"
      PROVE  pod \in Pod /\ WasBehind(pod, service)'
  <2>1. pod \in Pod /\ WasBehind(pod, service) /\ service \in Service
    BY <1>1, <1>5 DEF GatheredInv, Gathered, BehindService
  <2> QED BY <2>1, StillBehind
<1>6. pc = "answered" => Founded(lookup.ip, lookup.answer)'
  <2>1. SUFFICES ASSUME pc = "answered", lookup.answer.class = "workload"
                 PROVE  \E p \in Pod :
                          /\ lookup.answer \in Naming(p)
                          /\ \/ ip \in held'[p]
                             \/ \E s \in Service : ClusterIP[s] = ip /\ WasBehind(p, s)'
    BY <1>2 DEF Founded, LookupKept
  <2>2. PICK p \in Pod :
          /\ lookup.answer \in Naming(p)
          /\ \/ ip \in held[p]
             \/ \E s \in Service : ClusterIP[s] = ip /\ WasBehind(p, s)
    BY <1>1, <2>1 DEF GatheredInv, Gathered, Founded
  <2>3. held[p] \subseteq held'[p]
    BY DEF Grown
  <2> QED BY <2>2, <2>3, StillBehind
<1>7. pc \in BehindService =>
        /\ lookup'.service \in Service /\ ClusterIP[lookup'.service] = lookup'.ip
        /\ lookup'.todo \subseteq served'[lookup'.service]
        /\ \A w \in lookup'.seen : \E p \in Pod : w \in Naming(p) /\ WasBehind(p, lookup.service)'
  BY <1>2, <1>4 DEF WasBehind
<1>8. pc = "behind" => lookup'.pod \in Pod /\ WasBehind(lookup.pod, lookup.service)'
  BY <1>2, <1>5 DEF WasBehind
<1> QED BY <1>2, <1>3, <1>6, <1>7, <1>8 DEF GatheredInv, Gathered

LEMMA ChangeInv ==
  ASSUME ResolverInv, NEW r, NEW o, NEW v, ChangeTo(r, o, v), Grown, Witnessed(r, o, v)'
  PROVE  ResolverInv'
<1>1. ResolverTyped /\ CacheInv /\ WitnessInv /\ GatheredInv
  BY DEF ResolverInv
<1>2. ResolverTyped'
  BY <1>1, ChangeTyped
<1>3. CacheInv'
  BY <1>1, ChangeCache
<1>4. WitnessInv'
  BY <1>1, ChangeWitness
<1>5. lookup' = [lookup EXCEPT !.current = FALSE] /\ lookup \in Lookup
  BY <1>1 DEF ChangeTo, Change, ResolverTyped
<1>6. LookupKept /\ lookup'.current = FALSE
  BY <1>5 DEF LookupKept, Lookup
<1>7. GatheredInv'
  BY <1>1, <1>6, GatheredGrows
<1>8. ExactInv'
  BY <1>6 DEF ExactInv, Exact
<1> QED BY <1>2, <1>3, <1>4, <1>7, <1>8 DEF ResolverInv

\* An informer takes an event.
LEMMA DeliverInv ==
  ASSUME ResolverInv, NEW r \in Resource, Deliver(r)
  PROVE  ResolverInv'
<1> DEFINE h == Head(pending[r])
<1>1. ResolverTyped /\ CacheInv /\ WitnessInv /\ GatheredInv /\ ExactInv
  BY DEF ResolverInv
<1>2. /\ pending[r] # <<>>
      /\ UNCHANGED <<cluster, lookup, events, held, served>>
      /\ EntryReplaced(cache, r, h.object, h.value, cache')
      /\ QueueReplaced(pending, r, Tail(pending[r]), pending')
  BY DEF Deliver, EntryReplaced, QueueReplaced
<1>3. pending[r] \in Seq(WatchEvent(r)) /\ IsQueues(pending) /\ Tabled(cache)
  BY <1>1 DEF ResolverTyped
<1>4. h \in WatchEvent(r) /\ Tail(pending[r]) \in Seq(WatchEvent(r))
  BY <1>2, <1>3, SMTT(30)
<1>5. h.object \in Objects(r) /\ h.value \in Values(r)
  BY <1>4 DEF WatchEvent
<1> HIDE DEF h
<1>6. Tabled(cache') /\ OnlyEntry(cache, r, h.object, h.value, cache')
  BY <1>2, <1>3, <1>5, TableReplaced
<1>7. IsQueues(pending') /\ OnlyQueue(pending, r, Tail(pending[r]), pending')
  BY <1>2, <1>3, QueuesReplaced
<1>8. \A x \in Resource : pending'[x] \in Seq(WatchEvent(x))
  BY <1>1, <1>4, <1>7 DEF ResolverTyped, OnlyQueue
<1>9. ResolverTyped'
  BY <1>1, <1>2, <1>6, <1>7, <1>8 DEF ResolverTyped
<1>10. CacheInv'
  <2>1. Tracks(cache'[r], pending'[r], cluster'[r])
    <3>1. /\ cluster[r] \in [Objects(r) -> Values(r)] /\ cache[r] \in [Objects(r) -> Values(r)]
          /\ pending[r] \in Seq([object : Objects(r), value : Values(r)])
          /\ Tracks(cache[r], pending[r], cluster[r])
      BY <1>1 DEF ResolverTyped, Tabled, Table, WatchEvent, CacheInv
    <3>2. Tracks([cache[r] EXCEPT ![h.object] = h.value], Tail(pending[r]), cluster[r])
      BY <1>2, <3>1, FollowsTail DEF h
    <3> QED BY <1>2, <1>6, <1>7, <3>2 DEF OnlyEntry, OnlyQueue
  <2>2. \A x \in Resource : x # r => Tracks(cache'[x], pending'[x], cluster'[x])
    BY <1>1, <1>2, <1>6, <1>7 DEF CacheInv, OnlyEntry, OnlyQueue
  <2> QED BY <2>1, <2>2 DEF CacheInv
<1>11. WitnessInv'
  <2>2. Witnessed(r, h.object, h.value)
    <3>1. 1 \in 1..Len(pending[r]) /\ h = pending[r][1]
      BY <1>2, <1>3, SMTT(30) DEF h
    <3> QED BY <3>1, <1>1 DEF WitnessInv
  <2>3. ASSUME NEW x \in Resource, NEW y \in Objects(x)
        PROVE  Witnessed(x, y, cluster[x][y])' /\ Witnessed(x, y, cache[x][y])'
    <3>1. Witnessed(x, y, cluster[x][y]) /\ Witnessed(x, y, cache[x][y])
      BY <1>1, <2>3 DEF WitnessInv
    <3>2. cache[r] \in [Objects(r) -> Values(r)]
      BY <1>3 DEF Tabled, Table
    <3>3. cache'[x][y] = cache[x][y] \/ (x = r /\ y = h.object /\ cache'[x][y] = h.value)
      BY <1>6, <3>2 DEF OnlyEntry
    <3>4. Witnessed(x, y, cache'[x][y])
      BY <2>2, <3>1, <3>3
    <3> QED BY <3>1, <3>4, <1>2 DEF Witnessed
  <2>4. ASSUME NEW x \in Resource, NEW i \in 1..Len(pending'[x])
        PROVE  Witnessed(x, pending[x][i].object, pending[x][i].value)'
    <3>1. \E j \in 1..Len(pending[x]) : pending'[x][i] = pending[x][j]
      <4>1. CASE x # r
        BY <1>7, <4>1 DEF OnlyQueue
      <4>2. CASE x = r
        <5>1. pending'[x] = Tail(pending[x]) /\ pending[x] \in Seq(WatchEvent(x)) /\ pending[x] # <<>>
          BY <1>2, <1>3, <1>7, <4>2 DEF OnlyQueue
        <5>2. i + 1 \in 1..Len(pending[x]) /\ pending'[x][i] = pending[x][i + 1]
          BY <5>1, <2>4, SMTT(30)
        <5> QED BY <5>2
      <4> QED BY <4>1, <4>2
    <3>2. Witnessed(x, pending'[x][i].object, pending'[x][i].value)
      BY <3>1, <1>1 DEF WitnessInv
    <3> QED BY <3>2, <1>2 DEF Witnessed
  <2> QED BY <2>3, <2>4 DEF WitnessInv
<1>12. GatheredInv'
  <2>1. Grown /\ LookupKept
    BY <1>1, <1>2 DEF Grown, LookupKept, ResolverTyped
  <2> QED BY <2>1, <1>1, GatheredGrows
<1>13. ExactInv'
  <2>1. lookup.current => pending[r] = <<>>
    BY <1>1 DEF ExactInv, Exact, UpToDate
  <2>2. ~lookup'.current
    BY <1>2, <2>1
  <2> QED BY <2>2 DEF ExactInv, Exact
<1> QED BY <1>9, <1>10, <1>11, <1>12, <1>13 DEF ResolverInv

-----------------------------------------------------------------------------
(* The changes that the cluster makes.                                     *)

LEMMA GhostsKept ==
  ASSUME ResolverTyped, UNCHANGED <<held, served>>
  PROVE  Grown
BY DEF ResolverTyped, Grown

LEMMA ThePodTyped ==
  ASSUME ResolverTyped, NEW p \in Pod
  PROVE  ThePod(p) \in PodStatus
<1>1. cluster["pods"] \in [Objects("pods") -> Values("pods")]
  BY DEF ResolverTyped, Tabled, Table, Resource
<1>2. Objects("pods") = Pod /\ Values("pods") = PodStatus
  BY DEF Objects, Values
<1> QED BY <1>1, <1>2 DEF ThePod

LEMMA StartPodInv ==
  ASSUME ResolverInv, NEW p \in Pod, NEW ip \in Address, StartPod(p, ip)
  PROVE  ResolverInv'
<1>1. PICK b \in BOOLEAN : Change("pods", p, [ip |-> ip, ready |-> b, finished |-> FALSE])
  BY DEF StartPod
<1>2. PICK v : v = [ip |-> ip, ready |-> b, finished |-> FALSE]
  OBVIOUS
<1>3. v \in PodStatus /\ v.ip = ip
  <2>1. v \in [ip : Address, ready : BOOLEAN, finished : BOOLEAN] /\ v.finished = FALSE /\ v.ip = ip
    BY <1>2
  <2> QED BY <2>1 DEF PodStatus
<1>4. ChangeTo("pods", p, v)
  BY <1>1, <1>2, <1>3 DEF ChangeTo, Resource, Objects, Values
<1>5. held' = [held EXCEPT ![p] = held[p] \cup {ip}] /\ served' = served
  BY DEF StartPod
<1>6. held \in [Pod -> SUBSET Address] /\ served \in [Service -> SUBSET Address]
  BY DEF ResolverInv, ResolverTyped
<1>7. Grown /\ ip \in held'[p]
  <2>1. held[p] \cup {ip} \in SUBSET Address
    BY <1>6
  <2>2. /\ held' \in [Pod -> SUBSET Address]
        /\ held'[p] = held[p] \cup {ip} /\ \A x \in Pod : x # p => held'[x] = held[x]
    BY <1>5, <1>6, <2>1
  <2> QED BY <1>5, <1>6, <2>2 DEF Grown
<1>8. Witnessed("pods", p, v)'
  BY <1>3, <1>7 DEF Witnessed
<1> QED BY <1>4, <1>7, <1>8, ChangeInv

LEMMA FinishPodInv ==
  ASSUME ResolverInv, NEW p \in Pod, FinishPod(p)
  PROVE  ResolverInv'
<1>1. PICK v : v = [ThePod(p) EXCEPT !.ready = FALSE, !.finished = TRUE]
  OBVIOUS
<1>2. ThePod(p) \in [ip : Address, ready : BOOLEAN, finished : BOOLEAN]
  BY ThePodTyped DEF ResolverInv, FinishPod, PodStatus
<1>3. /\ v \in [ip : Address, ready : BOOLEAN, finished : BOOLEAN]
      /\ v.ready = FALSE /\ v.ip = ThePod(p).ip
  BY <1>1, <1>2
<1>4. ChangeTo("pods", p, v)
  <2>1. v \in PodStatus
    BY <1>3 DEF PodStatus
  <2> QED BY <1>1, <2>1 DEF FinishPod, ChangeTo, Resource, Objects, Values
<1>5. Grown
  BY GhostsKept DEF FinishPod, ResolverInv
<1>6. Witnessed("pods", p, v)'
  <2>1. Witnessed("pods", p, ThePod(p))
    BY DEF ResolverInv, WitnessInv, ThePod, Resource, Objects
  <2>2. held' = held
    BY DEF FinishPod
  <2> QED BY <1>3, <2>1, <2>2 DEF Witnessed
<1> QED BY <1>4, <1>5, <1>6, ChangeInv

LEMMA DeletePodInv ==
  ASSUME ResolverInv, NEW p \in Pod, DeletePod(p)
  PROVE  ResolverInv'
<1>1. ChangeTo("pods", p, Gone)
  BY DEF DeletePod, ChangeTo, Resource, Objects, Values, PodStatus
<1>2. Grown
  BY GhostsKept DEF DeletePod, ResolverInv
<1>3. Witnessed("pods", p, Gone)'
  BY DEF Witnessed, Gone
<1> QED BY <1>1, <1>2, <1>3, ChangeInv

LEMMA PublishInv ==
  ASSUME ResolverInv, NEW s \in Service, Publish(s)
  PROVE  ResolverInv'
<1>1. PICK v : v = Endpoints(s)
  OBVIOUS
<1>2. v \in SUBSET Endpoint
  <2>1. SUFFICES ASSUME NEW p \in Selects[s], ThePod(p) # Gone
                 PROVE  [ip |-> ThePod(p).ip, ready |-> ThePod(p).ready] \in Endpoint
    BY <1>1 DEF Endpoints
  <2>2. p \in Pod
    BY ResolverAssumption
  <2>3. ThePod(p) \in [ip : Address, ready : BOOLEAN, finished : BOOLEAN]
    BY <2>1, <2>2, ThePodTyped DEF ResolverInv, PodStatus
  <2> QED BY <2>3 DEF Endpoint
<1>3. ChangeTo("slices", s, v)
  BY <1>1, <1>2 DEF Publish, ChangeTo, Resource, Objects, Values
<1>4. PICK more : more = {e.ip : e \in {e \in v : e.ready}}
  OBVIOUS
<1>5. more \subseteq Address
  BY <1>2, <1>4 DEF Endpoint
<1>6. served' = [served EXCEPT ![s] = served[s] \cup more] /\ held' = held
  BY <1>1, <1>4 DEF Publish
<1>7. held \in [Pod -> SUBSET Address] /\ served \in [Service -> SUBSET Address]
  BY DEF ResolverInv, ResolverTyped
<1>8. Grown /\ more \subseteq served'[s]
  <2>1. served[s] \cup more \in SUBSET Address
    BY <1>5, <1>7
  <2>2. /\ served' \in [Service -> SUBSET Address]
        /\ served'[s] = served[s] \cup more /\ \A x \in Service : x # s => served'[x] = served[x]
    BY <1>6, <1>7, <2>1
  <2> QED BY <1>6, <1>7, <2>2 DEF Grown
<1>9. Witnessed("slices", s, v)'
  BY <1>4, <1>8 DEF Witnessed
<1> QED BY <1>3, <1>8, <1>9, ChangeInv

LEMMA ToggleInv ==
  ASSUME ResolverInv,
         \/ \E s \in Service : ToggleService(s)
         \/ \E t \in ReplicaSet : ToggleSet(t)
  PROVE  ResolverInv'
<1>1. UNCHANGED <<held, served>>
  BY DEF ToggleService, ToggleSet
<1>2. Grown
  BY <1>1, GhostsKept DEF ResolverInv
<1>3. ASSUME NEW s \in Service, ToggleService(s)
      PROVE  ResolverInv'
  <2>1. PICK v : v = ~cluster["services"][s]
    OBVIOUS
  <2>2. ChangeTo("services", s, v)
    BY <1>3, <2>1 DEF ToggleService, ChangeTo, Resource, Objects, Values
  <2>3. Witnessed("services", s, v)'
    BY DEF Witnessed
  <2> QED BY <1>2, <2>2, <2>3, ChangeInv
<1>4. ASSUME NEW t \in ReplicaSet, ToggleSet(t)
      PROVE  ResolverInv'
  <2>1. PICK v : v = ~cluster["sets"][t]
    OBVIOUS
  <2>2. ChangeTo("sets", t, v)
    BY <1>4, <2>1 DEF ToggleSet, ChangeTo, Resource, Objects, Values
  <2>3. Witnessed("sets", t, v)'
    BY DEF Witnessed
  <2> QED BY <1>2, <2>2, <2>3, ChangeInv
<1> QED BY <1>3, <1>4

-----------------------------------------------------------------------------
(* What the lookups return.                                                *)

\* Whichever replica sets the table has: the pod's workload, or the pod itself.
LEMMA WorkloadNamed ==
  ASSUME NEW c, Tabled(c), NEW p \in Pod
  PROVE  WorkloadFor(c, p) \in Naming(p) /\ WorkloadFor(c, p).class = "workload"
<1>1. c["sets"] \in [ReplicaSet -> BOOLEAN]
  <2>1. c["sets"] \in [Objects("sets") -> Values("sets")]
    BY DEF Tabled, Table, Resource
  <2>2. Objects("sets") = ReplicaSet /\ Values("sets") = BOOLEAN
    BY DEF Objects, Values
  <2> QED BY <2>1, <2>2
<1>2. Empty["sets"] = [r \in ReplicaSet |-> TRUE]
  BY DEF Empty
<1>3. \A k, n : WorkloadIs(k, n).class = "workload"
  BY DEF WorkloadIs
<1>4. CASE PodInfo[p].kind = "ReplicaSet"
  <2> DEFINE n == PodInfo[p].name
  <2>1. n \in ReplicaSet
    BY <1>4, ResolverAssumption
  <2>2. Empty["sets"][n] = TRUE /\ c["sets"][n] \in BOOLEAN
    BY <1>1, <1>2, <2>1
  <2>3. CASE c["sets"][n] = TRUE
    <3>1. WorkloadFor(c, p) = WorkloadFor(Empty, p)
      BY <2>2, <2>3 DEF WorkloadFor
    <3>2. \/ WorkloadFor(c, p) = WorkloadIs("Deployment", DeploymentOf[n])
          \/ WorkloadFor(c, p) = WorkloadIs("Pod", p)
      BY <1>4, <2>3 DEF WorkloadFor
    <3> QED BY <1>3, <3>1, <3>2 DEF Naming
  <2>4. CASE c["sets"][n] = FALSE
    <3>1. WorkloadFor(c, p) = WorkloadIs("Pod", p)
      BY <1>4, <2>4 DEF WorkloadFor
    <3> QED BY <1>3, <3>1 DEF Naming
  <2> QED BY <2>2, <2>3, <2>4
<1>5. CASE PodInfo[p].kind # "ReplicaSet"
  <2>1. WorkloadFor(c, p) = WorkloadFor(Empty, p)
    BY <1>5 DEF WorkloadFor
  <2>2. \/ WorkloadFor(c, p) = WorkloadIs(PodInfo[p].kind, PodInfo[p].name)
        \/ WorkloadFor(c, p) = WorkloadIs("Pod", p)
    BY <1>5 DEF WorkloadFor
  <2> QED BY <1>3, <2>1, <2>2 DEF Naming
<1> QED BY <1>4, <1>5

\* Caches that have taken every event are the cluster.
LEMMA CaughtUp ==
  ASSUME ResolverTyped, CacheInv, UpToDate
  PROVE  cache = cluster
<1>1. ASSUME NEW r \in Resource
      PROVE  cache[r] = cluster[r]
  <2>1. cache[r] \in Table(r) /\ cluster[r] \in Table(r) /\ pending[r] = <<>>
    BY DEF ResolverTyped, Tabled, UpToDate
  <2>2. \A o : About(pending[r], o) = {}
    BY <2>1, SMTT(30) DEF About
  <2>3. \A o \in Objects(r) : cache[r][o] = cluster[r][o]
    BY <2>1, <2>2 DEF CacheInv, Tracks, Table
  <2> QED BY <2>1, <2>3, SMTT(30) DEF Table
<1>2. cache \in [Resource -> Tables] /\ cluster \in [Resource -> Tables]
  BY DEF ResolverTyped, Tabled
<1> QED BY <1>1, <1>2, SMTT(30)

LEMMA SaysOfPod ==
  ASSUME NEW c, NEW role, NEW ip, role = "source" => ~IsNodeIP(ip),
         role = "destination" => ServicesByClusterIP(c, ip) = {}
  PROVE  /\ \A p \in PodsByIP(c, ip) : WorkloadFor(c, p) \in Says(c, role, ip)
         /\ PodsByIP(c, ip) = {} => NoPod(role, ip) \in Says(c, role, ip)
<1> DEFINE owners == {WorkloadFor(c, p) : p \in PodsByIP(c, ip)}
<1>1. Says(c, role, ip) = IF owners # {} THEN owners ELSE {NoPod(role, ip)}
  BY DEF Says
<1>2. PodsByIP(c, ip) = {} => owners = {}
  OBVIOUS
<1> QED BY <1>1, <1>2

LEMMA SaysOfService ==
  ASSUME NEW c, NEW ip, NEW s \in ServicesByClusterIP(c, ip)
  PROVE  /\ Cardinality(Behind(c, s)) = 1 => Behind(c, s) \subseteq Says(c, "destination", ip)
         /\ Cardinality(Behind(c, s)) # 1 => ServiceIs(s) \in Says(c, "destination", ip)
<1> DEFINE mine(x) == IF Cardinality(Behind(c, x)) = 1 THEN Behind(c, x) ELSE {ServiceIs(x)}
<1>1. Says(c, "destination", ip) = UNION {mine(x) : x \in ServicesByClusterIP(c, ip)}
  BY DEF Says
<1>2. mine(s) \subseteq Says(c, "destination", ip)
  BY <1>1
<1> QED BY <1>2

LEMMA BehindFinite ==
  ASSUME NEW c, NEW s \in Service
  PROVE  IsFiniteSet(Behind(c, s)) /\ Cardinality(Behind(c, s)) \in Nat
<1>1. Ready(c, s) \subseteq Pod
  BY ResolverAssumption DEF Ready
<1>2. IsFiniteSet(Ready(c, s))
  BY <1>1, ResolverAssumption, FS_Subset
<1>3. IsFiniteSet(Behind(c, s))
  <2> DEFINE f == [p \in Ready(c, s) |-> WorkloadFor(c, p)]
  <2>1. f \in Surjection(Ready(c, s), Behind(c, s))
    BY DEF Behind, Surjection
  <2> QED BY <1>2, <2>1, FS_Surjection
<1> QED BY <1>3, FS_CardinalityType

-----------------------------------------------------------------------------
(* The steps of a resolution.                                              *)

LookupTyped(l) ==
  l \in Lookup /\ (l.pc # "idle" => l.ip \in Address /\ l.role \in {"source", "destination"})

Sound(l) == LookupTyped(l) /\ Gathered(l) /\ Exact(l)

\* A resolution only reads.
LEMMA QueryInv ==
  ASSUME ResolverInv, OnlyQuery, NEW l, Sound(l), lookup' = l
  PROVE  ResolverInv'
<1>1. UNCHANGED <<cluster, cache, pending, events, held, served>>
  BY DEF OnlyQuery
<1>2. ResolverTyped'
  BY <1>1 DEF ResolverInv, ResolverTyped, Sound, LookupTyped
<1>3. CacheInv'
  BY <1>1 DEF ResolverInv, CacheInv
<1>4. WitnessInv'
  BY <1>1 DEF ResolverInv, WitnessInv, Witnessed
<1>5. GatheredInv'
  BY <1>1 DEF Sound, GatheredInv, Gathered, Founded, WasBehind
<1>6. ExactInv'
  <2>1. (UpToDate <=> UpToDate') /\ (Unshared <=> Unshared')
    BY <1>1, SMTT(30) DEF UpToDate, Unshared, Endpoints, ThePod
  <2>2. Accurate(cluster, l) => Accurate(cluster', l)
    BY <1>1
  <2> QED BY <2>1, <2>2 DEF Sound, Exact, ExactInv
<1> QED BY <1>2, <1>3, <1>4, <1>5, <1>6 DEF ResolverInv

LEMMA SoundNow ==
  ASSUME ResolverInv
  PROVE  /\ Sound(lookup)
         /\ lookup.current => cache = cluster /\ (Unshared => Accurate(cluster, lookup))
<1>1. Sound(lookup)
  BY DEF ResolverInv, Sound, LookupTyped, ResolverTyped, GatheredInv, ExactInv
<1>2. ASSUME lookup.current
      PROVE  cache = cluster /\ (Unshared => Accurate(cluster, lookup))
  <2>1. UpToDate /\ (Unshared => Accurate(cluster, lookup))
    BY <1>1, <1>2 DEF Sound, Exact
  <2> QED BY <2>1, CaughtUp DEF ResolverInv
<1> QED BY <1>1, <1>2

\* The last step of a resolution.
LEMMA AnsweredSound ==
  ASSUME ResolverInv, lookup.pc # "idle", NEW a \in Answer,
         Founded(lookup.ip, a),
         lookup.current /\ Unshared => a \in Says(cluster, lookup.role, lookup.ip)
  PROVE  Sound(Answered(a))
<1> DEFINE l == Answered(a)
<1>1. Sound(lookup) /\ lookup \in Lookup
  BY SoundNow DEF Sound, LookupTyped
<1>2. /\ l.pc = "answered" /\ l.answer = a
      /\ l.ip = lookup.ip /\ l.role = lookup.role /\ l.current = lookup.current
  BY <1>1 DEF Answered, Lookup
<1>3. l \in Lookup
  <2>1. "answered" \in Step /\ "" \in Pod \cup {""} /\ "" \in Service \cup {""}
    BY DEF Step
  <2> QED BY <1>1, <2>1 DEF Answered, Lookup
<1> HIDE DEF l
<1>5. LookupTyped(l)
  BY <1>1, <1>2, <1>3 DEF Sound, LookupTyped
<1>6. Founded(l.ip, l.answer)
  BY <1>2
<1>7. Gathered(l)
  BY <1>2, <1>6 DEF Gathered, BehindService
<1>8. Exact(l)
  <2>1. l.current => UpToDate
    BY <1>1, <1>2 DEF Sound, Exact
  <2>2. l.current /\ Unshared => Accurate(cluster, l)
    BY <1>2 DEF Accurate, BehindService
  <2> QED BY <2>1, <2>2 DEF Exact
<1> QED BY <1>5, <1>7, <1>8 DEF Sound, l

\* A resolution begins.
Begun(l, role, ip, pc) ==
  /\ l \in Lookup /\ l.pc = pc /\ l.role = role /\ l.ip = ip /\ l.current = UpToDate
  /\ l.todo = {} /\ l.seen = {}

LEMMA AskedIs ==
  ASSUME NEW role \in {"source", "destination"}, NEW ip \in Address, NEW pc \in Step
  PROVE  Begun(Asked(role, ip, pc), role, ip, pc)
<1>1. /\ "" \in Pod \cup {""} /\ "" \in Service \cup {""} /\ ip \in Address \cup {NoIP}
      /\ NoIP \in Address \cup {NoIP} /\ "" \in {"", "source", "destination"}
      /\ {} \in SUBSET Address /\ {} \in SUBSET Answer /\ Unresolved \in Answer
      /\ role \in {"", "source", "destination"} /\ "idle" \in Step
  BY DEF Answer, Step
<1>2. PICK now \in BOOLEAN : now = UpToDate
  BY DEF UpToDate
<1>3. Idle \in Lookup /\ Idle.todo = {} /\ Idle.seen = {}
  BY <1>1 DEF Lookup, Idle
<1>4. Asked(role, ip, pc) = [Idle EXCEPT !.pc = pc, !.role = role, !.ip = ip, !.current = now]
  BY <1>2 DEF Asked
<1>5. PICK l : l = Asked(role, ip, pc)
  OBVIOUS
<1>6. /\ l \in Lookup /\ l.pc = pc /\ l.role = role /\ l.ip = ip /\ l.current = now
      /\ l.todo = {} /\ l.seen = {}
  BY <1>1, <1>3, <1>4, <1>5 DEF Lookup
<1> QED BY <1>2, <1>5, <1>6 DEF Begun

LEMMA ResolveSourceInv ==
  ASSUME ResolverInv, NEW ip \in Address, ResolveSource(ip)
  PROVE  ResolverInv'
<1>1. OnlyQuery
  BY DEF ResolveSource
<1>2. CASE IsNodeIP(ip)
  <2>1. PICK k, l : k = Asked("source", ip, "answered") /\ l = [k EXCEPT !.answer = Host]
    OBVIOUS
  <2>2. lookup' = l
    BY <1>2, <2>1 DEF ResolveSource, SourceStep
  <2>3. Begun(k, "source", ip, "answered")
    <3>1. "answered" \in Step
      BY DEF Step
    <3> QED BY <2>1, <3>1, AskedIs
  <2>4. Host \in Answer /\ Host.class # "workload"
    BY DEF Answer, Host
  <2>5. /\ l \in Lookup /\ l.pc = "answered" /\ l.role = "source" /\ l.ip = ip
        /\ l.current = UpToDate /\ l.answer = Host
    BY <2>1, <2>3, <2>4 DEF Begun, Lookup
  <2>6. Gathered(l)
    BY <2>4, <2>5 DEF Gathered, Founded, BehindService
  <2>7. Accurate(cluster, l)
    BY <1>2, <2>5 DEF Accurate, Says, BehindService
  <2>8. Sound(l)
    BY <2>5, <2>6, <2>7 DEF Sound, LookupTyped, Exact
  <2> QED BY <1>1, <2>2, <2>8, QueryInv
<1>3. CASE ~IsNodeIP(ip)
  <2>1. PICK l : l = Asked("source", ip, "pod")
    OBVIOUS
  <2>2. lookup' = l
    BY <1>3, <2>1 DEF ResolveSource, SourceStep
  <2>3. Begun(l, "source", ip, "pod")
    <3>1. "pod" \in Step
      BY DEF Step
    <3> QED BY <2>1, <3>1, AskedIs
  <2>4. Gathered(l)
    BY <2>3 DEF Begun, Gathered, BehindService
  <2>5. Accurate(cluster, l)
    BY <1>3, <2>3 DEF Begun, Accurate, BehindService
  <2>6. Sound(l)
    BY <2>3, <2>4, <2>5 DEF Begun, Sound, LookupTyped, Exact
  <2> QED BY <1>1, <2>2, <2>6, QueryInv
<1> QED BY <1>2, <1>3

LEMMA ResolveDestinationInv ==
  ASSUME ResolverInv, NEW ip \in Address, ResolveDestination(ip)
  PROVE  ResolverInv'
<1>1. OnlyQuery
  BY DEF ResolveDestination
<1>2. UpToDate => cache = cluster
  BY CaughtUp DEF ResolverInv
<1>3. CASE ServicesByClusterIP(cache, ip) = {} /\ lookup' = Asked("destination", ip, "pod")
  <2>1. PICK l : l = Asked("destination", ip, "pod")
    OBVIOUS
  <2>2. Begun(l, "destination", ip, "pod")
    <3>1. "pod" \in Step
      BY DEF Step
    <3> QED BY <2>1, <3>1, AskedIs
  <2>3. Gathered(l)
    BY <2>2 DEF Begun, Gathered, BehindService
  <2>4. UpToDate => Accurate(cluster, l)
    BY <1>2, <1>3, <2>2 DEF Begun, Accurate, BehindService
  <2>5. Sound(l)
    BY <2>2, <2>3, <2>4 DEF Begun, Sound, LookupTyped, Exact
  <2> QED BY <1>1, <1>3, <2>1, <2>5, QueryInv
<1>4. ASSUME NEW s \in ServicesByClusterIP(cache, ip),
             lookup' = [Asked("destination", ip, "endpoints") EXCEPT !.service = s]
      PROVE  ResolverInv'
  <2>1. PICK k, l : k = Asked("destination", ip, "endpoints") /\ l = [k EXCEPT !.service = s]
    OBVIOUS
  <2>2. s \in Service /\ ClusterIP[s] = ip
    BY DEF ServicesByClusterIP
  <2>3. Begun(k, "destination", ip, "endpoints")
    <3>1. "endpoints" \in Step
      BY DEF Step
    <3> QED BY <2>1, <3>1, AskedIs
  <2>4. /\ l \in Lookup /\ l.pc = "endpoints" /\ l.role = "destination" /\ l.ip = ip
        /\ l.current = UpToDate /\ l.todo = {} /\ l.seen = {} /\ l.service = s
    BY <2>1, <2>2, <2>3 DEF Begun, Lookup
  <2>5. Gathered(l)
    BY <2>2, <2>4 DEF Gathered
  <2>6. UpToDate => Accurate(cluster, l)
    BY <1>2, <1>4, <2>4 DEF Accurate
  <2>7. Sound(l)
    BY <2>4, <2>5, <2>6 DEF Sound, LookupTyped, Exact
  <2> QED BY <1>1, <1>4, <2>1, <2>7, QueryInv
<1> QED BY <1>3, <1>4 DEF ResolveDestination

\* An address that the table gives a pod is one the pod has had.
LEMMA HasHeld ==
  ASSUME ResolverInv, NEW ip \in Address, NEW p \in PodsByIP(cache, ip)
  PROVE  p \in Pod /\ ip \in held[p]
<1>1. p \in Pod /\ cache["pods"][p].ip = ip /\ ip # NoIP
  BY ResolverAssumption DEF PodsByIP
<1>2. Witnessed("pods", p, cache["pods"][p])
  BY <1>1 DEF ResolverInv, WitnessInv, Resource, Objects
<1> QED BY <1>1, <1>2 DEF Witnessed

LEMMA LookUpPodInv ==
  ASSUME ResolverInv, LookUpPod
  PROVE  ResolverInv'
<1>1. OnlyQuery /\ lookup.pc = "pod"
  BY DEF LookUpPod
<1>2. /\ Sound(lookup) /\ lookup \in Lookup /\ lookup.ip \in Address
      /\ lookup.current => cache = cluster /\ (Unshared => Accurate(cluster, lookup))
  BY <1>1, SoundNow DEF Sound, LookupTyped
<1>3. ASSUME NEW p \in PodsByIP(cache, lookup.ip),
             lookup' = [lookup EXCEPT !.pc = "owner", !.pod = p]
      PROVE  ResolverInv'
  <2>1. PICK l : l = [lookup EXCEPT !.pc = "owner", !.pod = p]
    OBVIOUS
  <2>2. p \in Pod /\ lookup.ip \in held[p]
    BY <1>2, HasHeld
  <2>3. "owner" \in Step
    BY DEF Step
  <2>4. /\ l \in Lookup /\ l.pc = "owner" /\ l.pod = p /\ l.ip = lookup.ip
        /\ l.role = lookup.role /\ l.current = lookup.current
    BY <1>2, <2>1, <2>2, <2>3 DEF Lookup
  <2>5. Gathered(l)
    BY <2>2, <2>4 DEF Gathered, BehindService
  <2>6. lookup.current /\ Unshared => Accurate(cluster, l)
    BY <1>1, <1>2, <1>3, <2>4 DEF Accurate, BehindService
  <2>7. Sound(l)
    BY <1>1, <1>2, <2>4, <2>5, <2>6 DEF Sound, LookupTyped, Exact
  <2> QED BY <1>1, <1>3, <2>1, <2>7, QueryInv
<1>4. CASE PodsByIP(cache, lookup.ip) = {} /\ lookup' = Answered(NoPod(lookup.role, lookup.ip))
  <2>1. PICK a : a = NoPod(lookup.role, lookup.ip)
    OBVIOUS
  <2>2. a \in {Host, External, Unresolved}
    BY <2>1 DEF NoPod
  <2>3. a \in Answer /\ a.class # "workload"
    <3>1. Host.class # "workload" /\ External.class # "workload" /\ Unresolved.class # "workload"
      BY DEF Host, External, Unresolved
    <3> QED BY <2>2, <3>1 DEF Answer
  <2>4. Founded(lookup.ip, a)
    BY <2>3 DEF Founded
  <2>5. lookup.current /\ Unshared => a \in Says(cluster, lookup.role, lookup.ip)
    BY <1>1, <1>2, <1>4, <2>1, SaysOfPod DEF Accurate
  <2>6. Sound(Answered(a))
    BY <1>1, <2>3, <2>4, <2>5, AnsweredSound
  <2>7. PICK l : l = Answered(a)
    OBVIOUS
  <2> QED BY <1>1, <1>4, <2>1, <2>6, <2>7, QueryInv
<1> QED BY <1>3, <1>4 DEF LookUpPod

LEMMA LookUpOwnerInv ==
  ASSUME ResolverInv, LookUpOwner
  PROVE  ResolverInv'
<1>1. OnlyQuery /\ lookup.pc = "owner"
  BY DEF LookUpOwner
<1>2. /\ Sound(lookup)
      /\ lookup.current => cache = cluster /\ (Unshared => Accurate(cluster, lookup))
  BY SoundNow
<1>3. PICK a : a = WorkloadFor(cache, lookup.pod)
  OBVIOUS
<1>4. lookup.pod \in Pod /\ lookup.ip \in held[lookup.pod]
  BY <1>1, <1>2 DEF Sound, Gathered
<1>5. a \in Naming(lookup.pod)
  BY <1>3, <1>4, WorkloadNamed DEF ResolverInv, ResolverTyped
<1>6. a \in Answer
  BY <1>4, <1>5 DEF Answer
<1>7. Founded(lookup.ip, a)
  BY <1>4, <1>5 DEF Founded
<1>8. lookup.current /\ Unshared => a \in Says(cluster, lookup.role, lookup.ip)
  BY <1>1, <1>2, <1>3, SaysOfPod DEF Accurate
<1>9. PICK l : l = Answered(a)
  OBVIOUS
<1>10. Sound(l)
  BY <1>1, <1>6, <1>7, <1>8, <1>9, AnsweredSound
<1> QED BY <1>1, <1>3, <1>9, <1>10, QueryInv DEF LookUpOwner

\* Addresses in a Service's cached slices were ready behind it.
LEMMA WereServed ==
  ASSUME ResolverInv, NEW s \in Service
  PROVE  /\ EndpointsForService(cache, s) \subseteq served[s]
         /\ EndpointsForService(cache, s) \subseteq Address
<1>1. Witnessed("slices", s, cache["slices"][s])
  BY DEF ResolverInv, WitnessInv, Resource, Objects
<1>2. served[s] \subseteq Address
  BY DEF ResolverInv, ResolverTyped
<1> QED BY <1>1, <1>2 DEF Witnessed, EndpointsForService

\* With the slices up to date, the ready endpoints are the addresses of the ready pods.
LEMMA PublishedReady ==
  ASSUME ResolverInv, UpToDate, NEW s \in Service
  PROVE  EndpointsForService(cluster, s) = {cluster["pods"][p].ip : p \in Ready(cluster, s)}
<1>1. cluster["slices"][s] = Endpoints(s)
  BY DEF UpToDate
<1>2. Selects[s] \subseteq Pod
  BY ResolverAssumption
<1>3. ASSUME NEW ip \in EndpointsForService(cluster, s)
      PROVE  ip \in {cluster["pods"][p].ip : p \in Ready(cluster, s)}
  <2>1. PICK e \in Endpoints(s) : e.ready /\ ip = e.ip
    BY <1>1, <1>3 DEF EndpointsForService
  <2>2. PICK p \in Selects[s] : e = [ip |-> ThePod(p).ip, ready |-> ThePod(p).ready]
    BY DEF Endpoints
  <2>3. ThePod(p).ready /\ ip = ThePod(p).ip
    BY <2>1, <2>2
  <2> QED BY <2>3 DEF Ready, ThePod
<1>4. ASSUME NEW p \in Ready(cluster, s)
      PROVE  cluster["pods"][p].ip \in EndpointsForService(cluster, s)
  <2>1. p \in Selects[s] /\ p \in Pod /\ ThePod(p).ready
    BY <1>2, <1>4 DEF Ready, ThePod
  <2>2. ThePod(p) # Gone
    <3>1. Gone.ready = FALSE
      BY DEF Gone
    <3> QED BY <2>1, <3>1
  <2>3. ~ThePod(p).finished
    BY <2>1, <2>2, ThePodTyped DEF ResolverInv, PodStatus
  <2>4. PICK e : e = [ip |-> ThePod(p).ip, ready |-> ThePod(p).ready]
    OBVIOUS
  <2>5. e \in Endpoints(s)
    BY <2>1, <2>2, <2>3, <2>4 DEF Endpoints
  <2>6. e.ready /\ e.ip = ThePod(p).ip
    BY <2>1, <2>4
  <2> QED BY <1>1, <2>5, <2>6 DEF EndpointsForService, ThePod
<1> QED BY <1>3, <1>4

LEMMA NothingAmbiguous == ~Ambiguous({})
<1>1. Cardinality({}) = 0
  BY FS_EmptySet
<1> QED BY <1>1, SMTT(30) DEF Ambiguous

LEMMA LookUpEndpointsInv ==
  ASSUME ResolverInv, LookUpEndpoints
  PROVE  ResolverInv'
<1>1. OnlyQuery /\ lookup.pc = "endpoints"
  BY DEF LookUpEndpoints
<1>2. /\ Sound(lookup) /\ lookup \in Lookup
      /\ lookup.current => cache = cluster /\ (Unshared => Accurate(cluster, lookup))
  BY SoundNow DEF Sound, LookupTyped
<1>3. PICK todo : todo = EndpointsForService(cache, lookup.service)
  OBVIOUS
<1>4. PICK l : l = [lookup EXCEPT !.pc = "each", !.todo = todo]
  OBVIOUS
<1>5. /\ lookup.service \in Service /\ ClusterIP[lookup.service] = lookup.ip
      /\ \A w \in lookup.seen : \E p \in Pod : w \in Naming(p) /\ WasBehind(p, lookup.service)
  BY <1>1, <1>2 DEF Sound, Gathered, BehindService
<1>6. todo \subseteq served[lookup.service] /\ todo \in SUBSET Address
  BY <1>3, <1>5, WereServed
<1>7. "each" \in Step
  BY DEF Step
<1>8. /\ l \in Lookup /\ l.pc = "each" /\ l.todo = todo /\ l.ip = lookup.ip /\ l.role = lookup.role
      /\ l.service = lookup.service /\ l.seen = lookup.seen /\ l.current = lookup.current
  BY <1>2, <1>4, <1>6, <1>7 DEF Lookup
<1>9. Gathered(l)
  BY <1>5, <1>6, <1>8 DEF Gathered
<1>10. ASSUME lookup.current, Unshared
       PROVE  Accurate(cluster, l)
  <2>1. /\ lookup.role = "destination" /\ lookup.seen = {}
        /\ lookup.service \in ServicesByClusterIP(cluster, lookup.ip)
    BY <1>1, <1>2, <1>10 DEF Accurate, BehindService
  <2>2. todo = {cluster["pods"][p].ip : p \in Ready(cluster, lookup.service)}
    BY <1>2, <1>3, <1>5, <1>10, PublishedReady DEF Sound, Exact
  <2>3. LookedAt(cluster, l) = {}
    BY <1>8, <2>2 DEF LookedAt
  <2>4. l.seen = {WorkloadFor(cluster, p) : p \in LookedAt(cluster, l)}
    BY <1>8, <2>1, <2>3
  <2> QED BY <1>8, <2>1, <2>2, <2>4, NothingAmbiguous DEF Accurate
<1>11. Sound(l)
  BY <1>1, <1>2, <1>8, <1>9, <1>10 DEF Sound, LookupTyped, Exact
<1> QED BY <1>1, <1>3, <1>4, <1>11, QueryInv DEF LookUpEndpoints

LEMMA NextEndpointInv ==
  ASSUME ResolverInv, NextEndpoint
  PROVE  ResolverInv'
<1>1. OnlyQuery /\ lookup.pc = "each"
  BY DEF NextEndpoint
<1>2. /\ Sound(lookup) /\ lookup \in Lookup
      /\ lookup.current => cache = cluster /\ (Unshared => Accurate(cluster, lookup))
  BY SoundNow DEF Sound, LookupTyped
<1>3. PICK ip \in lookup.todo :
        \/ /\ PodsByIP(cache, ip) = {}
           /\ lookup' = [lookup EXCEPT !.todo = lookup.todo \ {ip}]
        \/ \E p \in PodsByIP(cache, ip) :
             lookup' = [[lookup EXCEPT !.todo = lookup.todo \ {ip}] EXCEPT !.pc = "behind", !.pod = p]
  BY DEF NextEndpoint
<1>4. PICK rest : rest = lookup.todo \ {ip}
  OBVIOUS
<1>5. /\ lookup.service \in Service /\ ClusterIP[lookup.service] = lookup.ip
      /\ lookup.todo \subseteq served[lookup.service]
      /\ \A w \in lookup.seen : \E p \in Pod : w \in Naming(p) /\ WasBehind(p, lookup.service)
  BY <1>1, <1>2 DEF Sound, Gathered, BehindService
<1>6. rest \in SUBSET Address /\ ip \in Address
  BY <1>2, <1>4 DEF Lookup
<1>7. \* The pod that has the address is one of the ready ones.
      ASSUME lookup.current, Unshared
      PROVE  \E q \in Ready(cluster, lookup.service) :
               /\ cluster["pods"][q].ip = ip /\ PodsByIP(cluster, ip) = {q}
  <2>1. PICK q \in Ready(cluster, lookup.service) : cluster["pods"][q].ip = ip
    BY <1>1, <1>2, <1>3, <1>7 DEF Accurate
  <2>2. q \in Pod
    BY <1>5, ResolverAssumption DEF Ready
  <2>3. ip # NoIP
    BY <1>6, ResolverAssumption
  <2>4. PodsByIP(cluster, ip) = {q}
    BY <1>7, <2>1, <2>2, <2>3 DEF PodsByIP, Unshared, ThePod
  <2> QED BY <2>1, <2>4
<1>8. CASE PodsByIP(cache, ip) = {} /\ lookup' = [lookup EXCEPT !.todo = rest]
  <2>1. PICK l : l = [lookup EXCEPT !.todo = rest]
    OBVIOUS
  <2>2. /\ l \in Lookup /\ l.pc = "each" /\ l.todo = rest /\ l.ip = lookup.ip
        /\ l.role = lookup.role /\ l.service = lookup.service /\ l.seen = lookup.seen
        /\ l.current = lookup.current
    BY <1>1, <1>2, <1>6, <2>1 DEF Lookup
  <2>3. Gathered(l)
    BY <1>4, <1>5, <2>2 DEF Gathered
  <2>4. ~(lookup.current /\ Unshared)
    BY <1>2, <1>7, <1>8
  <2>5. Sound(l)
    BY <1>1, <1>2, <2>2, <2>3, <2>4 DEF Sound, LookupTyped, Exact
  <2> QED BY <1>1, <1>8, <2>1, <2>5, QueryInv
<1>9. ASSUME NEW p \in PodsByIP(cache, ip),
             lookup' = [[lookup EXCEPT !.todo = rest] EXCEPT !.pc = "behind", !.pod = p]
      PROVE  ResolverInv'
  <2>1. PICK k, l : k = [lookup EXCEPT !.todo = rest] /\ l = [k EXCEPT !.pc = "behind", !.pod = p]
    OBVIOUS
  <2>2. p \in Pod /\ ip \in held[p]
    BY <1>6, HasHeld
  <2>3. /\ k \in Lookup /\ k.todo = rest /\ k.ip = lookup.ip /\ k.role = lookup.role
        /\ k.service = lookup.service /\ k.seen = lookup.seen /\ k.current = lookup.current
    BY <1>2, <1>6, <2>1 DEF Lookup
  <2>4. "behind" \in Step
    BY DEF Step
  <2>5. /\ l \in Lookup /\ l.pc = "behind" /\ l.pod = p /\ l.todo = rest /\ l.ip = lookup.ip
        /\ l.role = lookup.role /\ l.service = lookup.service /\ l.seen = lookup.seen
        /\ l.current = lookup.current
    BY <2>1, <2>2, <2>3, <2>4 DEF Lookup
  <2>6. WasBehind(p, lookup.service)
    BY <1>3, <1>5, <2>2 DEF WasBehind
  <2>7. Gathered(l)
    BY <1>4, <1>5, <2>2, <2>5, <2>6 DEF Gathered
  <2>8. ASSUME lookup.current, Unshared
        PROVE  Accurate(cluster, l)
    <3>1. /\ p \in Ready(cluster, lookup.service) /\ cluster["pods"][p].ip = ip
          /\ PodsByIP(cluster, ip) = {p}
      BY <1>2, <1>7, <1>9, <2>8
    <3>2. /\ lookup.role = "destination"
          /\ lookup.service \in ServicesByClusterIP(cluster, lookup.ip)
          /\ lookup.todo \subseteq {cluster["pods"][q].ip : q \in Ready(cluster, lookup.service)}
          /\ lookup.seen = {WorkloadFor(cluster, q) : q \in LookedAt(cluster, lookup)}
          /\ ~Ambiguous(lookup.seen)
      BY <1>1, <1>2, <2>8 DEF Accurate, BehindService
    <3>3. \A q \in Ready(cluster, lookup.service) : cluster["pods"][q].ip = ip => q = p
      <4>1. Ready(cluster, lookup.service) \subseteq Pod
        BY <1>5, ResolverAssumption DEF Ready
      <4> QED BY <3>1, <4>1 DEF PodsByIP
    <3>4. LookedAt(cluster, l) = LookedAt(cluster, lookup)
      BY <1>1, <1>3, <1>4, <2>5, <3>1, <3>3 DEF LookedAt
    <3>5. rest \subseteq {cluster["pods"][q].ip : q \in Ready(cluster, lookup.service)}
      BY <1>4, <3>2
    <3>6. cluster["pods"][p].ip \notin rest
      BY <1>4, <3>1
    <3> QED BY <2>5, <3>1, <3>2, <3>4, <3>5, <3>6 DEF Accurate
  <2>9. Sound(l)
    BY <1>1, <1>2, <2>5, <2>7, <2>8 DEF Sound, LookupTyped, Exact
  <2> QED BY <1>1, <1>9, <2>1, <2>9, QueryInv
<1> QED BY <1>3, <1>4, <1>8, <1>9

LEMMA OwnerBehindInv ==
  ASSUME ResolverInv, OwnerBehind
  PROVE  ResolverInv'
<1>1. OnlyQuery /\ lookup.pc = "behind"
  BY DEF OwnerBehind
<1>2. /\ Sound(lookup) /\ lookup \in Lookup
      /\ lookup.current => cache = cluster /\ (Unshared => Accurate(cluster, lookup))
  BY SoundNow DEF Sound, LookupTyped
<1>3. PICK w, seen : w = WorkloadFor(cache, lookup.pod) /\ seen = lookup.seen \cup {w}
  OBVIOUS
<1>4. /\ lookup.service \in Service /\ ClusterIP[lookup.service] = lookup.ip
      /\ lookup.todo \subseteq served[lookup.service]
      /\ \A x \in lookup.seen : \E p \in Pod : x \in Naming(p) /\ WasBehind(p, lookup.service)
      /\ lookup.pod \in Pod /\ WasBehind(lookup.pod, lookup.service)
  BY <1>1, <1>2 DEF Sound, Gathered, BehindService
<1>5. w \in Naming(lookup.pod)
  BY <1>3, <1>4, WorkloadNamed DEF ResolverInv, ResolverTyped
<1>6. seen \in SUBSET Answer
  <2>1. w \in Answer
    BY <1>4, <1>5 DEF Answer
  <2> QED BY <1>2, <1>3, <2>1 DEF Lookup
<1>7. ASSUME lookup.current, Unshared
      PROVE  /\ lookup.role = "destination"
             /\ lookup.service \in ServicesByClusterIP(cluster, lookup.ip)
             /\ lookup.todo \subseteq {cluster["pods"][q].ip : q \in Ready(cluster, lookup.service)}
             /\ seen = {WorkloadFor(cluster, q) : q \in LookedAt(cluster, lookup) \cup {lookup.pod}}
             /\ LookedAt(cluster, lookup) \cup {lookup.pod}
                  = {q \in Ready(cluster, lookup.service) : cluster["pods"][q].ip \notin lookup.todo}
  <2>1. /\ lookup.role = "destination"
        /\ lookup.service \in ServicesByClusterIP(cluster, lookup.ip)
        /\ lookup.todo \subseteq {cluster["pods"][q].ip : q \in Ready(cluster, lookup.service)}
        /\ lookup.seen = {WorkloadFor(cluster, q) : q \in LookedAt(cluster, lookup)}
        /\ lookup.pod \in Ready(cluster, lookup.service)
        /\ cluster["pods"][lookup.pod].ip \notin lookup.todo
    BY <1>1, <1>2, <1>7 DEF Accurate, BehindService
  <2>2. w = WorkloadFor(cluster, lookup.pod)
    BY <1>2, <1>3, <1>7
  <2>3. seen = {WorkloadFor(cluster, q) : q \in LookedAt(cluster, lookup) \cup {lookup.pod}}
    BY <1>3, <2>1, <2>2
  <2>4. LookedAt(cluster, lookup) \cup {lookup.pod}
          = {q \in Ready(cluster, lookup.service) : cluster["pods"][q].ip \notin lookup.todo}
    BY <1>1, <2>1 DEF LookedAt
  <2> QED BY <2>1, <2>3, <2>4
<1>8. CASE Ambiguous(seen)
  <2>1. PICK a : a = ServiceIs(lookup.service)
    OBVIOUS
  <2>2. a \in Answer /\ a.class # "workload"
    BY <1>4, <2>1 DEF Answer, ServiceIs
  <2>3. Founded(lookup.ip, a)
    BY <2>2 DEF Founded
  <2>4. ASSUME lookup.current, Unshared
        PROVE  a \in Says(cluster, lookup.role, lookup.ip)
    <3>1. seen \subseteq Behind(cluster, lookup.service)
      <4>1. PICK looked : looked = LookedAt(cluster, lookup) \cup {lookup.pod}
        OBVIOUS
      <4>2. looked \subseteq Ready(cluster, lookup.service)
        BY <1>7, <2>4, <4>1
      <4>3. seen = {WorkloadFor(cluster, q) : q \in looked}
        BY <1>7, <2>4, <4>1
      <4> QED BY <4>2, <4>3 DEF Behind
    <3>2. /\ IsFiniteSet(Behind(cluster, lookup.service))
          /\ Cardinality(Behind(cluster, lookup.service)) \in Nat
      BY <1>4, BehindFinite
    <3>3. IsFiniteSet(seen) /\ Cardinality(seen) <= Cardinality(Behind(cluster, lookup.service))
      BY <3>1, <3>2, FS_Subset
    <3>4. Cardinality(seen) \in Nat
      BY <3>3, FS_CardinalityType
    <3>5. Cardinality(Behind(cluster, lookup.service)) # 1
      BY <1>8, <3>2, <3>3, <3>4, SMTT(30) DEF Ambiguous
    <3> QED BY <1>7, <2>1, <2>4, <3>5, SaysOfService
  <2>5. PICK l : l = Answered(a)
    OBVIOUS
  <2>6. Sound(l)
    BY <1>1, <2>2, <2>3, <2>4, <2>5, AnsweredSound
  <2>7. lookup' = l
    BY <1>3, <1>8, <2>1, <2>5 DEF OwnerBehind
  <2> QED BY <1>1, <2>6, <2>7, QueryInv
<1>9. CASE ~Ambiguous(seen)
  <2>1. PICK l : l = [lookup EXCEPT !.pc = "each", !.pod = "", !.seen = seen]
    OBVIOUS
  <2>2. lookup' = l
    BY <1>3, <1>9, <2>1 DEF OwnerBehind
  <2>3. "each" \in Step /\ "" \in Pod \cup {""}
    BY DEF Step
  <2>4. /\ l \in Lookup /\ l.pc = "each" /\ l.todo = lookup.todo /\ l.ip = lookup.ip
        /\ l.role = lookup.role /\ l.service = lookup.service /\ l.seen = seen
        /\ l.current = lookup.current
    BY <1>2, <1>6, <2>1, <2>3 DEF Lookup
  <2>5. Gathered(l)
    <3>1. \A x \in seen : \E p \in Pod : x \in Naming(p) /\ WasBehind(p, lookup.service)
      BY <1>3, <1>4, <1>5
    <3> QED BY <1>4, <2>4, <3>1 DEF Gathered
  <2>6. ASSUME lookup.current, Unshared
        PROVE  Accurate(cluster, l)
    <3>1. LookedAt(cluster, l) = LookedAt(cluster, lookup) \cup {lookup.pod}
      <4>1. LookedAt(cluster, l)
              = {q \in Ready(cluster, lookup.service) : cluster["pods"][q].ip \notin lookup.todo}
        BY <2>4 DEF LookedAt
      <4> QED BY <1>7, <2>6, <4>1
    <3>2. seen = {WorkloadFor(cluster, q) : q \in LookedAt(cluster, l)}
      BY <1>7, <2>6, <3>1
    <3> QED BY <1>7, <1>9, <2>4, <2>6, <3>2 DEF Accurate
  <2>7. Sound(l)
    BY <1>1, <1>2, <2>4, <2>5, <2>6 DEF Sound, LookupTyped, Exact
  <2> QED BY <1>1, <2>2, <2>7, QueryInv
<1> QED BY <1>8, <1>9

LEMMA AllEndpointsInv ==
  ASSUME ResolverInv, AllEndpoints
  PROVE  ResolverInv'
<1>1. OnlyQuery /\ lookup.pc = "each" /\ lookup.todo = {}
  BY DEF AllEndpoints
<1>2. /\ Sound(lookup) /\ lookup \in Lookup
      /\ lookup.current => cache = cluster /\ (Unshared => Accurate(cluster, lookup))
  BY SoundNow DEF Sound, LookupTyped
<1>3. /\ lookup.service \in Service /\ ClusterIP[lookup.service] = lookup.ip
      /\ \A w \in lookup.seen : \E p \in Pod : w \in Naming(p) /\ WasBehind(p, lookup.service)
  BY <1>1, <1>2 DEF Sound, Gathered, BehindService
<1>4. ASSUME lookup.current, Unshared
      PROVE  /\ lookup.role = "destination"
             /\ lookup.service \in ServicesByClusterIP(cluster, lookup.ip)
             /\ lookup.seen = Behind(cluster, lookup.service)
             /\ ~Ambiguous(lookup.seen)
  <2>1. /\ lookup.role = "destination"
        /\ lookup.service \in ServicesByClusterIP(cluster, lookup.ip)
        /\ lookup.seen = {WorkloadFor(cluster, q) : q \in LookedAt(cluster, lookup)}
        /\ ~Ambiguous(lookup.seen)
    BY <1>1, <1>2, <1>4 DEF Accurate, BehindService
  <2>2. LookedAt(cluster, lookup) = Ready(cluster, lookup.service)
    BY <1>1 DEF LookedAt
  <2> QED BY <2>1, <2>2 DEF Behind
<1>5. IsFiniteSet(Behind(cluster, lookup.service)) /\ Cardinality(Behind(cluster, lookup.service)) \in Nat
  BY <1>3, BehindFinite
<1>6. ASSUME NEW a \in Answer, Founded(lookup.ip, a), lookup' = Answered(a),
             lookup.current /\ Unshared => a \in Says(cluster, lookup.role, lookup.ip)
      PROVE  ResolverInv'
  <2>1. PICK l : l = Answered(a)
    OBVIOUS
  <2>2. Sound(l)
    BY <1>1, <1>6, <2>1, AnsweredSound
  <2> QED BY <1>1, <1>6, <2>1, <2>2, QueryInv
<1>7. CASE lookup.seen = {} /\ lookup' = Answered(ServiceIs(lookup.service))
  <2>1. PICK a : a = ServiceIs(lookup.service)
    OBVIOUS
  <2>2. a \in Answer /\ a.class # "workload"
    BY <1>3, <2>1 DEF Answer, ServiceIs
  <2>3. Founded(lookup.ip, a)
    BY <2>2 DEF Founded
  <2>4. ASSUME lookup.current, Unshared
        PROVE  a \in Says(cluster, lookup.role, lookup.ip)
    <3>1. Cardinality(Behind(cluster, lookup.service)) = 0
      BY <1>4, <1>7, <2>4, FS_EmptySet
    <3>2. Cardinality(Behind(cluster, lookup.service)) # 1
      BY <3>1, SMTT(30)
    <3> QED BY <1>4, <2>1, <2>4, <3>2, SaysOfService
  <2> QED BY <1>6, <1>7, <2>1, <2>2, <2>3, <2>4
<1>8. ASSUME NEW w \in lookup.seen, lookup' = Answered(w)
      PROVE  ResolverInv'
  <2>1. w \in Answer
    BY <1>2, <1>8 DEF Lookup
  <2>2. Founded(lookup.ip, w)
    BY <1>3, <1>8 DEF Founded
  <2>3. ASSUME lookup.current, Unshared
        PROVE  w \in Says(cluster, lookup.role, lookup.ip)
    <3>1. w \in Behind(cluster, lookup.service) /\ ~Ambiguous(Behind(cluster, lookup.service))
      BY <1>4, <1>8, <2>3
    <3>2. Cardinality(Behind(cluster, lookup.service)) # 0
      BY <1>5, <3>1, FS_EmptySet
    <3>3. Cardinality(Behind(cluster, lookup.service)) = 1
      BY <1>5, <3>1, <3>2, SMTT(30) DEF Ambiguous
    <3> QED BY <1>4, <2>3, <3>1, <3>3, SaysOfService
  <2> QED BY <1>6, <1>8, <2>1, <2>2, <2>3
<1> QED BY <1>7, <1>8 DEF AllEndpoints

-----------------------------------------------------------------------------
(* The theorems.                                                           *)

LEMMA EmptyTabled == Tabled(Empty)
<1>1. Empty["pods"] \in Table("pods") /\ Empty["services"] \in Table("services")
  BY DEF Empty, Table, Objects, Values, PodStatus
<1>2. Empty["slices"] \in Table("slices") /\ Empty["sets"] \in Table("sets")
  BY DEF Empty, Table, Objects, Values
<1>3. \A r \in Resource : Empty[r] \in Table(r)
  BY <1>1, <1>2 DEF Resource
<1>4. Empty = [r \in Resource |-> Empty[r]]
  BY DEF Empty, Resource
<1>5. \A r \in Resource : Empty[r] \in Tables
  BY <1>3 DEF Tables
<1> QED BY <1>3, <1>4, <1>5 DEF Tabled

LEMMA InitInv ==
  ASSUME ResolverInit
  PROVE  ResolverInv
<1>1. ResolverTyped
  <2>1. Tabled(cluster) /\ Tabled(cache)
    BY EmptyTabled DEF ResolverInit
  <2>2. IsQueues(pending) /\ \A r \in Resource : pending[r] = <<>>
    BY DEF ResolverInit, IsQueues
  <2>3. \A r \in Resource : pending[r] \in Seq(WatchEvent(r))
    <3>1. \A S : <<>> \in Seq(S)
      BY SMTT(30)
    <3> QED BY <2>2, <3>1
  <2>4. lookup \in Lookup /\ lookup.pc = "idle"
    <3>1. /\ "idle" \in Step /\ Unresolved \in Answer
      BY DEF Step, Answer
    <3> QED BY <3>1 DEF ResolverInit, Idle, Lookup
  <2>5. held \in [Pod -> SUBSET Address] /\ served \in [Service -> SUBSET Address]
    BY DEF ResolverInit
  <2> QED BY <2>1, <2>2, <2>3, <2>4, <2>5 DEF ResolverTyped
<1>2. cluster = Empty /\ cache = Empty /\ \A r \in Resource : pending[r] = <<>>
  BY DEF ResolverInit
<1>3. CacheInv
  <2>1. \A r \in Resource : \A o : About(pending[r], o) = {}
    BY <1>2, SMTT(30) DEF About
  <2> QED BY <1>2, <2>1 DEF CacheInv, Tracks
<1>4. WitnessInv
  <2>1. \A p \in Pod : Empty["pods"][p] = Gone
    BY DEF Empty
  <2>2. \A s \in Service : Empty["slices"][s] = {}
    BY DEF Empty
  <2>3. Gone.ip = NoIP
    BY DEF Gone
  <2>4. \A r \in Resource : \A o \in Objects(r) : Witnessed(r, o, Empty[r][o])
    BY <2>1, <2>2, <2>3 DEF Witnessed, Objects
  <2>5. \A r \in Resource : 1..Len(pending[r]) = {}
    BY <1>2, SMTT(30)
  <2> QED BY <1>2, <2>4, <2>5 DEF WitnessInv
<1>5. lookup.pc = "idle" /\ lookup.current = FALSE
  BY DEF ResolverInit, Idle
<1>6. GatheredInv /\ ExactInv
  BY <1>5 DEF GatheredInv, Gathered, BehindService, ExactInv, Exact
<1> QED BY <1>1, <1>3, <1>4, <1>6 DEF ResolverInv

LEMMA StutterInv ==
  ASSUME ResolverInv, UNCHANGED resolverVars
  PROVE  ResolverInv'
<1>1. OnlyQuery /\ lookup' = lookup
  BY DEF resolverVars, OnlyQuery
<1>2. PICK l : l = lookup
  OBVIOUS
<1> QED BY <1>1, <1>2, SoundNow, QueryInv

LEMMA NextInv ==
  ASSUME ResolverInv, [ResolverNext]_resolverVars
  PROVE  ResolverInv'
<1>1. CASE Evolve
  BY <1>1, StartPodInv, FinishPodInv, DeletePodInv, PublishInv, ToggleInv DEF Evolve
<1>2. CASE Resolve
  BY <1>2, ResolveSourceInv, ResolveDestinationInv, LookUpPodInv, LookUpOwnerInv,
     LookUpEndpointsInv, NextEndpointInv, OwnerBehindInv, AllEndpointsInv DEF Resolve
<1>3. CASE \E r \in Resource : Deliver(r)
  BY <1>3, DeliverInv
<1>4. CASE UNCHANGED resolverVars
  BY <1>4, StutterInv
<1> QED BY <1>1, <1>2, <1>3, <1>4 DEF ResolverNext

LEMMA ResolverInvAlways == ResolverSpec => []ResolverInv
<1>1. ResolverInit => ResolverInv
  BY InitInv
<1>2. ResolverInv /\ [ResolverNext]_resolverVars => ResolverInv'
  BY NextInv
<1> QED BY <1>1, <1>2, PTL DEF ResolverSpec

\* However far the informer caches lag and wherever in a resolution they change, no
\* workload is named that has never had the address, nor one that was never ready behind
\* the Service that has it (resolver.go: ResolveSource, ResolveDestination).
THEOREM NothingInvented == ResolverSpec => []NeverInvented
<1>1. ResolverInv => NeverInvented
  <2>1. ASSUME ResolverInv, lookup.pc = "answered"
        PROVE  Founded(lookup.ip, lookup.answer)
    BY <2>1 DEF ResolverInv, GatheredInv, Gathered
  <2> QED BY <2>1 DEF NeverInvented, Founded, Naming, WasBehind
<1> QED BY <1>1, ResolverInvAlways, PTL

\* A resolution during which the cluster stood still and the caches had caught up says
\* what the cluster says, in as many lookups as it takes.
THEOREM ExactWhenCaughtUp == ResolverSpec => []CaughtUpIsExact
<1>1. \A role, ip : Says(cluster, role, ip) = Truth(role, ip)
  BY DEF Says, Truth, Behind, Ready, ThePod
<1>2. ResolverInv => CaughtUpIsExact
  BY <1>1 DEF ResolverInv, ExactInv, Exact, Accurate, CaughtUpIsExact
<1> QED BY <1>2, ResolverInvAlways, PTL

\* OriginatesElsewhere: the agent of a pod's own node drops the pod's connection only if
\* another pod has had its address; with the pod cache current, every other agent drops it.
THEOREM OnlyItsNodeKeeps == ResolverSpec => []KeptByItsNodeOnly
<1>1. ASSUME ResolverInv
      PROVE  KeptByItsNodeOnly
  <2>1. SUFFICES ASSUME NEW p \in Pod, ThePod(p) # Gone, NEW n \in NodeName
                 PROVE  LET ip == ThePod(p).ip
                            verdicts == OriginatesElsewhere(cache, ip, n)
                        IN  /\ n = PodInfo[p].node /\ TRUE \in verdicts =>
                                 \E r \in Pod \ {p} : ip \in held[r]
                            /\ pending["pods"] = <<>> /\ Unshared =>
                                 verdicts = {n # PodInfo[p].node}
    BY DEF KeptByItsNodeOnly
  <2>2. PICK ip : ip = ThePod(p).ip
    OBVIOUS
  <2>3. ip \in Address /\ ip # NoIP
    <3>1. ThePod(p) \in [ip : Address, ready : BOOLEAN, finished : BOOLEAN]
      BY <1>1, <2>1, ThePodTyped DEF ResolverInv, PodStatus
    <3> QED BY <2>2, <3>1, ResolverAssumption
  <2>4. ASSUME n = PodInfo[p].node, TRUE \in OriginatesElsewhere(cache, ip, n)
        PROVE  \E r \in Pod \ {p} : ip \in held[r]
    <3>1. PICK r \in PodsByIP(cache, ip) : PodInfo[r].node # n
      BY <2>4 DEF OriginatesElsewhere
    <3>2. r # p
      BY <2>4, <3>1
    <3> QED BY <1>1, <2>3, <3>1, <3>2, HasHeld
  <2>5. ASSUME pending["pods"] = <<>>, Unshared
        PROVE  OriginatesElsewhere(cache, ip, n) = {n # PodInfo[p].node}
    <3>1. \A o : About(pending["pods"], o) = {}
      BY <2>5, SMTT(30) DEF About
    <3>2. cluster["pods"] \in [Pod -> PodStatus] /\ Tracks(cache["pods"], pending["pods"], cluster["pods"])
      BY <1>1 DEF ResolverInv, ResolverTyped, CacheInv, Tabled, Table, Resource, Objects, Values
    <3>3. \A r \in Pod : cache["pods"][r] = ThePod(r)
      BY <3>1, <3>2 DEF Tracks, ThePod
    <3>4. PodsByIP(cache, ip) = {p}
      BY <2>2, <2>3, <2>5, <3>3 DEF PodsByIP, Unshared
    <3> QED BY <3>4 DEF OriginatesElsewhere
  <2> QED BY <2>2, <2>4, <2>5
<1> QED BY <1>1, ResolverInvAlways, PTL

-----------------------------------------------------------------------------
(* What a source may be taken for.                                         *)

\* A source is not looked for behind Services; and it is neither one of them nor EXTERNAL.
ForRole(l) ==
  l.role = "source" => /\ l.pc \notin BehindService
                       /\ l.pc = "answered" => l.answer.class \notin {"service", "external"}

LEMMA AnswerClasses ==
  \A a \in Answer : a.class \in {"workload", "service", "host", "external", "unresolved"}
<1>1. ASSUME NEW p \in Pod, NEW a \in Naming(p)
      PROVE  a.class = "workload"
  <2>1. WorkloadFor(Empty, p).class = "workload" /\ WorkloadIs("Pod", p).class = "workload"
    BY WorkloadNamed, EmptyTabled DEF WorkloadIs
  <2> QED BY <1>1, <2>1 DEF Naming
<1>2. /\ Host.class = "host" /\ External.class = "external" /\ Unresolved.class = "unresolved"
      /\ \A s : ServiceIs(s).class = "service"
  BY DEF Host, External, Unresolved, ServiceIs
<1> QED BY <1>1, <1>2 DEF Answer

\* An answer to the resolution under way.
LEMMA AnsweredForRole ==
  ASSUME ResolverTyped, NEW a, lookup' = Answered(a),
         lookup.role = "source" => a.class \notin {"service", "external"}
  PROVE  ForRole(lookup)'
<1>1. lookup'.pc = "answered" /\ lookup'.role = lookup.role /\ lookup'.answer = a
  BY DEF Answered, ResolverTyped, Lookup
<1> QED BY <1>1 DEF ForRole, BehindService

LEMMA ForRoleKept ==
  ASSUME ResolverInv, ForRole(lookup), [ResolverNext]_resolverVars
  PROVE  ForRole(lookup)'
<1>1. ResolverTyped /\ lookup \in Lookup /\ Tabled(cache)
  BY DEF ResolverInv, ResolverTyped
<1>2. ASSUME NEW l \in Lookup, lookup' = l, l.pc = lookup.pc, l.role = lookup.role, l.answer = lookup.answer
      PROVE  ForRole(lookup)'
  BY <1>2 DEF ForRole
<1>3. CASE Evolve
  <2>1. \E r, o, v : Change(r, o, v)
    BY <1>3 DEF Evolve, StartPod, FinishPod, DeletePod, Publish, ToggleService, ToggleSet
  <2>2. lookup' = [lookup EXCEPT !.current = FALSE]
    BY <2>1 DEF Change
  <2>3. PICK l : l = [lookup EXCEPT !.current = FALSE]
    OBVIOUS
  <2>4. l \in Lookup /\ l.pc = lookup.pc /\ l.role = lookup.role /\ l.answer = lookup.answer
    BY <1>1, <2>3 DEF Lookup
  <2> QED BY <1>2, <2>2, <2>3, <2>4
<1>4. CASE (\E r \in Resource : Deliver(r)) \/ UNCHANGED resolverVars
  BY <1>1, <1>2, <1>4 DEF Deliver, resolverVars
<1>5. ASSUME NEW ip \in Address, ResolveSource(ip)
      PROVE  ForRole(lookup)'
  <2>1. CASE SourceStep(ip) = "host"
    <3>1. PICK k, l : k = Asked("source", ip, "answered") /\ l = [k EXCEPT !.answer = Host]
      OBVIOUS
    <3>2. lookup' = l
      BY <1>5, <2>1, <3>1 DEF ResolveSource
    <3>3. "answered" \in Step
      BY DEF Step
    <3>4. Begun(k, "source", ip, "answered")
      BY <3>1, <3>3, AskedIs
    <3>5. l.pc = "answered" /\ l.answer = Host /\ Host.class = "host"
      BY <3>1, <3>4 DEF Begun, Lookup, Host
    <3> QED BY <3>2, <3>5 DEF ForRole, BehindService
  <2>2. CASE SourceStep(ip) # "host"
    <3>1. lookup' = Asked("source", ip, "pod") /\ "pod" \in Step
      BY <1>5, <2>2 DEF ResolveSource, Step
    <3>2. PICK l : l = Asked("source", ip, "pod")
      OBVIOUS
    <3>3. Begun(l, "source", ip, "pod")
      BY <3>1, <3>2, AskedIs
    <3> QED BY <3>1, <3>2, <3>3 DEF Begun, ForRole, BehindService
  <2> QED BY <2>1, <2>2
<1>6. ASSUME NEW ip \in Address, ResolveDestination(ip)
      PROVE  ForRole(lookup)'
  <2>1. "pod" \in Step /\ "endpoints" \in Step
    BY DEF Step
  <2>2. CASE lookup' = Asked("destination", ip, "pod")
    <3>1. PICK l : l = Asked("destination", ip, "pod")
      OBVIOUS
    <3>2. Begun(l, "destination", ip, "pod")
      BY <2>1, <3>1, AskedIs
    <3> QED BY <2>2, <3>1, <3>2 DEF Begun, ForRole
  <2>3. ASSUME NEW s, lookup' = [Asked("destination", ip, "endpoints") EXCEPT !.service = s]
        PROVE  ForRole(lookup)'
    <3>1. PICK k : k = Asked("destination", ip, "endpoints")
      OBVIOUS
    <3>2. Begun(k, "destination", ip, "endpoints")
      BY <2>1, <3>1, AskedIs
    <3>3. lookup'.role = "destination"
      BY <2>3, <3>1, <3>2 DEF Begun, Lookup
    <3> QED BY <3>3 DEF ForRole
  <2> QED BY <1>6, <2>2, <2>3 DEF ResolveDestination
<1>7. CASE LookUpPod
  <2>1. CASE lookup' = Answered(NoPod(lookup.role, lookup.ip))
    <3>1. lookup.role = "source" => NoPod(lookup.role, lookup.ip).class = "unresolved"
      BY DEF NoPod, Unresolved
    <3> QED BY <1>1, <2>1, <3>1, AnsweredForRole
  <2>2. ASSUME NEW p, lookup' = [lookup EXCEPT !.pc = "owner", !.pod = p]
        PROVE  ForRole(lookup)'
    <3>1. lookup'.pc = "owner"
      BY <1>1, <2>2 DEF Lookup
    <3> QED BY <3>1 DEF ForRole, BehindService
  <2> QED BY <1>7, <2>1, <2>2 DEF LookUpPod
<1>8. CASE LookUpOwner
  <2>1. lookup' = Answered(WorkloadFor(cache, lookup.pod)) /\ lookup.pc = "owner"
    BY <1>8 DEF LookUpOwner
  <2>2. lookup.pod \in Pod
    BY <2>1 DEF ResolverInv, GatheredInv, Gathered
  <2>3. WorkloadFor(cache, lookup.pod).class = "workload"
    BY <1>1, <2>2, WorkloadNamed
  <2> QED BY <1>1, <2>1, <2>3, AnsweredForRole
<1>9. CASE LookUpEndpoints \/ NextEndpoint \/ OwnerBehind \/ AllEndpoints
  <2>1. lookup.pc \in BehindService
    BY <1>9 DEF LookUpEndpoints, NextEndpoint, OwnerBehind, AllEndpoints, BehindService
  <2>2. lookup.role # "source"
    BY <2>1 DEF ForRole
  <2>3. lookup'.role = lookup.role
    <3>0. \A a : Answered(a).role = lookup.role
      BY <1>1 DEF Answered, Lookup
    <3>1. ASSUME NEW x, lookup' = [lookup EXCEPT !.todo = x]
          PROVE  lookup'.role = lookup.role
      BY <1>1, <3>1 DEF Lookup
    <3>2. ASSUME NEW x, lookup' = [lookup EXCEPT !.pc = "each", !.todo = x]
          PROVE  lookup'.role = lookup.role
      BY <1>1, <3>2 DEF Lookup
    <3>3. ASSUME NEW x, NEW p, lookup' = [[lookup EXCEPT !.todo = x] EXCEPT !.pc = "behind", !.pod = p]
          PROVE  lookup'.role = lookup.role
      BY <1>1, <3>3 DEF Lookup
    <3>4. ASSUME NEW x, lookup' = [lookup EXCEPT !.pc = "each", !.pod = "", !.seen = x]
          PROVE  lookup'.role = lookup.role
      BY <1>1, <3>4 DEF Lookup
    <3>5. CASE LookUpEndpoints
      BY <3>2, <3>5 DEF LookUpEndpoints
    <3>6. CASE NextEndpoint
      BY <3>1, <3>3, <3>6 DEF NextEndpoint
    <3>7. CASE OwnerBehind
      BY <3>0, <3>4, <3>7 DEF OwnerBehind
    <3>8. CASE AllEndpoints
      BY <3>0, <3>8 DEF AllEndpoints
    <3> QED BY <1>9, <3>5, <3>6, <3>7, <3>8
  <2> QED BY <2>2, <2>3 DEF ForRole
<1> QED BY <1>3, <1>4, <1>5, <1>6, <1>7, <1>8, <1>9 DEF ResolverNext, Resolve

\* Whatever the caches hold, a source is never taken for a Service nor for EXTERNAL
\* (ResolveSource looks neither up), and every answer is of a class that the agent knows.
THEOREM SourcesAreInside == ResolverSpec => []ResolverTypeOK
<1>1. ResolverInv /\ ForRole(lookup) => ResolverTypeOK
  <2>1. ASSUME ResolverInv
        PROVE  lookup.ip \in Address \cup {NoIP} /\ lookup.answer \in Answer
    BY <2>1 DEF ResolverInv, ResolverTyped, Lookup
  <2> QED BY <2>1, AnswerClasses DEF ResolverTypeOK, ForRole
<1>2. ResolverInit => ResolverInv /\ ForRole(lookup)
  <2>1. Idle.role = ""
    BY DEF Idle
  <2>2. ResolverInit => lookup = Idle
    BY DEF ResolverInit
  <2> QED BY <2>1, <2>2, InitInv DEF ForRole
<1>3. ResolverInv /\ ForRole(lookup) /\ [ResolverNext]_resolverVars => ResolverInv' /\ ForRole(lookup)'
  BY NextInv, ForRoleKept
<1> QED BY <1>1, <1>2, <1>3, PTL DEF ResolverSpec

-----------------------------------------------------------------------------
(* The page: the inductive invariant.                                      *)

Hook == {"graph", "diff", "list"}
Request == [hook : Hook, seq : Nat, query : Nat, since : Nat, aborted : BOOLEAN]
Maybe(S) == {Nil} \cup {<<x>> : x \in S}
GraphState == [seq : Nat, data : Maybe([query : Nat, version : Nat]), refreshing : BOOLEAN, error : BOOLEAN]
DiffState == [seq : Nat, data : Maybe(Nat), loading : BOOLEAN, error : BOOLEAN]
ListState == [seq : Nat, held : Maybe([query : Nat, since : Nat]), failed : BOOLEAN]

FrontTyped ==
  /\ view \in View /\ version \in Nat
  /\ fetches \subseteq Request
  /\ graph \in GraphState /\ diff \in DiffState /\ listing \in ListState

\* useGraph: the request with the latest sequence number is for the present query; all
\* the others have been aborted.
GraphReqs(F, s, q) ==
  \A f \in F : f.hook = "graph" => IF f.aborted THEN f.seq < s ELSE f.seq = s /\ f.query = q

\* useDiff: a request that has not been aborted is for the present comparison, if there is one.
DiffReqs(F, q) ==
  \A f \in F : f.hook = "diff" /\ ~f.aborted => q \in {0, f.query}

\* useAnomalies: a request that has not been aborted is the latest, for the present query, and
\* was sent after the graph's data was read.
ListReqs(F, s, q, d) ==
  \A f \in F : f.hook = "list" /\ ~f.aborted =>
    f.seq = s /\ q # 0 /\ f.query = q /\ (d # Nil => f.since >= d[1].version)

GraphInv ==
  /\ graph.data # Nil => graph.data[1].version <= version
  /\ GraphReqs(fetches, graph.seq, view.query) /\ GraphAnswersView
DiffInv == DiffReqs(fetches, DiffQuery(view)) /\ DiffAnswersQuery
ListInv == ListReqs(fetches, listing.seq, ListQuery(view), graph.data) /\ ListFollowsGraph

FrontInv == FrontTyped /\ GraphInv /\ DiffInv /\ ListInv

-----------------------------------------------------------------------------
(* The loads.                                                              *)

\* F and G hold the same requests of hook h.
SameOf(h, F, G) == \A f \in Request : f.hook = h => (f \in F <=> f \in G)

LEMMA QueryTypes ==
  ASSUME NEW v \in View
  PROVE  /\ v.query \in Nat \ {0} /\ DiffQuery(v) \in Nat /\ ListQuery(v) \in Nat
         /\ ListQuery(v) # 0 => ListQuery(v) = v.query
         /\ v.paused \in BOOLEAN
<1>1. v.query \in ViewQuery /\ v.comparison \in Comparison /\ v.paused \in BOOLEAN
  BY DEF View
<1>2. v.query \in Nat \ {0} /\ v.comparison \in Nat
  BY <1>1, FrontAssumption
<1>3. 0 \in Nat
  BY SMTT(30)
<1> QED
  BY <1>1, <1>2, <1>3 DEF DiffQuery, ListQuery

\* The request r is a new one.
Fetched(r, h, s, q) ==
  /\ r \in Request
  /\ r.hook = h /\ r.seq = s /\ r.query = q /\ r.since = version /\ r.aborted = FALSE

LEMMA FetchTyped ==
  ASSUME FrontTyped, NEW h \in Hook, NEW s \in Nat, NEW q \in Nat
  PROVE  Fetched(Fetch(h, s, q), h, s, q)
<1>1. version \in Nat
  BY DEF FrontTyped
<1> QED
  BY <1>1 DEF Fetched, Fetch, Request

LEMMA Aborted ==
  ASSUME NEW F \in SUBSET Request, NEW h
  PROVE  /\ Abort(F, h) \subseteq Request
         /\ \A f \in Request : f.hook # h => (f \in Abort(F, h) <=> f \in F)
         /\ \A f \in Abort(F, h) : f.hook = h => f.aborted /\ \E g \in F : g.hook = h /\ g.seq = f.seq
<1>1. \A g \in Request : LET a == [g EXCEPT !.aborted = TRUE] IN
        a \in Request /\ a.hook = g.hook /\ a.seq = g.seq /\ a.aborted
  BY DEF Request
<1>2. \A f : f \in Abort(F, h) <=>
        \E g \in F : f = IF g.hook = h THEN [g EXCEPT !.aborted = TRUE] ELSE g
  BY DEF Abort
<1>3. ASSUME NEW f, f \in Abort(F, h)
      PROVE  f \in Request /\ (f.hook # h => f \in F)
             /\ (f.hook = h => f.aborted /\ \E g \in F : g.hook = h /\ g.seq = f.seq)
  <2>1. PICK g \in F : f = IF g.hook = h THEN [g EXCEPT !.aborted = TRUE] ELSE g
    BY <1>2, <1>3
  <2>2. CASE g.hook = h
    BY <1>1, <2>1, <2>2
  <2>3. CASE g.hook # h
    BY <2>1, <2>3
  <2> QED
    BY <2>2, <2>3
<1>4. ASSUME NEW f \in F, f.hook # h
      PROVE  f \in Abort(F, h)
  BY <1>2, <1>4
<1> QED
  BY <1>3, <1>4

LEMMA GraphLoaded ==
  ASSUME FrontTyped, NEW F \in SUBSET Request, NEW v \in View, NEW q, GraphReqs(F, graph.seq, q)
  PROVE  /\ LoadGraph(F, v) \in SUBSET Request
         /\ GraphReqs(LoadGraph(F, v), graph.seq + 1, v.query)
         /\ \A h : h # "graph" => SameOf(h, F, LoadGraph(F, v))
<1> DEFINE a == Abort(F, "graph")
           n == Fetch("graph", graph.seq + 1, v.query)
<1>1. LoadGraph(F, v) = a \cup {n}
  BY DEF LoadGraph
<1>2. /\ a \subseteq Request
      /\ \A f \in Request : f.hook # "graph" => (f \in a <=> f \in F)
      /\ \A f \in a : f.hook = "graph" => f.aborted /\ \E g \in F : g.hook = "graph" /\ g.seq = f.seq
  BY Aborted
<1>3. graph.seq \in Nat
  BY DEF FrontTyped, GraphState
<1>4. graph.seq + 1 \in Nat /\ v.query \in Nat
  <2>1. v.query \in Nat
    BY QueryTypes
  <2> QED
    BY <1>3, <2>1, SMTT(30)
<1>5. "graph" \in Hook
  BY DEF Hook
<1>6. Fetched(n, "graph", graph.seq + 1, v.query)
  BY <1>4, <1>5, FetchTyped
<1> HIDE DEF a, n
<1>7. \A f \in a : f.hook = "graph" => f.aborted /\ f.seq < graph.seq + 1
  <2> SUFFICES ASSUME NEW f \in a, f.hook = "graph"
               PROVE  f.seq < graph.seq + 1
    BY <1>2
  <2>1. PICK g \in F : g.hook = "graph" /\ g.seq = f.seq
    BY <1>2
  <2>2. g.seq < graph.seq \/ g.seq = graph.seq
    BY <2>1 DEF GraphReqs
  <2>3. g.seq \in Nat
    BY DEF Request
  <2> QED
    BY <1>3, <2>1, <2>2, <2>3, SMTT(30)
<1>8. GraphReqs(LoadGraph(F, v), graph.seq + 1, v.query)
  BY <1>1, <1>6, <1>7 DEF GraphReqs, Fetched
<1> QED
  BY <1>1, <1>2, <1>6, <1>8 DEF SameOf, Fetched

LEMMA DiffLoaded ==
  ASSUME FrontTyped, NEW F \in SUBSET Request, NEW v \in View
  PROVE  /\ LoadDiff(F, v) \in SUBSET Request
         /\ DiffReqs(LoadDiff(F, v), DiffQuery(v))
         /\ \A h : h # "diff" => SameOf(h, F, LoadDiff(F, v))
<1> DEFINE a == Abort(F, "diff")
           n == Fetch("diff", diff.seq + 1, DiffQuery(v))
<1>1. LoadDiff(F, v) = a \cup {n}
  BY DEF LoadDiff
<1>2. /\ a \subseteq Request
      /\ \A f \in Request : f.hook # "diff" => (f \in a <=> f \in F)
      /\ \A f \in a : f.hook = "diff" => f.aborted
  BY Aborted
<1>3. diff.seq + 1 \in Nat /\ DiffQuery(v) \in Nat /\ "diff" \in Hook
  <2>1. DiffQuery(v) \in Nat /\ "diff" \in Hook
    BY QueryTypes DEF Hook
  <2> QED
    BY <2>1, SMTT(30) DEF FrontTyped, DiffState
<1>4. Fetched(n, "diff", diff.seq + 1, DiffQuery(v))
  BY <1>3, FetchTyped
<1> HIDE DEF a, n
<1>5. DiffReqs(LoadDiff(F, v), DiffQuery(v))
  BY <1>1, <1>2, <1>4 DEF DiffReqs, Fetched
<1> QED
  BY <1>1, <1>2, <1>4, <1>5 DEF SameOf, Fetched

Listing(F) == \E f \in F : f.hook = "list" /\ ~f.aborted

LEMMA ListLoaded ==
  ASSUME FrontTyped, NEW F \in SUBSET Request, NEW v \in View,
         NEW d, d # Nil => d[1].version <= version
  PROVE  /\ LoadList(F, v) \in SUBSET Request
         /\ ListReqs(LoadList(F, v), ListLoading(v).seq, ListQuery(v), d)
         /\ ListQuery(v) # 0 => Listing(LoadList(F, v))
         /\ \A h : h # "list" => SameOf(h, F, LoadList(F, v))
<1> DEFINE a == Abort(F, "list")
           n == Fetch("list", listing.seq + 1, ListQuery(v))
<1>1. LoadList(F, v) = a \cup (IF ListQuery(v) = 0 THEN {} ELSE {n})
  BY DEF LoadList
<1>2. /\ a \subseteq Request
      /\ \A f \in Request : f.hook # "list" => (f \in a <=> f \in F)
      /\ \A f \in a : f.hook = "list" => f.aborted
  BY Aborted
<1>3. listing.seq + 1 \in Nat /\ ListQuery(v) \in Nat /\ "list" \in Hook
  <2>1. ListQuery(v) \in Nat /\ "list" \in Hook
    BY QueryTypes DEF Hook
  <2> QED
    BY <2>1, SMTT(30) DEF FrontTyped, ListState
<1>4. Fetched(n, "list", listing.seq + 1, ListQuery(v))
  BY <1>3, FetchTyped
<1> HIDE DEF a, n
<1>5. CASE ListQuery(v) = 0
  <2>1. LoadList(F, v) = a
    BY <1>1, <1>5
  <2> QED
    BY <1>2, <1>5, <2>1 DEF ListReqs, SameOf
<1>6. CASE ListQuery(v) # 0
  <2>1. LoadList(F, v) = a \cup {n}
    BY <1>1, <1>6
  <2>2. ListLoading(v).seq = listing.seq + 1
    BY <1>6, SMTT(30) DEF ListLoading, FrontTyped, ListState
  <2>3. d # Nil => n.since >= d[1].version
    <3>1. n.since = version
      BY <1>4 DEF Fetched
    <3> QED
      BY <3>1, SMTT(30)
  <2>4. ListReqs(LoadList(F, v), ListLoading(v).seq, ListQuery(v), d)
    BY <1>2, <1>4, <1>6, <2>1, <2>2, <2>3 DEF ListReqs, Fetched
  <2>5. Listing(LoadList(F, v))
    BY <1>4, <2>1 DEF Listing, Fetched
  <2> QED
    BY <1>2, <1>4, <2>1, <2>4, <2>5 DEF SameOf, Fetched
<1> QED
  BY <1>5, <1>6

-----------------------------------------------------------------------------
(* What does not concern a hook.                                           *)

LEMMA SameReqs ==
  ASSUME NEW F \in SUBSET Request, NEW G \in SUBSET Request
  PROVE  /\ \A s, q : SameOf("graph", F, G) /\ GraphReqs(F, s, q) => GraphReqs(G, s, q)
         /\ \A q : SameOf("diff", F, G) /\ DiffReqs(F, q) => DiffReqs(G, q)
         /\ \A s, q, d : SameOf("list", F, G) /\ ListReqs(F, s, q, d) => ListReqs(G, s, q, d)
         /\ SameOf("list", F, G) => (Listing(F) <=> Listing(G))
<1>1. \A s, q : SameOf("graph", F, G) /\ GraphReqs(F, s, q) => GraphReqs(G, s, q)
  BY DEF SameOf, GraphReqs
<1>2. \A q : SameOf("diff", F, G) /\ DiffReqs(F, q) => DiffReqs(G, q)
  BY DEF SameOf, DiffReqs
<1>3. \A s, q, d : SameOf("list", F, G) /\ ListReqs(F, s, q, d) => ListReqs(G, s, q, d)
  BY DEF SameOf, ListReqs
<1>4. SameOf("list", F, G) => (Listing(F) <=> Listing(G))
  BY DEF SameOf, Listing
<1> QED
  BY <1>1, <1>2, <1>3, <1>4

LEMMA SameOfFacts ==
  /\ \A h, F : SameOf(h, F, F)
  /\ \A h, F, G, H : SameOf(h, F, G) /\ SameOf(h, G, H) => SameOf(h, F, H)
  /\ \A h, F, f : f.hook # h => SameOf(h, F, F \ {f})
BY DEF SameOf

LEMMA GraphFrame ==
  ASSUME FrontInv, fetches' \in SUBSET Request, SameOf("graph", fetches, fetches'),
         graph' = graph, view'.query = view.query, version' \in Nat, version' >= version
  PROVE  GraphInv'
<1>1. FrontTyped /\ GraphInv
  BY DEF FrontInv
<1>2. graph.data # Nil => graph.data[1].version <= version'
  <2>1. graph.data # Nil => graph.data[1].version \in Nat
    BY <1>1, SMTT(30) DEF FrontTyped, GraphState, Maybe
  <2> QED
    BY <1>1, <2>1, SMTT(30) DEF GraphInv, FrontTyped
<1>3. GraphReqs(fetches', graph.seq, view.query)
  BY <1>1, SameReqs DEF GraphInv, FrontTyped
<1> QED
  BY <1>1, <1>2, <1>3 DEF GraphInv, GraphAnswersView

LEMMA DiffFrame ==
  ASSUME FrontInv, fetches' \in SUBSET Request, SameOf("diff", fetches, fetches'),
         diff' = diff, DiffQuery(view)' = DiffQuery(view)
  PROVE  DiffInv'
<1>1. FrontTyped /\ DiffInv
  BY DEF FrontInv
<1>2. DiffReqs(fetches', DiffQuery(view))
  BY <1>1, SameReqs DEF DiffInv, FrontTyped
<1> QED
  BY <1>1, <1>2 DEF DiffInv, DiffAnswersQuery

LEMMA ListFrame ==
  ASSUME FrontInv, view' \in View, fetches' \in SUBSET Request, SameOf("list", fetches, fetches'),
         listing' = listing, graph'.data = graph.data, ListQuery(view)' = ListQuery(view)
  PROVE  ListInv'
<1>1. FrontTyped /\ ListInv
  BY DEF FrontInv
<1>2. ListReqs(fetches', listing.seq, ListQuery(view), graph.data)
  BY <1>1, SameReqs DEF ListInv, FrontTyped
<1>3. Listing(fetches') <=> Listing(fetches)
  BY <1>1, SameReqs DEF FrontTyped
<1>4. ListQuery(view) # 0 => view'.query = view.query
  <2>1. ListQuery(view) # 0 => ListQuery(view) = view.query
    BY <1>1, QueryTypes DEF FrontTyped
  <2>2. ListQuery(view') # 0 => ListQuery(view') = view'.query
    BY QueryTypes
  <2>3. ListQuery(view)' = ListQuery(view')
    BY DEF ListQuery
  <2> QED
    BY <2>1, <2>2, <2>3
<1>5. ListFollowsGraph'
  BY <1>1, <1>3, <1>4 DEF ListInv, ListFollowsGraph, Listing
<1> QED
  BY <1>2, <1>5 DEF ListInv

-----------------------------------------------------------------------------
(* The answers.                                                            *)

LEMMA StateTypes ==
  ASSUME FrontTyped
  PROVE  /\ graph \in GraphState /\ diff \in DiffState /\ listing \in ListState
         /\ GraphLoading \in GraphState
         /\ \A v \in View : DiffLoading(v) \in DiffState /\ ListLoading(v) \in ListState
<1>1. graph \in GraphState /\ diff \in DiffState /\ listing \in ListState
  BY DEF FrontTyped
<1>2. graph.seq + 1 \in Nat /\ diff.seq + 1 \in Nat /\ listing.seq + 1 \in Nat
  <2>1. graph.seq \in Nat /\ diff.seq \in Nat /\ listing.seq \in Nat
    BY <1>1 DEF GraphState, DiffState, ListState
  <2> QED
    BY <2>1, SMTT(30)
<1>3. GraphLoading \in GraphState
  BY <1>1, <1>2 DEF GraphLoading, GraphState
<1>4. Nil \in Maybe(Nat)
  BY DEF Maybe
<1>5. [diff EXCEPT !.data = Nil] \in DiffState
  BY <1>1, <1>4 DEF DiffState
<1>6. [diff EXCEPT !.seq = @ + 1, !.loading = TRUE] \in DiffState
  BY <1>1, <1>2 DEF DiffState
<1>7. [listing EXCEPT !.seq = @ + 1] \in ListState
  BY <1>1, <1>2 DEF ListState
<1> QED
  BY <1>1, <1>3, <1>5, <1>6, <1>7 DEF DiffLoading, ListLoading

\* What a settled request leaves behind.
LEMMA Settled ==
  ASSUME FrontInv, NEW f \in fetches
  PROVE  /\ f \in Request /\ fetches \ {f} \in SUBSET Request
         /\ \A h : h # f.hook => SameOf(h, fetches, fetches \ {f})
         /\ GraphReqs(fetches \ {f}, graph.seq, view.query)
         /\ DiffReqs(fetches \ {f}, DiffQuery(view))
         /\ ListReqs(fetches \ {f}, listing.seq, ListQuery(view), graph.data)
<1>1. fetches \in SUBSET Request
  BY DEF FrontInv, FrontTyped
<1>2. GraphReqs(fetches \ {f}, graph.seq, view.query)
  BY DEF FrontInv, GraphInv, GraphReqs
<1>3. DiffReqs(fetches \ {f}, DiffQuery(view))
  BY DEF FrontInv, DiffInv, DiffReqs
<1>4. ListReqs(fetches \ {f}, listing.seq, ListQuery(view), graph.data)
  BY DEF FrontInv, ListInv, ListReqs
<1> QED
  BY <1>1, <1>2, <1>3, <1>4, SameOfFacts

LEMMA GraphArrivesKeeps ==
  ASSUME FrontInv, NEW f \in fetches, GraphArrives(f)
  PROVE  FrontInv'
<1>1. FrontTyped /\ GraphInv /\ f.hook = "graph" /\ ~f.aborted /\ UNCHANGED <<view, diff, version>>
  BY DEF FrontInv, GraphArrives
<1>2. f.seq = graph.seq /\ f.query = view.query
  BY <1>1 DEF GraphInv, GraphReqs
<1>3. PICK n \in f.since..version :
        /\ graph' = [graph EXCEPT !.data = <<[query |-> f.query, version |-> n]>>,
                                  !.error = FALSE, !.refreshing = FALSE]
        /\ fetches' = LoadList(fetches \ {f}, view)
        /\ listing' = ListLoading(view)
  BY <1>2 DEF GraphArrives, Follows
<1>4. n \in Nat /\ n <= version /\ f.query \in Nat
  <2>1. f.since \in Nat /\ version \in Nat /\ f.query \in Nat
    BY <1>1 DEF FrontTyped, Request
  <2> QED
    BY <2>1, SMTT(30)
<1> DEFINE d == <<[query |-> f.query, version |-> n]>>
<1>5. d # Nil /\ d[1].query = f.query /\ d[1].version = n /\ d \in Maybe([query : Nat, version : Nat])
  BY <1>4, SMTT(30) DEF Nil, Maybe
<1>6. graph' \in GraphState /\ graph'.data = d /\ graph'.seq = graph.seq
  <2>1. graph \in GraphState
    BY <1>1, StateTypes
  <2> HIDE DEF d
  <2>2. graph' = [graph EXCEPT !.data = d, !.error = FALSE, !.refreshing = FALSE]
    BY <1>3 DEF d
  <2> QED
    BY <1>5, <2>1, <2>2 DEF GraphState
<1> HIDE DEF d
<1>7. /\ fetches \ {f} \in SUBSET Request /\ GraphReqs(fetches \ {f}, graph.seq, view.query)
      /\ \A h : h # "graph" => SameOf(h, fetches, fetches \ {f})
  BY <1>1, Settled
<1>8. /\ fetches' \in SUBSET Request
      /\ ListReqs(fetches', ListLoading(view).seq, ListQuery(view), d)
      /\ ListQuery(view) # 0 => Listing(fetches')
      /\ \A h : h # "list" => SameOf(h, fetches \ {f}, fetches')
  <2>1. d # Nil => d[1].version <= version
    BY <1>4, <1>5
  <2>2. view \in View
    BY <1>1 DEF FrontTyped
  <2> QED
    BY <1>1, <1>3, <1>7, <2>1, <2>2, ListLoaded
<1>9. FrontTyped'
  <2>1. listing' \in ListState
    BY <1>1, <1>3, StateTypes DEF FrontTyped
  <2> QED
    BY <1>1, <1>6, <1>8, <2>1 DEF FrontTyped
<1>10. GraphInv'
  <2>1. GraphReqs(fetches', graph.seq, view.query)
    BY <1>7, <1>8, SameReqs
  <2> QED
    BY <1>1, <1>2, <1>4, <1>5, <1>6, <2>1 DEF GraphInv, GraphAnswersView
<1>11. DiffInv'
  <2>1. SameOf("diff", fetches, fetches')
    BY <1>7, <1>8, SameOfFacts
  <2> QED
    BY <1>1, <1>8, <2>1, DiffFrame DEF DiffQuery
<1>12. ListInv'
  <2>1. ListReqs(fetches, listing.seq, ListQuery(view), graph.data)'
    BY <1>1, <1>3, <1>6, <1>8 DEF ListQuery, ListReqs
  <2>2. ListFollowsGraph'
    BY <1>1, <1>8 DEF ListFollowsGraph, Listing, ListQuery
  <2> QED
    BY <2>1, <2>2 DEF ListInv
<1> QED
  BY <1>9, <1>10, <1>11, <1>12 DEF FrontInv

LEMMA GraphFailsKeeps ==
  ASSUME FrontInv, NEW f \in fetches, GraphFails(f)
  PROVE  FrontInv'
<1>1. /\ FrontTyped /\ GraphInv /\ f.hook = "graph" /\ fetches' = fetches \ {f}
      /\ UNCHANGED <<view, diff, listing, version>>
  BY DEF FrontInv, GraphFails
<1>2. /\ fetches' \in SUBSET Request /\ GraphReqs(fetches', graph.seq, view.query) /\ f \in Request
      /\ \A h : h # "graph" => SameOf(h, fetches, fetches')
  BY <1>1, Settled
<1>3. /\ graph' \in GraphState /\ graph'.data = graph.data /\ graph'.seq = graph.seq
      /\ graph'.error = (graph.error \/ (~f.aborted /\ f.seq = graph.seq))
      /\ graph'.refreshing = (graph.refreshing /\ f.seq # graph.seq)
  BY <1>1 DEF GraphFails, EndsRefreshing, FrontTyped, GraphState
<1>4. FrontTyped'
  BY <1>1, <1>2, <1>3 DEF FrontTyped
<1>5. GraphAnswersView'
  <2>1. CASE f.aborted
    <3>1. f.seq < graph.seq
      BY <1>1, <2>1 DEF GraphInv, GraphReqs
    <3>2. f.seq \in Nat /\ graph.seq \in Nat
      BY <1>1, <1>2 DEF Request, FrontTyped, GraphState
    <3>3. f.seq # graph.seq
      BY <3>1, <3>2, SMTT(30)
    <3> QED
      BY <1>1, <1>3, <3>3 DEF GraphInv, GraphAnswersView
  <2>2. CASE ~f.aborted
    <3>1. f.seq = graph.seq
      BY <1>1, <2>2 DEF GraphInv, GraphReqs
    <3> QED
      BY <1>3, <2>2, <3>1 DEF GraphAnswersView
  <2> QED
    BY <2>1, <2>2
<1>6. GraphInv'
  BY <1>1, <1>2, <1>3, <1>5 DEF GraphInv
<1>7. DiffInv'
  BY <1>1, <1>2, DiffFrame DEF DiffQuery
<1>8. ListInv'
  BY <1>1, <1>2, <1>3, ListFrame DEF ListQuery, FrontTyped
<1> QED
  BY <1>4, <1>6, <1>7, <1>8 DEF FrontInv

LEMMA DiffSettledKeeps ==
  ASSUME FrontInv, NEW f \in fetches, DiffArrives(f) \/ DiffFails(f)
  PROVE  FrontInv'
<1>1. /\ FrontTyped /\ DiffInv /\ f.hook = "diff" /\ fetches' = fetches \ {f}
      /\ UNCHANGED <<view, graph, listing, version>>
  BY DEF FrontInv, DiffArrives, DiffFails
<1>2. /\ fetches' \in SUBSET Request /\ DiffReqs(fetches', DiffQuery(view)) /\ f \in Request
      /\ \A h : h # "diff" => SameOf(h, fetches, fetches')
  BY <1>1, Settled
<1>3. diff \in DiffState /\ <<f.query>> \in Maybe(Nat)
  BY <1>1, <1>2 DEF FrontTyped, Request, Maybe
<1>4. diff' \in DiffState /\ DiffAnswersQuery'
  <2>1. CASE DiffArrives(f)
    <3>1. diff' = [diff EXCEPT !.data = <<f.query>>, !.error = FALSE, !.loading = FALSE] /\ ~f.aborted
      BY <2>1 DEF DiffArrives
    <3>2. diff' \in DiffState /\ diff'.data = <<f.query>>
      BY <1>3, <3>1 DEF DiffState
    <3>3. DiffQuery(view) \in {0, f.query}
      BY <1>1, <3>1 DEF DiffInv, DiffReqs
    <3> QED
      BY <1>1, <3>2, <3>3 DEF DiffAnswersQuery, DiffQuery
  <2>2. CASE DiffFails(f) /\ f.aborted
    <3>1. diff' = diff
      BY <2>2 DEF DiffFails
    <3> QED
      BY <1>1, <1>3, <3>1 DEF DiffInv, DiffAnswersQuery, DiffQuery
  <2>3. CASE DiffFails(f) /\ ~f.aborted
    <3>1. diff' = [diff EXCEPT !.error = TRUE, !.loading = FALSE]
      BY <2>3 DEF DiffFails
    <3>2. diff' \in DiffState /\ diff'.error
      BY <1>3, <3>1 DEF DiffState
    <3> QED
      BY <3>2 DEF DiffAnswersQuery
  <2> QED
    BY <2>1, <2>2, <2>3
<1>5. FrontTyped'
  BY <1>1, <1>2, <1>4 DEF FrontTyped
<1>6. DiffInv'
  BY <1>1, <1>2, <1>4 DEF DiffInv, DiffQuery
<1>7. GraphInv'
  <2>1. version' \in Nat /\ version' >= version
    BY <1>1, SMTT(30) DEF FrontTyped
  <2> QED
    BY <1>1, <1>2, <2>1, GraphFrame
<1>8. ListInv'
  BY <1>1, <1>2, ListFrame DEF ListQuery, FrontTyped
<1> QED
  BY <1>5, <1>6, <1>7, <1>8 DEF FrontInv

LEMMA ListSettledKeeps ==
  ASSUME FrontInv, NEW f \in fetches, ListArrives(f) \/ ListFails(f)
  PROVE  FrontInv'
<1>1. /\ FrontTyped /\ ListInv /\ f.hook = "list" /\ fetches' = fetches \ {f}
      /\ UNCHANGED <<view, graph, diff, version>>
  BY DEF FrontInv, ListArrives, ListFails
<1>2. /\ fetches' \in SUBSET Request /\ f \in Request
      /\ ListReqs(fetches', listing.seq, ListQuery(view), graph.data)
      /\ \A h : h # "list" => SameOf(h, fetches, fetches')
  BY <1>1, Settled
<1> DEFINE d == <<[query |-> f.query, since |-> f.since]>>
<1>3. /\ listing \in ListState /\ d \in Maybe([query : Nat, since : Nat])
      /\ d # Nil /\ d[1].query = f.query /\ d[1].since = f.since
  <2>1. f.query \in Nat /\ f.since \in Nat
    BY <1>2 DEF Request
  <2> QED
    BY <1>1, <2>1, SMTT(30) DEF FrontTyped, Maybe, Nil
<1>4. listing' \in ListState /\ listing'.seq = listing.seq /\ ListFollowsGraph'
  <2>1. CASE ListArrives(f)
    <3>1. f.seq = listing.seq /\ ListQuery(view) # 0 /\ f.query = ListQuery(view)
          /\ (graph.data # Nil => f.since >= graph.data[1].version)
      BY <1>1, <2>1 DEF ListArrives, ListInv, ListReqs
    <3>2. listing' = [listing EXCEPT !.held = d, !.failed = FALSE]
      BY <2>1, <3>1 DEF ListArrives
    <3>3. f.query = view.query
      BY <1>1, <3>1, QueryTypes DEF FrontTyped
    <3> HIDE DEF d
    <3>4. listing' \in ListState /\ listing'.held = d /\ listing'.seq = listing.seq
      BY <1>3, <3>2 DEF ListState
    <3> QED
      BY <1>1, <1>3, <3>1, <3>3, <3>4 DEF ListFollowsGraph
  <2>2. CASE ListFails(f)
    <3>1. listing' = [listing EXCEPT !.failed = @ \/ ~f.aborted]
      BY <2>2 DEF ListFails
    <3>2. /\ listing' \in ListState /\ listing'.held = listing.held /\ listing'.seq = listing.seq
          /\ listing'.failed = (listing.failed \/ ~f.aborted)
      BY <1>3, <3>1 DEF ListState
    <3>3. CASE f.aborted
      <4>1. (\E g \in fetches' : g.hook = "list" /\ ~g.aborted) <=> (\E g \in fetches : g.hook = "list" /\ ~g.aborted)
        BY <1>1, <3>3
      <4> QED
        BY <1>1, <3>2, <3>3, <4>1 DEF ListInv, ListFollowsGraph, ListQuery
    <3>4. CASE ~f.aborted
      BY <3>2, <3>4 DEF ListFollowsGraph
    <3> QED
      BY <3>2, <3>3, <3>4
  <2> QED
    BY <2>1, <2>2
<1>5. FrontTyped'
  BY <1>1, <1>2, <1>4 DEF FrontTyped
<1>6. ListInv'
  BY <1>1, <1>2, <1>4 DEF ListInv, ListQuery
<1>7. GraphInv'
  <2>1. version' \in Nat /\ version' >= version
    BY <1>1, SMTT(30) DEF FrontTyped
  <2> QED
    BY <1>1, <1>2, <2>1, GraphFrame
<1>8. DiffInv'
  BY <1>1, <1>2, DiffFrame DEF DiffQuery
<1> QED
  BY <1>5, <1>6, <1>7, <1>8 DEF FrontInv

-----------------------------------------------------------------------------
(* The reader, the timer and the backend.                                  *)

LEMMA LoadingFields ==
  ASSUME FrontTyped
  PROVE  /\ GraphLoading.seq = graph.seq + 1 /\ GraphLoading.refreshing /\ GraphLoading.data = graph.data
         /\ \A v : DiffQuery(v) # 0 => DiffLoading(v).loading
         /\ \A v : ListQuery(v) = 0 => ListLoading(v) = listing
<1>1. graph \in GraphState /\ diff \in DiffState
  BY DEF FrontTyped
<1>2. GraphLoading.seq = graph.seq + 1 /\ GraphLoading.refreshing /\ GraphLoading.data = graph.data
  BY <1>1 DEF GraphLoading, GraphState
<1>3. \A v : DiffQuery(v) # 0 => DiffLoading(v).loading
  BY <1>1 DEF DiffLoading, DiffState
<1> QED
  BY <1>2, <1>3 DEF ListLoading

LEMMA PollKeeps ==
  ASSUME FrontInv, Poll
  PROVE  FrontInv'
<1>1. /\ FrontTyped /\ GraphInv /\ view \in View /\ fetches \in SUBSET Request
      /\ fetches' = LoadGraph(fetches, view) /\ graph' = GraphLoading
      /\ UNCHANGED <<view, diff, listing, version>>
  BY DEF FrontInv, FrontTyped, Poll
<1>2. /\ fetches' \in SUBSET Request /\ GraphReqs(fetches', graph.seq + 1, view.query)
      /\ \A h : h # "graph" => SameOf(h, fetches, fetches')
  BY <1>1, GraphLoaded DEF GraphInv
<1>3. graph' \in GraphState /\ graph'.seq = graph.seq + 1 /\ graph'.refreshing /\ graph'.data = graph.data
  BY <1>1, StateTypes, LoadingFields
<1>4. FrontTyped'
  BY <1>1, <1>2, <1>3 DEF FrontTyped
<1>5. GraphInv'
  BY <1>1, <1>2, <1>3 DEF GraphInv, GraphAnswersView
<1>6. DiffInv'
  BY <1>1, <1>2, DiffFrame DEF DiffQuery
<1>7. ListInv'
  BY <1>1, <1>2, <1>3, ListFrame DEF ListQuery
<1> QED
  BY <1>4, <1>5, <1>6, <1>7 DEF FrontInv

LEMMA RefreshDiffKeeps ==
  ASSUME FrontInv, RefreshDiff
  PROVE  FrontInv'
<1>1. /\ FrontTyped /\ view \in View /\ fetches \in SUBSET Request /\ DiffQuery(view) # 0
      /\ fetches' = LoadDiff(fetches, view) /\ diff' = DiffLoading(view)
      /\ UNCHANGED <<view, graph, listing, version>>
  BY DEF FrontInv, FrontTyped, RefreshDiff
<1>2. /\ fetches' \in SUBSET Request /\ DiffReqs(fetches', DiffQuery(view))
      /\ \A h : h # "diff" => SameOf(h, fetches, fetches')
  BY <1>1, DiffLoaded
<1>3. diff' \in DiffState /\ diff'.loading
  BY <1>1, StateTypes, LoadingFields
<1>4. FrontTyped'
  BY <1>1, <1>2, <1>3 DEF FrontTyped
<1>5. DiffInv'
  BY <1>1, <1>2, <1>3 DEF DiffInv, DiffAnswersQuery, DiffQuery
<1>6. GraphInv'
  <2>1. version' \in Nat /\ version' >= version
    BY <1>1, SMTT(30) DEF FrontTyped
  <2> QED
    BY <1>1, <1>2, <2>1, GraphFrame
<1>7. ListInv'
  BY <1>1, <1>2, ListFrame DEF ListQuery
<1> QED
  BY <1>4, <1>5, <1>6, <1>7 DEF FrontInv

LEMMA DataGrowsKeeps ==
  ASSUME FrontInv, DataGrows
  PROVE  FrontInv'
<1>1. /\ FrontTyped /\ view \in View /\ fetches \in SUBSET Request
      /\ UNCHANGED <<view, fetches, graph, diff, listing>>
  BY DEF FrontInv, FrontTyped, DataGrows
<1>2. version' \in Nat /\ version' >= version
  BY <1>1, SMTT(30) DEF FrontTyped, DataGrows
<1>3. \A h : SameOf(h, fetches, fetches')
  BY <1>1, SameOfFacts
<1>4. GraphInv' /\ FrontTyped'
  BY <1>1, <1>2, <1>3, GraphFrame DEF FrontTyped
<1>5. DiffInv'
  BY <1>1, <1>3, DiffFrame DEF DiffQuery
<1>6. ListInv'
  BY <1>1, <1>3, ListFrame DEF ListQuery
<1> QED
  BY <1>4, <1>5, <1>6 DEF FrontInv

LEMMA ChangeViewKeeps ==
  ASSUME FrontInv, NEW v \in View, ChangeView(v)
  PROVE  FrontInv'
<1> DEFINE reload == v.query # view.query \/ Paused(v) # Paused(view)
           compare == DiffQuery(v) # DiffQuery(view)
           relist == ListQuery(v) # ListQuery(view)
           F1 == IF reload THEN LoadGraph(fetches, v) ELSE fetches
           F2 == IF compare /\ DiffQuery(v) # 0 THEN LoadDiff(F1, v) ELSE F1
<1>1. /\ view' = v /\ version' = version
      /\ fetches' = IF relist THEN LoadList(F2, v) ELSE F2
      /\ graph' = IF reload THEN GraphLoading ELSE graph
      /\ diff' = IF compare THEN DiffLoading(v) ELSE diff
      /\ listing' = IF relist THEN ListLoading(v) ELSE listing
  BY DEF ChangeView
<1>2. /\ FrontTyped /\ GraphInv /\ DiffInv /\ fetches \in SUBSET Request /\ view \in View
  BY DEF FrontInv, FrontTyped
<1>3. ~reload => v.query = view.query
  OBVIOUS
<1>4. /\ F1 \in SUBSET Request
      /\ reload => GraphReqs(F1, graph.seq + 1, v.query)
      /\ ~reload => F1 = fetches
      /\ \A h : h # "graph" => SameOf(h, fetches, F1)
  <2>1. CASE reload
    <3>1. F1 = LoadGraph(fetches, v)
      BY <2>1
    <3> HIDE DEF F1, reload
    <3> QED
      BY <1>2, <2>1, <3>1, GraphLoaded DEF GraphInv
  <2>2. CASE ~reload
    <3>1. F1 = fetches
      BY <2>2
    <3> HIDE DEF F1, reload
    <3> QED
      BY <1>2, <2>2, <3>1, SameOfFacts
  <2> QED
    BY <2>1, <2>2
<1> HIDE DEF F1, reload
<1>5. /\ F2 \in SUBSET Request
      /\ compare /\ DiffQuery(v) # 0 => DiffReqs(F2, DiffQuery(v))
      /\ ~(compare /\ DiffQuery(v) # 0) => F2 = F1
      /\ \A h : h # "diff" => SameOf(h, F1, F2)
  <2>1. CASE compare /\ DiffQuery(v) # 0
    <3>1. F2 = LoadDiff(F1, v)
      BY <2>1
    <3> HIDE DEF F2, compare
    <3> QED
      BY <1>2, <1>4, <2>1, <3>1, DiffLoaded
  <2>2. CASE ~(compare /\ DiffQuery(v) # 0)
    <3>1. F2 = F1
      BY <2>2
    <3> HIDE DEF F2, compare
    <3> QED
      BY <1>4, <2>2, <3>1, SameOfFacts
  <2> QED
    BY <2>1, <2>2
<1>6. ~compare => DiffQuery(v) = DiffQuery(view)
  OBVIOUS
<1>7. ~relist => ListQuery(v) = ListQuery(view)
  OBVIOUS
<1> HIDE DEF F2, compare, relist
<1>8. graph.data # Nil => graph.data[1].version <= version
  BY <1>2 DEF GraphInv
<1>9. /\ fetches' \in SUBSET Request
      /\ relist => ListReqs(fetches', ListLoading(v).seq, ListQuery(v), graph.data)
      /\ relist /\ ListQuery(v) # 0 => Listing(fetches')
      /\ ~relist => fetches' = F2
      /\ \A h : h # "list" => SameOf(h, F2, fetches')
  <2>1. CASE relist
    <3>1. fetches' = LoadList(F2, v)
      BY <1>1, <2>1
    <3> QED
      BY <1>2, <1>5, <1>8, <2>1, <3>1, ListLoaded
  <2>2. CASE ~relist
    BY <1>1, <1>5, <2>2, SameOfFacts
  <2> QED
    BY <2>1, <2>2
<1>10. FrontTyped'
  <2>1. graph' \in GraphState /\ diff' \in DiffState /\ listing' \in ListState
    BY <1>1, <1>2, StateTypes
  <2> QED
    BY <1>1, <1>2, <1>9, <2>1 DEF FrontTyped
<1>11. graph'.data = graph.data
  BY <1>1, <1>2, LoadingFields
<1>12. GraphInv'
  <2>1. SameOf("graph", F1, fetches')
    BY <1>5, <1>9, SameOfFacts
  <2>2. CASE reload
    <3>1. GraphReqs(fetches', graph.seq + 1, v.query)
      BY <1>4, <1>9, <2>1, <2>2, SameReqs
    <3>2. graph'.seq = graph.seq + 1 /\ graph'.refreshing
      BY <1>1, <1>2, <2>2, LoadingFields
    <3> QED
      BY <1>1, <1>8, <1>11, <3>1, <3>2 DEF GraphInv, GraphAnswersView
  <2>3. CASE ~reload
    <3>1. version' \in Nat /\ version' >= version
      BY <1>1, <1>2, SMTT(30) DEF FrontTyped
    <3> QED
      BY <1>1, <1>3, <1>4, <1>9, <2>1, <2>3, <3>1, GraphFrame
  <2> QED
    BY <2>2, <2>3
<1>13. DiffQuery(view)' = DiffQuery(v) /\ ListQuery(view)' = ListQuery(v)
  BY <1>1 DEF DiffQuery, ListQuery
<1>14. DiffInv'
  <2>1. SameOf("diff", F2, fetches') /\ SameOf("diff", fetches, F1)
    BY <1>4, <1>9
  <2>2. CASE compare /\ DiffQuery(v) # 0
    <3>1. DiffReqs(fetches', DiffQuery(v))
      BY <1>5, <1>9, <2>1, <2>2, SameReqs
    <3>2. diff'.loading
      BY <1>1, <1>2, <2>2, LoadingFields
    <3> QED
      BY <1>13, <3>1, <3>2 DEF DiffInv, DiffReqs, DiffAnswersQuery
  <2>3. CASE compare /\ DiffQuery(v) = 0
    BY <1>13, <2>3 DEF DiffInv, DiffReqs, DiffAnswersQuery
  <2>4. CASE ~compare
    <3>1. SameOf("diff", fetches, fetches')
      BY <1>5, <2>1, <2>4, SameOfFacts
    <3> QED
      BY <1>1, <1>6, <1>9, <1>13, <2>4, <3>1, DiffFrame
  <2> QED
    BY <2>2, <2>3, <2>4
<1>15. ListInv'
  <2>1. CASE relist
    <3>1. ListReqs(fetches, listing.seq, ListQuery(view), graph.data)'
      BY <1>1, <1>9, <1>11, <1>13, <2>1 DEF ListReqs
    <3>2. ListFollowsGraph'
      BY <1>9, <1>13, <2>1 DEF ListFollowsGraph, Listing
    <3> QED
      BY <3>1, <3>2 DEF ListInv
  <2>2. CASE ~relist
    <3>1. SameOf("list", fetches, fetches')
      BY <1>4, <1>5, <1>9, <2>2, SameOfFacts
    <3> QED
      BY <1>1, <1>7, <1>9, <1>11, <1>13, <2>2, <3>1, ListFrame
  <2> QED
    BY <2>1, <2>2
<1> QED
  BY <1>10, <1>12, <1>14, <1>15 DEF FrontInv

-----------------------------------------------------------------------------
(* The invariant, and the theorem.                                         *)

LEMMA FrontInvKept == FrontInv /\ [FrontNext]_frontVars => FrontInv'
<1> SUFFICES ASSUME FrontInv, [FrontNext]_frontVars
             PROVE  FrontInv'
  OBVIOUS
<1>1. CASE FrontNext
  BY <1>1, ChangeViewKeeps, PollKeeps, RefreshDiffKeeps, DataGrowsKeeps, GraphArrivesKeeps,
     GraphFailsKeeps, DiffSettledKeeps, ListSettledKeeps DEF FrontNext
<1>2. CASE UNCHANGED frontVars
  BY <1>2 DEF frontVars, FrontInv, FrontTyped, GraphInv, DiffInv, ListInv, GraphReqs, DiffReqs, ListReqs,
              GraphAnswersView, DiffAnswersQuery, ListFollowsGraph, DiffQuery, ListQuery
<1> QED
  BY <1>1, <1>2

LEMMA FrontInvInitially == FrontInit => FrontInv
<1> SUFFICES ASSUME FrontInit
             PROVE  FrontInv
  OBVIOUS
<1>1. view \in View /\ view.mode = "live" /\ version = 1
  BY DEF FrontInit
<1>2. view.query \in Nat \ {0} /\ ListQuery(view) = view.query /\ DiffQuery(view) = 0
  BY <1>1, QueryTypes DEF ListQuery, DiffQuery
<1>3. /\ graph \in GraphState /\ diff \in DiffState /\ listing \in ListState
      /\ graph.seq = 1 /\ graph.data = Nil /\ graph.refreshing /\ listing.seq = 1
  <2>1. 0 \in Nat /\ 1 \in Nat /\ \A S : Nil \in Maybe(S)
    BY SMTT(30) DEF Maybe
  <2> QED
    BY <2>1 DEF FrontInit, GraphState, DiffState, ListState
<1> DEFINE g == Fetch("graph", 1, view.query)
           l == Fetch("list", 1, view.query)
<1>4. fetches = {g, l}
  BY DEF FrontInit
<1>5. /\ g \in Request /\ g.hook = "graph" /\ g.seq = 1 /\ g.query = view.query /\ g.aborted = FALSE
      /\ l \in Request /\ l.hook = "list" /\ l.seq = 1 /\ l.query = view.query /\ l.aborted = FALSE
  BY <1>1, <1>2, SMTT(30) DEF Fetch, Request, Hook
<1> HIDE DEF g, l
<1>6. FrontTyped
  BY <1>1, <1>3, <1>4, <1>5, SMTT(30) DEF FrontTyped
<1>7. GraphInv
  BY <1>3, <1>4, <1>5 DEF GraphInv, GraphReqs, GraphAnswersView
<1>8. DiffInv
  BY <1>2, <1>4, <1>5 DEF DiffInv, DiffReqs, DiffAnswersQuery
<1>9. ListInv
  BY <1>2, <1>3, <1>4, <1>5 DEF ListInv, ListReqs, ListFollowsGraph
<1> QED
  BY <1>6, <1>7, <1>8, <1>9 DEF FrontInv

\* What the page shows is what its controls ask for, in whatever order the answers, the
\* aborts and the failures of the three hooks come: the graph and the comparison answer the
\* view, unless the page says that it is loading or shows an error, and the list of
\* anomalies was asked for after the data of the graph.
THEOREM PageFollowsControls == FrontSpec => []PageAnswersView
<1>1. FrontInv => PageAnswersView
  BY DEF FrontInv, GraphInv, DiffInv, ListInv, PageAnswersView
<1> QED
  BY <1>1, FrontInvInitially, FrontInvKept, PTL DEF FrontSpec

-----------------------------------------------------------------------------
(* One request of a hook is in flight.                                     *)

\* No two requests of F belong to one hook, but for those aborted.
Single(F) == \A f, g \in F : ~f.aborted /\ ~g.aborted /\ f.hook = g.hook => f = g

\* Aborting a hook's requests makes room for one.
LEMMA AbortMakesRoom ==
  ASSUME NEW F \in SUBSET Request, Single(F), NEW h
  PROVE  Single(Abort(F, h)) /\ \A n : n.hook = h => Single(Abort(F, h) \cup {n})
<1>1. \A f \in Abort(F, h) : ~f.aborted => f.hook # h /\ f \in F
  BY Aborted
<1> QED
  BY <1>1 DEF Single

LEMMA LoadsSingle ==
  ASSUME FrontTyped, NEW v \in View, NEW F \in SUBSET Request, Single(F)
  PROVE  /\ Single(LoadGraph(F, v)) /\ LoadGraph(F, v) \in SUBSET Request
         /\ Single(LoadDiff(F, v)) /\ LoadDiff(F, v) \in SUBSET Request
         /\ Single(LoadList(F, v))
<1>1. /\ graph.seq + 1 \in Nat /\ diff.seq + 1 \in Nat /\ listing.seq + 1 \in Nat
  <2>1. graph.seq \in Nat /\ diff.seq \in Nat /\ listing.seq \in Nat
    BY DEF FrontTyped, GraphState, DiffState, ListState
  <2> QED
    BY <2>1, SMTT(30)
<1>2. v.query \in Nat /\ DiffQuery(v) \in Nat /\ ListQuery(v) \in Nat
  BY QueryTypes
<1> DEFINE g == Fetch("graph", graph.seq + 1, v.query)
           d == Fetch("diff", diff.seq + 1, DiffQuery(v))
           l == Fetch("list", listing.seq + 1, ListQuery(v))
<1>3. "graph" \in Hook /\ "diff" \in Hook /\ "list" \in Hook
  BY DEF Hook
<1>4. g \in Request /\ g.hook = "graph"
  <2>1. Fetched(g, "graph", graph.seq + 1, v.query)
    BY <1>1, <1>2, <1>3, FetchTyped
  <2> HIDE DEF g
  <2> QED
    BY <2>1 DEF Fetched
<1>5. d \in Request /\ d.hook = "diff"
  <2>1. Fetched(d, "diff", diff.seq + 1, DiffQuery(v))
    BY <1>1, <1>2, <1>3, FetchTyped
  <2> HIDE DEF d
  <2> QED
    BY <2>1 DEF Fetched
<1>6. l \in Request /\ l.hook = "list"
  <2>1. Fetched(l, "list", listing.seq + 1, ListQuery(v))
    BY <1>1, <1>2, <1>3, FetchTyped
  <2> HIDE DEF l
  <2> QED
    BY <2>1 DEF Fetched
<1>7. /\ LoadGraph(F, v) = Abort(F, "graph") \cup {g}
      /\ LoadDiff(F, v) = Abort(F, "diff") \cup {d}
      /\ LoadList(F, v) = Abort(F, "list") \/ LoadList(F, v) = Abort(F, "list") \cup {l}
  BY DEF LoadGraph, LoadDiff, LoadList
<1> HIDE DEF g, d, l
<1>8. \A h : Abort(F, h) \subseteq Request
  BY Aborted
<1>9. \A h : Single(Abort(F, h)) /\ \A n : n.hook = h => Single(Abort(F, h) \cup {n})
  BY AbortMakesRoom
<1>10. Single(LoadGraph(F, v)) /\ LoadGraph(F, v) \in SUBSET Request
  <2>1. Single(Abort(F, "graph") \cup {g}) /\ Abort(F, "graph") \cup {g} \in SUBSET Request
    BY <1>4, <1>8, <1>9
  <2>2. LoadGraph(F, v) = Abort(F, "graph") \cup {g}
    BY <1>7
  <2> QED
    BY <2>1, <2>2
<1>11. Single(LoadDiff(F, v)) /\ LoadDiff(F, v) \in SUBSET Request
  <2>1. Single(Abort(F, "diff") \cup {d}) /\ Abort(F, "diff") \cup {d} \in SUBSET Request
    BY <1>5, <1>8, <1>9
  <2>2. LoadDiff(F, v) = Abort(F, "diff") \cup {d}
    BY <1>7
  <2> QED
    BY <2>1, <2>2
<1>12. Single(LoadList(F, v))
  <2>1. Single(Abort(F, "list") \cup {l}) /\ Single(Abort(F, "list"))
    BY <1>6, <1>9
  <2>2. LoadList(F, v) = Abort(F, "list") \/ LoadList(F, v) = Abort(F, "list") \cup {l}
    BY <1>7
  <2> QED
    BY <2>1, <2>2
<1> QED
  BY <1>10, <1>11, <1>12

FlightInv == version \in 1..MaxVersion /\ Single(fetches)

LEMMA FlightKept ==
  ASSUME FrontInv, FlightInv, [FrontNext]_frontVars
  PROVE  FlightInv'
<1>1. FrontTyped /\ view \in View /\ fetches \in SUBSET Request /\ Single(fetches)
  BY DEF FrontInv, FrontTyped, FlightInv
<1>2. \A f : fetches \ {f} \in SUBSET Request /\ Single(fetches \ {f})
  BY <1>1 DEF Single
<1>3. ASSUME NEW v \in View, ChangeView(v)
      PROVE  FlightInv'
  <2> DEFINE reload == v.query # view.query \/ Paused(v) # Paused(view)
             compare == DiffQuery(v) # DiffQuery(view)
             relist == ListQuery(v) # ListQuery(view)
             F1 == IF reload THEN LoadGraph(fetches, v) ELSE fetches
             F2 == IF compare /\ DiffQuery(v) # 0 THEN LoadDiff(F1, v) ELSE F1
  <2>1. version' = version /\ fetches' = IF relist THEN LoadList(F2, v) ELSE F2
    BY <1>3 DEF ChangeView
  <2>2. F1 \in SUBSET Request /\ Single(F1)
    BY <1>1, LoadsSingle
  <2> HIDE DEF F1
  <2>3. F2 \in SUBSET Request /\ Single(F2)
    BY <1>1, <2>2, LoadsSingle
  <2> HIDE DEF F2
  <2>4. Single(fetches')
    BY <1>1, <2>1, <2>3, LoadsSingle
  <2> QED
    BY <2>1, <2>4 DEF FlightInv
<1>4. CASE Poll \/ RefreshDiff
  BY <1>1, <1>4, LoadsSingle DEF Poll, RefreshDiff, FlightInv
<1>5. CASE DataGrows
  <2>1. version' \in 1..MaxVersion
    BY <1>5, FrontAssumption, SMTT(30) DEF DataGrows, FlightInv
  <2> QED
    BY <1>5, <2>1 DEF DataGrows, FlightInv
<1>6. ASSUME NEW f \in fetches, GraphArrives(f)
      PROVE  FlightInv'
  <2>1. version' = version /\ (fetches' = LoadList(fetches \ {f}, view) \/ fetches' = fetches \ {f})
    BY <1>6 DEF GraphArrives, Follows
  <2> QED
    BY <1>1, <1>2, <2>1, LoadsSingle DEF FlightInv
<1>7. ASSUME NEW f \in fetches,
             GraphFails(f) \/ DiffArrives(f) \/ DiffFails(f) \/ ListArrives(f) \/ ListFails(f)
      PROVE  FlightInv'
  <2>1. version' = version /\ fetches' = fetches \ {f}
    BY <1>7 DEF GraphFails, DiffArrives, DiffFails, ListArrives, ListFails
  <2> QED
    BY <1>2, <2>1 DEF FlightInv
<1>8. CASE UNCHANGED frontVars
  BY <1>8 DEF frontVars, FlightInv
<1> QED
  BY <1>3, <1>4, <1>5, <1>6, <1>7, <1>8 DEF FrontNext

LEMMA FlightInitially == FrontInit => FlightInv
<1> SUFFICES ASSUME FrontInit
             PROVE  FlightInv
  OBVIOUS
<1>1. version \in 1..MaxVersion
  BY FrontAssumption, SMTT(30) DEF FrontInit
<1> DEFINE g == Fetch("graph", 1, view.query)
           l == Fetch("list", 1, view.query)
<1>2. fetches = {g, l}
  BY DEF FrontInit
<1>3. g.hook = "graph" /\ l.hook = "list"
  BY DEF Fetch
<1> HIDE DEF g, l
<1> QED
  BY <1>1, <1>2, <1>3 DEF FlightInv, Single

\* A hook that loads again aborts what it had asked for, so at most one request of each
\* hook is in flight that may still change the page, however often the view changes, the
\* timer fires and the answers come; and the view is one that the controls offer.
THEOREM OneInFlight == FrontSpec => []FrontTypeOK
<1>1. FrontInv /\ FlightInv => FrontTypeOK
  BY DEF FrontInv, FrontTyped, FlightInv, Single, FrontTypeOK
<1>2. FrontInv /\ FlightInv /\ [FrontNext]_frontVars => FrontInv' /\ FlightInv'
  BY FrontInvKept, FlightKept
<1>3. FrontInit => FrontInv /\ FlightInv
  BY FrontInvInitially, FlightInitially
<1> QED
  BY <1>1, <1>2, <1>3, PTL DEF FrontSpec

=============================================================================
