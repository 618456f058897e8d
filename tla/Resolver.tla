------------------------------ MODULE Resolver ------------------------------
(***************************************************************************)
(* The identity resolver of the agent (agent/internal/resolver): the       *)
(* informer caches, which follow the cluster one watch per resource, and   *)
(* the lookups that turn an address into a workload, a Service, the host,  *)
(* EXTERNAL or nothing.  A resolution makes several lookups; the caches    *)
(* may change between any two of them.                                     *)
(*                                                                         *)
(* The cluster, its garbage collection and its endpoint controller are     *)
(* external.  CandidateServices and ports are left out: the candidates are *)
(* not delivered and the answer does not depend on them.                   *)
(***************************************************************************)
EXTENDS Integers, Sequences, FiniteSets

CONSTANTS
  Pod,           \* pod names
  PodInfo,       \* per pod: its node, hostNetwork, the kind and name of its controller
  ReplicaSet,    \* replica sets
  DeploymentOf,  \* per replica set: the Deployment that owns it, or "" for none
  Service,       \* services
  ClusterIP,     \* per service: its address
  Selects,       \* per service: the pods it selects
  NodeName,      \* nodes
  NodeIP,        \* per node: its address
  PodIP,         \* addresses for pods
  Elsewhere,     \* addresses that belong to nothing in the cluster
  RangeOf,       \* per address: the range it lies in
  MaxEvents      \* bound: changes of the cluster

VARIABLES
  cluster,   \* per resource and object, what the API server holds
  cache,     \* the same, as the informers have it
  pending,   \* per resource, the watch events still to come
  lookup,    \* the resolution under way, or the last one
  events,    \* see MaxEvents
  held,      \* ghost: per pod, the addresses it has had
  served     \* ghost: per service, the addresses that were ready behind it

resolverVars == <<cluster, cache, pending, lookup, events, held, served>>

Resource == {"pods", "services", "slices", "sets"}
Address == PodIP \cup Elsewhere \cup {NodeIP[n] : n \in NodeName} \cup {ClusterIP[s] : s \in Service}
NoIP == "none"
Gone == [ip |-> NoIP, ready |-> FALSE, finished |-> FALSE]

\* A pod's replica set is one of the cluster's; no address is the mark for none.
ASSUME ResolverAssumption ==
  /\ IsFiniteSet(Pod)
  /\ \A p \in Pod : PodInfo[p].kind = "ReplicaSet" => PodInfo[p].name \in ReplicaSet
  /\ Selects \in [Service -> SUBSET Pod]
  /\ NoIP \notin Address
  /\ MaxEvents \in Nat

-----------------------------------------------------------------------------
(* The index lookups on a state c of the caches.                           *)

\* PodByIP takes the first of the pods indexed under an address; pods on the host
\* network share one, and a finished pod keeps its own.
PodsByIP(c, ip) == {p \in Pod : c["pods"][p].ip = ip}

IsNodeIP(ip) == \E n \in NodeName : NodeIP[n] = ip

ServicesByClusterIP(c, ip) == {s \in Service : c["services"][s] /\ ClusterIP[s] = ip}

\* Mutant: endpoints that are not ready count.
EndpointsForServiceAll(c, s) == {e.ip : e \in c["slices"][s]}

EndpointsForService(c, s) == {e.ip : e \in {e \in c["slices"][s] : e.ready}}

\* Mutant: what is not known to be here is dropped.
OriginatesElsewhereUnknown(c, ip, node) ==
  IF PodsByIP(c, ip) = {} THEN {TRUE} ELSE {PodInfo[p].node # node : p \in PodsByIP(c, ip)}

\* OriginatesElsewhere over NodeForPodIP: the possible verdicts, by the pod listed first.
OriginatesElsewhere(c, ip, node) ==
  IF PodsByIP(c, ip) = {} THEN {FALSE} ELSE {PodInfo[p].node # node : p \in PodsByIP(c, ip)}

WorkloadIs(kind, name) == [class |-> "workload", kind |-> kind, name |-> name]
ServiceIs(s) == [class |-> "service", kind |-> "Service", name |-> s]
Host == [class |-> "host", kind |-> "", name |-> "host"]
External == [class |-> "external", kind |-> "Pod", name |-> "EXTERNAL"]
Unresolved == [class |-> "unresolved", kind |-> "", name |-> "unresolved"]

\* workloadFor, with the one hop of ResolveOwner.
WorkloadFor(c, p) ==
  LET o == PodInfo[p]
      d == IF o.kind = "ReplicaSet" /\ c["sets"][o.name] THEN DeploymentOf[o.name] ELSE ""
  IN  CASE o.kind = "ReplicaSet" /\ d # "" -> WorkloadIs("Deployment", d)
        [] o.kind \in {"StatefulSet", "DaemonSet", "Job"} -> WorkloadIs(o.kind, o.name)
        [] OTHER -> WorkloadIs("Pod", p)

IsRoutable(ip) ==
  RangeOf[ip] \notin {"unspecified", "loopback", "private", "link-local", "multicast", "cgnat"}

-----------------------------------------------------------------------------
(* The cluster.                                                            *)

Change(r, o, v) ==
  /\ events < MaxEvents /\ events' = events + 1
  /\ cluster[r][o] # v
  /\ cluster' = [cluster EXCEPT ![r][o] = v]
  /\ pending' = [pending EXCEPT ![r] = Append(@, [object |-> o, value |-> v])]
  /\ lookup' = [lookup EXCEPT !.current = FALSE]
  /\ UNCHANGED cache

ThePod(p) == cluster["pods"][p]
Free(ip) == \A p \in Pod : ThePod(p).ip = ip => ThePod(p).finished

StartPod(p, ip) ==
  /\ ThePod(p) = Gone
  /\ IF PodInfo[p].host THEN ip = NodeIP[PodInfo[p].node] ELSE ip \in PodIP /\ Free(ip)
  /\ PodInfo[p].kind = "ReplicaSet" => cluster["sets"][PodInfo[p].name]
  /\ \E r \in BOOLEAN : Change("pods", p, [ip |-> ip, ready |-> r, finished |-> FALSE])
  /\ held' = [held EXCEPT ![p] = @ \cup {ip}]
  /\ UNCHANGED served

FinishPod(p) ==
  /\ ThePod(p) # Gone
  /\ Change("pods", p, [ThePod(p) EXCEPT !.ready = FALSE, !.finished = TRUE])
  /\ UNCHANGED <<held, served>>

DeletePod(p) == Change("pods", p, Gone) /\ UNCHANGED <<held, served>>

\* Endpoints that the endpoint controller puts into a Service's slice.
Endpoints(s) == {[ip |-> ThePod(p).ip, ready |-> ThePod(p).ready] :
                   p \in {p \in Selects[s] : ThePod(p) # Gone /\ ~ThePod(p).finished}}

Publish(s) ==
  /\ Change("slices", s, Endpoints(s))
  /\ served' = [served EXCEPT ![s] = @ \cup {e.ip : e \in {e \in Endpoints(s) : e.ready}}]
  /\ UNCHANGED held

ToggleService(s) == Change("services", s, ~cluster["services"][s]) /\ UNCHANGED <<held, served>>

\* Background deletion removes a replica set before its pods.
ToggleSet(r) == Change("sets", r, ~cluster["sets"][r]) /\ UNCHANGED <<held, served>>

\* The informer of resource r applies its next event.
Deliver(r) ==
  /\ pending[r] # <<>>
  /\ cache' = [cache EXCEPT ![r][Head(pending[r]).object] = Head(pending[r]).value]
  /\ pending' = [pending EXCEPT ![r] = Tail(@)]
  /\ UNCHANGED <<cluster, lookup, events, held, served>>

-----------------------------------------------------------------------------
(* A resolution.                                                           *)

Idle == [pc |-> "idle", role |-> "", ip |-> NoIP, pod |-> "", service |-> "", todo |-> {},
         seen |-> {}, answer |-> Unresolved, current |-> FALSE]

UpToDate ==
  /\ \A r \in Resource : pending[r] = <<>>
  /\ \A s \in Service : cluster["slices"][s] = Endpoints(s)

OnlyQuery == UNCHANGED <<cluster, cache, pending, events, held, served>>

Answered(a) == [lookup EXCEPT !.pc = "answered", !.pod = "", !.service = "", !.todo = {}, !.seen = {},
                         !.answer = a]

Asked(role, ip, pc) == [Idle EXCEPT !.pc = pc, !.role = role, !.ip = ip, !.current = UpToDate]

\* Mutant: the pod lookup comes first.
SourceStepPodFirst(ip) == "pod"

\* ResolveSource: a node's address before a pod's.
SourceStep(ip) == IF IsNodeIP(ip) THEN "host" ELSE "pod"

ResolveSource(ip) ==
  /\ lookup.pc \in {"idle", "answered"}
  /\ lookup' = IF SourceStep(ip) = "host"
          THEN [Asked("source", ip, "answered") EXCEPT !.answer = Host]
          ELSE Asked("source", ip, "pod")
  /\ OnlyQuery

\* ResolveDestination: ServiceByClusterIP.
ResolveDestination(ip) ==
  /\ lookup.pc \in {"idle", "answered"}
  /\ \/ /\ ServicesByClusterIP(cache, ip) = {}
        /\ lookup' = Asked("destination", ip, "pod")
     \/ \E s \in ServicesByClusterIP(cache, ip) :
          lookup' = [Asked("destination", ip, "endpoints") EXCEPT !.service = s]
  /\ OnlyQuery

\* Mutant: a source too may be EXTERNAL.
NoPodRoutable(role, ip) == IF IsRoutable(ip) THEN External ELSE Unresolved

\* What an address is that no pod has.
NoPod(role, ip) ==
  CASE role = "destination" /\ IsNodeIP(ip) -> Host
    [] role = "destination" /\ ~IsNodeIP(ip) /\ IsRoutable(ip) -> External
    [] OTHER -> Unresolved

\* PodByIP, in either.
LookUpPod ==
  /\ lookup.pc = "pod"
  /\ \/ \E p \in PodsByIP(cache, lookup.ip) : lookup' = [lookup EXCEPT !.pc = "owner", !.pod = p]
     \/ PodsByIP(cache, lookup.ip) = {} /\ lookup' = Answered(NoPod(lookup.role, lookup.ip))
  /\ OnlyQuery

LookUpOwner ==
  /\ lookup.pc = "owner"
  /\ lookup' = Answered(WorkloadFor(cache, lookup.pod))
  /\ OnlyQuery

\* workloadBehindService: the addresses, then for each its pod and the pod's owner.
LookUpEndpoints ==
  /\ lookup.pc = "endpoints"
  /\ lookup' = [lookup EXCEPT !.pc = "each", !.todo = EndpointsForService(cache, lookup.service)]
  /\ OnlyQuery

NextEndpoint ==
  /\ lookup.pc = "each"
  /\ \E ip \in lookup.todo :
       LET rest == [lookup EXCEPT !.todo = @ \ {ip}]
       IN  \/ PodsByIP(cache, ip) = {} /\ lookup' = rest
           \/ \E p \in PodsByIP(cache, ip) : lookup' = [rest EXCEPT !.pc = "behind", !.pod = p]
  /\ OnlyQuery

\* Endpoints of several workloads: the Service is kept.
Ambiguous(seen) == Cardinality(seen) > 1

OwnerBehind ==
  /\ lookup.pc = "behind"
  /\ LET seen == lookup.seen \cup {WorkloadFor(cache, lookup.pod)}
     IN  lookup' = IF Ambiguous(seen) THEN Answered(ServiceIs(lookup.service))
              ELSE [lookup EXCEPT !.pc = "each", !.pod = "", !.seen = seen]
  /\ OnlyQuery

AllEndpoints ==
  /\ lookup.pc = "each" /\ lookup.todo = {}
  /\ \/ lookup.seen = {} /\ lookup' = Answered(ServiceIs(lookup.service))
     \/ \E w \in lookup.seen : lookup' = Answered(w)
  /\ OnlyQuery

-----------------------------------------------------------------------------
Empty == [pods |-> [p \in Pod |-> Gone], services |-> [s \in Service |-> TRUE],
          slices |-> [s \in Service |-> {}], sets |-> [r \in ReplicaSet |-> TRUE]]

\* Start returns once every cache has synced.
ResolverInit ==
  /\ cluster = Empty /\ cache = Empty
  /\ pending = [r \in Resource |-> <<>>]
  /\ lookup = Idle
  /\ events = 0
  /\ held = [p \in Pod |-> {}] /\ served = [s \in Service |-> {}]

Evolve ==
  \/ \E p \in Pod : (\E ip \in Address : StartPod(p, ip)) \/ FinishPod(p) \/ DeletePod(p)
  \/ \E s \in Service : Publish(s) \/ ToggleService(s)
  \/ \E r \in ReplicaSet : ToggleSet(r)

Resolve ==
  \/ \E ip \in Address : ResolveSource(ip) \/ ResolveDestination(ip)
  \/ LookUpPod \/ LookUpOwner \/ LookUpEndpoints \/ NextEndpoint \/ OwnerBehind \/ AllEndpoints

ResolverNext == Evolve \/ Resolve \/ \E r \in Resource : Deliver(r)

ResolverSpec == ResolverInit /\ [][ResolverNext]_resolverVars

-----------------------------------------------------------------------------
(* Properties.                                                             *)

\* Type invariant; a source is never a Service and never EXTERNAL.
ResolverTypeOK ==
  /\ lookup.ip \in Address \cup {NoIP}
  /\ lookup.answer.class \in {"workload", "service", "host", "external", "unresolved"}
  /\ lookup.pc = "answered" /\ lookup.role = "source" => lookup.answer.class \notin {"service", "external"}

\* What the cluster itself says an address is: the pod that has it, or the only
\* workload ready behind the Service that has it.
Truth(role, ip) ==
  LET owners == {WorkloadFor(cluster, p) : p \in PodsByIP(cluster, ip)}
      services == ServicesByClusterIP(cluster, ip)
      ready(s) == {WorkloadFor(cluster, p) : p \in {p \in Selects[s] : ThePod(p).ready}}
  IN  IF role = "source" /\ IsNodeIP(ip) THEN {Host}
      ELSE IF role = "destination" /\ services # {}
           THEN UNION {IF Cardinality(ready(s)) = 1 THEN ready(s) ELSE {ServiceIs(s)} : s \in services}
      ELSE IF owners # {} THEN owners
      ELSE {NoPod(role, ip)}

\* No two pods have one address (a finished pod keeps its address until it is deleted).
Unshared ==
  \A p, r \in Pod : p # r /\ ThePod(p).ip = ThePod(r).ip => ThePod(p).ip = NoIP

\* A resolution during which the cluster stood still and the caches had caught up
\* says what the cluster says.
CaughtUpIsExact ==
  lookup.pc = "answered" /\ lookup.current /\ Unshared => lookup.answer \in Truth(lookup.role, lookup.ip)

\* However far each cache lags, and wherever in a resolution it changes, no workload is
\* named that has never had the address, nor one that has never had an address that was
\* ready behind the Service.
NeverInvented ==
  lookup.pc = "answered" /\ lookup.answer.class = "workload" =>
    \E p \in Pod :
      /\ lookup.answer \in {WorkloadFor(Empty, p), WorkloadIs("Pod", p)}
      /\ \/ lookup.ip \in held[p]
         \/ \E s \in Service : ClusterIP[s] = lookup.ip /\ held[p] \cap served[s] # {}

\* Where every agent sees every connection (nodes on one kernel), a connection of a pod
\* is dropped by the agent of the pod's own node only if another pod has had its
\* address; and with the pod cache current every other agent drops it.
KeptByItsNodeOnly ==
  \A p \in {p \in Pod : ThePod(p) # Gone /\ ~ThePod(p).finished}, n \in NodeName :
    LET ip == ThePod(p).ip
        verdicts == OriginatesElsewhere(cache, ip, n)
    IN  /\ n = PodInfo[p].node /\ TRUE \in verdicts =>
             \E r \in Pod \ {p} : ip \in held[r]
        /\ pending["pods"] = <<>> /\ Unshared => verdicts = {n # PodInfo[p].node}
=============================================================================
