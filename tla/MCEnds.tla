------------------------------- MODULE MCEnds -------------------------------
(***************************************************************************)
(* The two ends of the system: on a node, the two BPF objects on one       *)
(* kernel, of which one is loaded, and the resolver over its informer      *)
(* caches; in the browser, the page's data hooks.  They share no variable, *)
(* so each runs alone: part says which.                                    *)
(***************************************************************************)
EXTENDS Probe, ByteSpike, Resolver, Frontend, TLC

CONSTANTS a, b  \* the two addresses for pods

VARIABLE part

nodeVars == <<sockVars, probeVars, spikeVars, resolverVars>>
mcVars == <<nodeVars, frontVars, part>>

Controlled(n, h, k, o) == [node |-> n, host |-> h, kind |-> k, name |-> o]
MCPodInfo == [web |-> Controlled("n1", FALSE, "ReplicaSet", "rs"),
              job |-> Controlled("n2", FALSE, "Job", "batch"),
              etcd |-> Controlled("n1", TRUE, "", "")]
MCDeploymentOf == [rs |-> "front"]
MCClusterIP == [svc |-> "vip"]
MCSelects == [svc |-> {"web", "job"}]
MCNodeIP == [n1 |-> "ip1", n2 |-> "ip2"]
MCRangeOf == [ip \in Address |-> CASE ip = "vip" -> "cgnat" [] ip = "world" -> "global"
                                   [] OTHER -> "private"]

\* Nothing tells one pod address from the other.
Addresses == Permutations(PodIP)

OrdinarySockets == \A s \in Sock : st[s] = "CLOSE" /\ kind[s] = "tcp4"
FirstView == view.query = 1 /\ view.comparison = 0

\* A bound: of the two sockets only the first may exist when the probe is attached, or be
\* of another kind.
OneExists == st[2] = "CLOSE" /\ kind[2] = "tcp4" /\ (kind[1] # "tcp4" => st[1] = "CLOSE")

\* The first window, alone or compared: nothing tells the windows, or the comparisons, apart.
FirstWindow == view.query = 1 /\ view.comparison \in {0, 1}

MCInit ==
  /\ ProbeInit /\ SpikeInit /\ ResolverInit /\ FrontInit
  /\ \/ part = "tcp_connect" /\ OneExists /\ FirstView
     \/ part = "tcp_bytes" /\ kind[2] = "tcp4" /\ FirstView
     \/ part = "resolver" /\ OrdinarySockets /\ FirstView
     \/ part = "frontend" /\ OrdinarySockets /\ FirstWindow

MCNext ==
  \/ part = "tcp_connect" /\ ProbeNext /\ UNCHANGED <<spikeVars, resolverVars, frontVars, part>>
  \/ part = "tcp_bytes" /\ SpikeNext /\ UNCHANGED <<probeVars, resolverVars, frontVars, part>>
  \/ /\ part = "resolver" /\ ResolverNext
     /\ UNCHANGED <<sockVars, probeVars, spikeVars, frontVars, part>>
  \/ part = "frontend" /\ FrontNext /\ UNCHANGED <<nodeVars, part>>

MCSpec == MCInit /\ [][MCNext]_mcVars

\* Type invariant of the modules.
EndsTypeOK == ProbeTypeOK /\ ResolverTypeOK /\ FrontTypeOK
=============================================================================
