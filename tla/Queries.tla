------------------------------ MODULE Queries ------------------------------
(***************************************************************************)
(* The read side of the backend (backend/app/api/routes.py): get_graph,    *)
(* get_node, get_edge, get_diff and evaluate_anomalies over a repository   *)
(* that ingests and purges between their reads.  Each handler awaits the   *)
(* repository several times; only the single reads are atomic.  Handlers   *)
(* share nothing, so one request is followed to its response.              *)
(*                                                                         *)
(* A filter has the set of nodes that match, for each of the namespaces,   *)
(* kind and label it asks for.  include_unresolved is not looked at by the *)
(* repository, and so left out.                                            *)
(***************************************************************************)
EXTENDS InMemory, Rules

CONSTANTS
  Spans,          \* lengths of the window presets
  Ranges,         \* explicit windows asked for
  Filters,        \* filters asked for
  BaselineSpan,   \* ANOMALY_BASELINE_HOURS, in clock units
  CanaryTargets   \* nodes that are canaries

VARIABLES
  req,   \* the request in progress, with what it has read; "idle" if none
  resp   \* the last response

ASSUME QueriesAssumption == Ranges \subseteq Window

queryVars == <<req, resp>>
None == [kind |-> "none"]

\* _passes: for each thing asked for, either end will do.
Passes(e, f) ==
  /\ {e[1], e[2]} \subseteq nodes
  /\ External \in {e[1], e[2]} => f.external
  /\ \A matching \in f.tests : {e[1], e[2]} \cap matching # {}

NoFilter == [tests |-> {}, external |-> TRUE]

\* query_edges: the edges with a bucket in the window that pass the filter, summed.
QueryEdges(w, f) ==
  LET rows == {k \in Rows : InWindow(w, k[1]) /\ Passes(<<k[2], k[3]>>, f)}
      of(e) == {k \in rows : <<k[2], k[3]>> = e}
  IN  [e \in {<<k[2], k[3]>> : k \in rows} |->
         [Nothing EXCEPT !.conns = Conns(of(e))]]

Ids == UNION {{k[2], k[3]} : k \in Key}
NodesFor(ids) == ids \cap nodes
Ends(agg) == UNION {{e[1], e[2]} : e \in DOMAIN agg}

\* _resolve: a preset or a range; anything invalid is answered with 422.
Explicit == {w \in Ranges : Validated(w)}
Asked == Explicit \cup {w \in {Preset(now, span) : span \in Spans} : Validated(w)}

-----------------------------------------------------------------------------
GraphEdges ==
  /\ req = None /\ resp = None
  /\ \E w \in Asked, f \in Filters :
       req' = [kind |-> "graph", edges |-> QueryEdges(w, f)]
  /\ UNCHANGED <<memVars, resp>>

GraphNodes ==
  /\ req.kind = "graph"
  /\ resp' = [kind |-> "graph", at |-> now, known |-> recorded, all |-> DOMAIN req.edges,
              graph |-> Assemble(DOMAIN req.edges, NodesFor(Ends(req.edges)))]
  /\ req' = None
  /\ UNCHANGED memVars

\* get_node and get_edge start alike.
DetailEdges ==
  /\ req = None /\ resp = None
  /\ \E w \in Asked : req' = [kind |-> "detail", edges |-> QueryEdges(w, NoFilter)]
  /\ UNCHANGED <<memVars, resp>>

\* node_detail: a self-loop is listed as outgoing only.
NodeDetail(n) ==
  /\ req.kind = "detail"
  /\ LET edges == DOMAIN req.edges
         outgoing == {e \in edges : e[1] = n}
     IN  resp' = [kind |-> "node", at |-> now, known |-> recorded, found |-> n \in nodes, id |-> n,
                  edges |-> edges, outgoing |-> outgoing,
                  incoming |-> {e \in edges \ outgoing : e[2] = n}]
  /\ req' = None
  /\ UNCHANGED memVars

\* 404 when the edge is not in the window, or one of its nodes not stored.
EdgeDetail(e) ==
  /\ req.kind = "detail"
  /\ resp' = [kind |-> "edge", at |-> now, known |-> recorded, edges |-> DOMAIN req.edges, id |-> e,
              found |-> e \in DOMAIN req.edges /\ {e[1], e[2]} \subseteq NodesFor(Ends(req.edges))]
  /\ req' = None
  /\ UNCHANGED memVars

DiffBaseline ==
  /\ req = None /\ resp = None
  /\ \E b, c \in Explicit, f \in Filters :
       /\ ~Overlap(b, c)
       /\ req' = [kind |-> "diff", window |-> c, filter |-> f, baseline |-> QueryEdges(b, f)]
  /\ UNCHANGED <<memVars, resp>>

DiffCurrent ==
  /\ req.kind = "diff"
  /\ LET current == QueryEdges(req.window, req.filter) IN
       \E includeUnchanged \in BOOLEAN :
         resp' = [kind |-> "diff", baseline |-> req.baseline, current |-> current,
                  diff |-> Compare(req.baseline, current, includeUnchanged)]
  /\ req' = None
  /\ UNCHANGED memVars

\* Mutant: the baseline reaches back from the end of the window.
BaselineOfEnd(w) == [start |-> w.end - BaselineSpan, end |-> w.start]

BaselineOf(w) == [start |-> w.start - BaselineSpan, end |-> w.start]

AnomaliesCurrent ==
  /\ req = None /\ resp = None
  /\ \E w \in Asked, f \in Filters :
       req' = [kind |-> "current", window |-> w, filter |-> f, current |-> QueryEdges(w, f)]
  /\ UNCHANGED <<memVars, resp>>

AnomaliesBaseline ==
  /\ req.kind = "current"
  /\ req' = [kind |-> "baseline", window |-> req.window, filter |-> req.filter,
             current |-> req.current, known |-> recorded, at |-> now,
             baseline |-> QueryEdges(BaselineOf(req.window), req.filter)]
  /\ UNCHANGED <<memVars, resp>>

AnomaliesNodes ==
  /\ req.kind = "baseline"
  /\ resp' = [kind |-> "anomalies", window |-> req.window, known |-> req.known, at |-> req.at,
              found |-> Respond(Detect(req.current, req.baseline,
                                       NodesFor(Ends(req.current)) \cap CanaryTargets))]
  /\ req' = None
  /\ UNCHANGED memVars

QueriesInit == MemInit /\ req = None /\ resp = None

Handlers ==
  \/ GraphEdges \/ GraphNodes
  \/ DetailEdges
  \/ \E n \in Ids : NodeDetail(n)
  \/ \E e \in Ids \X Ids : EdgeDetail(e)
  \/ DiffBaseline \/ DiffCurrent
  \/ AnomaliesCurrent \/ AnomaliesBaseline \/ AnomaliesNodes

QueriesNext ==
  \/ Handlers
  \/ MemNext /\ UNCHANGED queryVars

QueriesSpec == QueriesInit /\ [][QueriesNext]_<<memVars, queryVars>>

-----------------------------------------------------------------------------
(* Properties.                                                             *)

\* Type invariant of the requests and of what they read; buckets start on a minute.
QueriesTypeOK ==
  /\ recorded \subseteq Batch /\ merged \in [Key -> [Batch -> Nat]] /\ now \in Nat
  /\ \A k \in Key : k[1] % Minute = 0
  /\ nodes \subseteq Ids
  /\ req.kind \in {"none", "graph", "detail", "diff", "current", "baseline"}
  /\ resp.kind \in {"none", "graph", "node", "edge", "diff", "anomalies"}

Gone(e) == \A b \in resp.known : \A k \in EdgesOf[b] :
             <<k[2], k[3]>> = e => k[1] < resp.at - Retention

\* get_graph, get_node and get_edge read edges and nodes in two steps.  A node of
\* an edge is missing from the graph, or a node or edge seen in the window is
\* answered with 404, only if a purge came between and every bucket ever ingested
\* for the edge had expired.
MissingMeansExpired ==
  /\ resp.kind = "graph" =>
       \A i \in 1..Len(resp.graph.edges) :
         LET e == resp.graph.edges[i] IN {e[1], e[2]} \subseteq resp.graph.nodes \/ Gone(e)
  /\ resp.kind = "node" /\ ~resp.found => \A e \in resp.incoming \cup resp.outgoing : Gone(e)
  /\ resp.kind = "edge" /\ ~resp.found /\ resp.id \in resp.edges => Gone(resp.id)

\* assemble's docstring: truncation is reproducible and reported.  The response
\* holds the longest sorted prefix of the edges that respects both caps, and says
\* so when it is shorter.
GraphIsLongestPrefix ==
  resp.kind = "graph" =>
    LET s == Sorted(resp.all)
        fits == {n \in 0..Len(s) : n <= MaxEdges /\ Cardinality(EdgeNodes(Prefix(s, n))) <= MaxNodes}
    IN  /\ resp.graph.edges = Prefix(s, CHOOSE n \in fits : \A m \in fits : m <= n)
        /\ resp.graph.truncated <=> Len(resp.graph.edges) < Len(s)

Ingested(e) ==
  Total([p \in {q \in ReportsFor(Key) : q[1] \in recorded /\ <<q[2].source, q[2].target>> = e} |->
           p[2].conns])

\* validate_diff_periods' comment: no interval is counted on both sides.  The two
\* periods, read one after the other while batches arrive, never show more
\* connections of an edge than were ingested.
DiffNeverDoubleCounts ==
  resp.kind = "diff" =>
    \A e \in DOMAIN resp.baseline \cup DOMAIN resp.current :
      (IF e \in DOMAIN resp.baseline THEN resp.baseline[e].conns ELSE 0)
        + (IF e \in DOMAIN resp.current THEN resp.current[e].conns ELSE 0) <= Ingested(e)

\* NEW_EDGE and NEW_EXTERNAL_EGRESS say "not observed" in the baseline period: of
\* what was on record when the baseline was read, no bucket of that edge lay in
\* the BaselineSpan before the window, unless retention had expired it.
NewMeansUnseen ==
  resp.kind = "anomalies" =>
    \A i \in 1..Len(resp.found) : resp.found[i][2] \in {"NEW_EDGE", "NEW_EXTERNAL_EGRESS"} =>
      \A b \in resp.known : \A k \in EdgesOf[b] :
        <<k[2], k[3]>> = resp.found[i][1] /\ resp.window.start - BaselineSpan <= k[1] /\ k[1] < resp.window.start
          => k[1] < resp.at - Retention
=============================================================================
