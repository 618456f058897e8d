------------------------------ MODULE Frontend ------------------------------
(***************************************************************************)
(* The data hooks of the web page (frontend/src/features): useGraph, which *)
(* polls, useDiff, and useAnomalies, which follows the graph; with the     *)
(* view that App.tsx passes them.                                          *)
(*                                                                         *)
(* A step is one task of the browser's event loop, including the effects   *)
(* it causes.  The backend's data has a version that grows; an answer has  *)
(* one between that of its request and the present.  A request that was    *)
(* aborted rejects, and so does one that fails.                            *)
(***************************************************************************)
EXTENDS Integers, FiniteSets

CONSTANTS
  ViewQuery,   \* windows and filters of the graph, numbered from 1
  Comparison,  \* comparisons, numbered from 1; 0 is none (periodsProblem)
  MaxLoads,    \* bound: requests before the reader and the timer stop
  MaxVersion   \* bound: versions of the data

ASSUME FrontAssumption ==
  /\ ViewQuery \subseteq Nat \ {0} /\ Comparison \subseteq Nat
  /\ MaxLoads \in Nat /\ MaxVersion \in Nat \ {0}

VARIABLES
  view,      \* mode, query, paused, and the chosen comparison
  fetches,   \* requests not settled yet
  graph,     \* useGraph: latestSequence, the graph, refreshing, error, lastUpdated
  diff,      \* useDiff: its requests so far, the diff, loading, error
  listing,   \* useAnomalies: latestSequence, held
  version    \* the backend's data

frontVars == <<view, fetches, graph, diff, listing, version>>

Nil == <<>>

\* App.tsx: what the hooks are given.
Paused(v) == v.paused \/ v.mode # "live"
DiffQuery(v) == IF v.mode = "compare" THEN v.comparison ELSE 0
ListQuery(v) == IF v.mode = "compare" THEN 0 ELSE v.query

Fetch(hook, seq, query) ==
  [hook |-> hook, seq |-> seq, query |-> query, since |-> version, aborted |-> FALSE]

Abort(F, hook) == {IF f.hook = hook THEN [f EXCEPT !.aborted = TRUE] ELSE f : f \in F}

-----------------------------------------------------------------------------
(* The loads, on the requests F.                                           *)

\* useGraph's load.
LoadGraph(F, v) == Abort(F, "graph") \cup {Fetch("graph", graph.seq + 1, v.query)}

GraphLoading == [graph EXCEPT !.seq = @ + 1, !.refreshing = TRUE]

\* Mutant: the request before goes on.
LoadDiffBeside(F, v) == F \cup {Fetch("diff", diff.seq + 1, DiffQuery(v))}

\* useDiff's load, if there is a comparison.
LoadDiff(F, v) == Abort(F, "diff") \cup {Fetch("diff", diff.seq + 1, DiffQuery(v))}

\* Otherwise it only clears the diff.
DiffLoading(v) ==
  IF DiffQuery(v) = 0 THEN [diff EXCEPT !.data = Nil]
  ELSE [diff EXCEPT !.seq = @ + 1, !.loading = TRUE]

\* The effect of useAnomalies: the cleanup of the one before, and a request.
LoadList(F, v) ==
  Abort(F, "list") \cup (IF ListQuery(v) = 0 THEN {} ELSE {Fetch("list", listing.seq + 1, ListQuery(v))})

ListLoading(v) == IF ListQuery(v) = 0 THEN listing ELSE [listing EXCEPT !.seq = @ + 1]

Room == graph.seq + diff.seq + listing.seq < MaxLoads

-----------------------------------------------------------------------------
\* The reader changes mode (and with it the window), query, pause or comparison; effects
\* run whose dependencies changed.
ChangeView(v) ==
  /\ Room
  /\ LET changed == {x \in DOMAIN v : v[x] # view[x]}
     IN  Cardinality(changed) = 1 \/ changed = {"mode", "query"}
  /\ view' = v
  /\ LET reload == v.query # view.query \/ Paused(v) # Paused(view)
         compare == DiffQuery(v) # DiffQuery(view)
         relist == ListQuery(v) # ListQuery(view)
         F1 == IF reload THEN LoadGraph(fetches, v) ELSE fetches
         F2 == IF compare /\ DiffQuery(v) # 0 THEN LoadDiff(F1, v) ELSE F1
     IN  /\ fetches' = IF relist THEN LoadList(F2, v) ELSE F2
         /\ graph' = IF reload THEN GraphLoading ELSE graph
         /\ diff' = IF compare THEN DiffLoading(v) ELSE diff
         /\ listing' = IF relist THEN ListLoading(v) ELSE listing
  /\ UNCHANGED version

\* The interval timer, and the refresh button.
Poll ==
  /\ Room
  /\ fetches' = LoadGraph(fetches, view)
  /\ graph' = GraphLoading
  /\ UNCHANGED <<view, diff, listing, version>>

RefreshDiff ==
  /\ Room /\ DiffQuery(view) # 0
  /\ fetches' = LoadDiff(fetches, view)
  /\ diff' = DiffLoading(view)
  /\ UNCHANGED <<view, graph, listing, version>>

\* useGraph's finally.
EndsRefreshing(f) == f.seq = graph.seq

\* lastUpdated is a dependency of useAnomalies.
Follows(F) == LoadList(F, view)

GraphArrives(f) ==
  /\ f.hook = "graph" /\ ~f.aborted
  /\ IF f.seq = graph.seq
     THEN \E n \in f.since..version :
            /\ graph' = [graph EXCEPT !.data = <<[query |-> f.query, version |-> n]>>,
                                      !.error = FALSE, !.refreshing = FALSE]
            /\ fetches' = Follows(fetches \ {f})
            /\ listing' = ListLoading(view)
     ELSE fetches' = fetches \ {f} /\ UNCHANGED <<graph, listing>>
  /\ UNCHANGED <<view, diff, version>>

GraphFails(f) ==
  /\ f.hook = "graph"
  /\ graph' = [graph EXCEPT !.error = @ \/ (~f.aborted /\ f.seq = graph.seq),
                            !.refreshing = @ /\ ~EndsRefreshing(f)]
  /\ fetches' = fetches \ {f}
  /\ UNCHANGED <<view, diff, listing, version>>

DiffArrives(f) ==
  /\ f.hook = "diff" /\ ~f.aborted
  /\ diff' = [diff EXCEPT !.data = <<f.query>>, !.error = FALSE, !.loading = FALSE]
  /\ fetches' = fetches \ {f}
  /\ UNCHANGED <<view, graph, listing, version>>

DiffFails(f) ==
  /\ f.hook = "diff"
  /\ diff' = IF f.aborted THEN diff ELSE [diff EXCEPT !.error = TRUE, !.loading = FALSE]
  /\ fetches' = fetches \ {f}
  /\ UNCHANGED <<view, graph, listing, version>>

ListArrives(f) ==
  /\ f.hook = "list" /\ ~f.aborted
  /\ listing' = IF f.seq = listing.seq
                THEN [listing EXCEPT !.held = <<[query |-> f.query, since |-> f.since]>>,
                                     !.failed = FALSE]
                ELSE listing
  /\ fetches' = fetches \ {f}
  /\ UNCHANGED <<view, graph, diff, version>>

\* Silent; failed is a ghost.
ListFails(f) ==
  /\ f.hook = "list"
  /\ listing' = [listing EXCEPT !.failed = @ \/ ~f.aborted]
  /\ fetches' = fetches \ {f}
  /\ UNCHANGED <<view, graph, diff, version>>

\* The backend ingests.
DataGrows ==
  /\ version < MaxVersion
  /\ version' = version + 1
  /\ UNCHANGED <<view, fetches, graph, diff, listing>>

-----------------------------------------------------------------------------
View == [mode : {"live", "history", "compare"}, query : ViewQuery, paused : BOOLEAN,
         comparison : Comparison]

\* The page has been mounted and the first effects have run.
FrontInit ==
  /\ version = 1
  /\ view \in {v \in View : v.mode = "live" /\ ~v.paused}
  /\ graph = [seq |-> 1, data |-> Nil, refreshing |-> TRUE, error |-> FALSE]
  /\ diff = [seq |-> 0, data |-> Nil, loading |-> FALSE, error |-> FALSE]
  /\ listing = [seq |-> 1, held |-> Nil, failed |-> FALSE]
  /\ fetches = {Fetch("graph", 1, view.query), Fetch("list", 1, view.query)}

FrontNext ==
  \/ \E v \in View : ChangeView(v)
  \/ Poll \/ RefreshDiff \/ DataGrows
  \/ \E f \in fetches : \/ GraphArrives(f) \/ GraphFails(f) \/ DiffArrives(f) \/ DiffFails(f)
                        \/ ListArrives(f) \/ ListFails(f)

FrontSpec == FrontInit /\ [][FrontNext]_frontVars

-----------------------------------------------------------------------------
(* Properties.                                                             *)

\* Type invariant; at most one request of each hook has not been aborted.
FrontTypeOK ==
  /\ view \in View /\ version \in 1..MaxVersion
  /\ \A f, g \in {f \in fetches : ~f.aborted} : f.hook = g.hook => f = g

\* The graph on screen is the answer to the window and filters on screen, unless the
\* page says that it is refreshing or shows an error, in whatever order answers come.
GraphAnswersView ==
  ~graph.refreshing /\ ~graph.error => graph.data # Nil /\ graph.data[1].query = view.query

\* The same for a comparison, although useDiff has no sequence numbers.
DiffAnswersQuery ==
  DiffQuery(view) # 0 /\ ~diff.loading /\ ~diff.error =>
    diff.data = <<DiffQuery(view)>>

\* useAnomalies: "the list and the canvas describe the same moment".  Once its request
\* has been answered, the list shown was asked for after the graph's data.
ListFollowsGraph ==
  /\ ~\E f \in fetches : f.hook = "list" /\ ~f.aborted
  /\ ~listing.failed /\ graph.data # Nil /\ ListQuery(view) # 0
  => /\ listing.held # Nil /\ listing.held[1].query = view.query
     /\ graph.data[1].query = view.query => listing.held[1].since >= graph.data[1].version

\* What the page shows is what its controls ask for, whatever order requests and
\* answers of the three hooks take.
PageAnswersView == GraphAnswersView /\ DiffAnswersQuery /\ ListFollowsGraph
=============================================================================
