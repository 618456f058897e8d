----------------------------- MODULE MCServices -----------------------------
(***************************************************************************)
(* The backend and the CLI.  routes: three batches on nodes 1, 2, 3 and    *)
(* External, whose buckets expire while requests read them.  rules: every  *)
(* pair of aggregates from three families that meet the rules' thresholds. *)
(* alerts, serving, credentials: the module of that name.  They share no   *)
(* variable, so each runs alone: part says which.                          *)
(***************************************************************************)
EXTENDS Queries, RuleCases, Alerts, Serving, Credentials

VARIABLE part

MCBatch == {"b1", "b2", "b3"}
Report(t, source, target, conns) ==
  [seen |-> t, source |-> source, target |-> target, conns |-> conns]
MCReports == [b1 |-> {Report(1, 1, 2, 5), Report(1, 1, 9, 1)},
              b2 |-> {Report(2, 1, 3, 6)},
              b3 |-> {Report(4, 1, 3, 1), Report(5, 1, 2, 2)}]
Span(a, b) == [start |-> a, end |-> b]
MCRanges == {Span(0, 2), Span(0, 3), Span(0, 6), Span(2, 6), Span(4, 6), Span(0, 7)}
MCFilters == {NoFilter, [tests |-> {{1, 2}, {3, 9}}, external |-> TRUE], [tests |-> {}, external |-> FALSE]}

Agg(conns, f, bytes, setups, setupSum) ==
  [conns |-> conns, failed |-> f, bytes |-> bytes, setups |-> setups, setupSum |-> setupSum]
DiffAggs ==
  {Agg(c, NotMeasured, b, 0, 0) : c \in {0, 1, 4, 5, 6, 30001, 36001}, b \in {NotMeasured, 0, 10, 12}}
FailAggs == {Agg(c, f, NotMeasured, 0, 0) : c \in {0, 1, 8, 10}, f \in {NotMeasured, 0, 1, 2, 10}}
SetupAggs == {Agg(10, 0, NotMeasured, n, t) : n \in {0, 1, 10}, t \in {0, 9, 10, 30, 1000}}
MCCases == (DiffAggs \X DiffAggs) \cup (FailAggs \X FailAggs) \cup (SetupAggs \X SetupAggs)

MCContacts == [b1 |-> <<"k1">>, b2 |-> <<"k2", "k1">>, b3 |-> <<"k1">>]
MCRank == <<2, 2>>
MCChannels == <<"slack", "teams">>

Cmd(c, s) == [command |-> c, server |-> s]
MCCommands == {[p1 |-> Cmd("query", 1), p2 |-> Cmd("query", 1), p3 |-> Cmd("logout", 2)],
               [p1 |-> Cmd("query", 1), p2 |-> Cmd("query", 2), p3 |-> Cmd("logout", 1)],
               [p1 |-> Cmd("query", 1), p2 |-> Cmd("login", 1), p3 |-> Cmd("logout", 1)]}

backendVars == <<memVars, queryVars, case>>
mcVars == <<backendVars, alertVars, servingVars, credVars, part>>

Quiet == case = NoCase
NoneStands == standing = {}
Plain == ~tls /\ ~database
OneServer == run.p1 = run.p2

MCInit ==
  /\ QueriesInit /\ AlertsInit /\ ServingInit /\ CredInit
  /\ case \in Cases \cup {NoCase}
  /\ \/ part = "routes" /\ Quiet /\ NoneStands /\ Plain /\ OneServer
     \/ part = "rules" /\ case \in Cases /\ NoneStands /\ Plain /\ OneServer
     \/ part = "alerts" /\ standing \in {{}, Anomaly} /\ Quiet /\ Plain /\ OneServer
     \/ part = "serving" /\ Quiet /\ NoneStands /\ OneServer
     \/ part = "credentials" /\ Quiet /\ NoneStands /\ Plain

MCNext ==
  \/ /\ part = "routes" /\ QueriesNext
     /\ UNCHANGED <<case, alertVars, servingVars, credVars, part>>
  \/ /\ part = "alerts" /\ AlertsNext
     /\ UNCHANGED <<backendVars, servingVars, credVars, part>>
  \/ /\ part = "serving" /\ ServingNext
     /\ UNCHANGED <<backendVars, alertVars, credVars, part>>
  \/ /\ part = "credentials" /\ CredNext
     /\ UNCHANGED <<backendVars, alertVars, servingVars, part>>

\* The fairness of the module that runs.
MCFairness ==
  /\ WF_alertVars(part = "alerts" /\ Dispatch)
  /\ WF_servingVars(part = "serving" /\ Progress)
  /\ \A p \in Process : WF_credVars(part = "credentials" /\ Steps(p))

MCSpec == MCInit /\ [][MCNext]_mcVars /\ MCFairness

\* Type invariant of the modules.
ServicesTypeOK == QueriesTypeOK /\ AlertsTypeOK /\ ServingTypeOK /\ CredTypeOK

\* What was begun ends.  The dispatcher empties its queue whatever the channels answer,
\* unless it is stopped; a signal, also one during start-up, ends the backend (both
\* stay, so this is stop ~> exited); every command of the CLI ends, whoever holds the
\* lock: a wait for it times out, and get asks the provider once.
EverythingEnds ==
  /\ []<>(part = "alerts" => cancelled \/ (queue = <<>> /\ job = Idle))
  /\ []<>(part = "serving" /\ stop => main = "exited")
  /\ []<>(part = "credentials" => AllEnded)
=============================================================================
