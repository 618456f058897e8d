------------------------------ MODULE Serving ------------------------------
(***************************************************************************)
(* The backend process from start to exit: app/serve.py (listeners, _run,  *)
(* serve) and app/main.py (lifespan), with PostgresRepository.connect.     *)
(* "ops" runs the application's lifespan; without TLS it is the only       *)
(* listener and serves everything.  A listener follows uvicorn: it is told *)
(* to exit by a flag, then refuses new requests, and ends when its last    *)
(* request has.                                                            *)
(***************************************************************************)
EXTENDS Naturals, FiniteSets

CONSTANTS
  Request,    \* requests that may arrive
  MaxRetries  \* bound: connection attempts before the deadline

ASSUME RetriesAssumption == MaxRetries \in Nat

Rest == {"ingest", "api"}
Task == {"retention", "anomaly", "dispatcher"}

VARIABLES
  tls,         \* tls_enabled
  database,    \* DATABASE_URL is set
  life,        \* the lifespan: starting, connected, up, ending, over, failed
  retries,     \* failed connection attempts
  repository,  \* app.state.repository
  pool,        \* its connection pool: none, open, closed
  tasks,       \* the background tasks that run
  listener,    \* per listener: off, open, refusing, ended, broken
  shouldExit,  \* listeners told to exit
  requests,    \* requests in progress: their listener and repository
  answered,    \* requests that have arrived
  stop,        \* the signal has come
  main,        \* serve: starting, serving, stopping_rest, stopping_first, exited
  failed       \* serve's failed

lifeVars == <<life, retries, repository, pool, tasks>>
serveVars == <<main, failed, shouldExit>>
configVars == <<tls, database>>
servingVars == <<configVars, lifeVars, serveVars, listener, requests, answered, stop>>

Others == IF tls THEN Rest ELSE {}
Done(l) == listener[l] \in {"ended", "broken"}
InProgress(l) == {r \in DOMAIN requests : requests[r].on = l}

-----------------------------------------------------------------------------
(* The lifespan.                                                           *)

\* The deadline has not passed.
TimeLeft == retries < MaxRetries

\* A transient failure is retried until the deadline.
ConnectFails ==
  /\ life = "starting" /\ database /\ main # "exited"
  /\ IF TimeLeft
     THEN retries' = retries + 1 /\ UNCHANGED <<life, listener>>
     ELSE life' = "failed" /\ listener' = [listener EXCEPT !["ops"] = "ended"] /\ UNCHANGED retries
  /\ UNCHANGED <<repository, pool, tasks, configVars, serveVars, requests, answered, stop>>

Connect ==
  /\ life = "starting" /\ database /\ main # "exited"
  /\ life' = "connected"
  /\ pool' = "open"
  /\ UNCHANGED <<retries, repository, tasks, configVars, serveVars, listener, requests, answered,
                 stop>>

\* migrate; then the repository is replaced and the tasks start.
Migrate(ok) ==
  /\ life = "connected"
  /\ IF ok
     THEN life' = "up" /\ repository' = "postgres" /\ tasks' = Task /\ UNCHANGED listener
     ELSE /\ life' = "failed" /\ listener' = [listener EXCEPT !["ops"] = "ended"]
          /\ UNCHANGED <<repository, tasks>>
  /\ UNCHANGED <<retries, pool, configVars, serveVars, requests, answered, stop>>

StartInMemory ==
  /\ life = "starting" /\ ~database
  /\ life' = "up" /\ tasks' = Task
  /\ UNCHANGED <<retries, repository, pool, configVars, serveVars, listener, requests, answered,
                 stop>>

\* The end of the lifespan: tasks are cancelled and awaited one by one ...
CancelTask(t) ==
  /\ life = "ending" /\ t \in tasks
  /\ tasks' = tasks \ {t}
  /\ UNCHANGED <<life, retries, repository, pool, configVars, serveVars, listener, requests,
                 answered, stop>>

TasksAwaited == tasks = {}

\* ... and the pool is closed.  Then the ops listener has ended.
CloseStorage ==
  /\ life = "ending" /\ TasksAwaited
  /\ life' = "over"
  /\ pool' = IF pool = "open" THEN "closed" ELSE pool
  /\ listener' = [listener EXCEPT !["ops"] = "ended"]
  /\ UNCHANGED <<retries, repository, tasks, configVars, serveVars, requests, answered, stop>>

-----------------------------------------------------------------------------
(* Listeners (uvicorn) and requests.                                       *)

Arrive(r, l) ==
  /\ r \notin answered /\ listener[l] = "open"
  /\ answered' = answered \cup {r}
  /\ requests' = [x \in DOMAIN requests \cup {r} |->
                    IF x = r THEN [on |-> l, repository |-> repository] ELSE requests[x]]
  /\ UNCHANGED <<lifeVars, configVars, serveVars, listener, stop>>

Answer(r) ==
  /\ r \in DOMAIN requests
  /\ requests' = [x \in DOMAIN requests \ {r} |-> requests[x]]
  /\ UNCHANGED <<lifeVars, configVars, serveVars, listener, answered, stop>>

\* The listener notices its flag.
Refuse(l) ==
  /\ l \in shouldExit /\ listener[l] = "open"
  /\ listener' = [listener EXCEPT ![l] = "refusing"]
  /\ UNCHANGED <<lifeVars, configVars, serveVars, requests, answered, stop>>

\* Its last request has ended; the ops listener then ends the lifespan.
Drained(l) ==
  /\ listener[l] = "refusing" /\ InProgress(l) = {}
  /\ IF l = "ops" THEN life = "up" /\ life' = "ending" /\ UNCHANGED listener
     ELSE listener' = [listener EXCEPT ![l] = "ended"] /\ UNCHANGED life
  /\ UNCHANGED <<retries, repository, pool, tasks, configVars, serveVars, requests, answered, stop>>

\* With the lifespan up the ops port is bound; if it is taken, the lifespan ends.
OpenOps(ok) ==
  /\ life = "up" /\ listener["ops"] = "off"
  /\ IF ok THEN listener' = [listener EXCEPT !["ops"] = "open"] /\ UNCHANGED life
     ELSE life' = "ending" /\ UNCHANGED listener
  /\ UNCHANGED <<retries, repository, pool, tasks, configVars, serveVars, requests, answered, stop>>

\* Mutant: the rest does not wait for the ops listener.
RestMayOpenAtOnce == main # "exited"

RestMayOpen == main \notin {"starting", "exited"}

\* A listener of the rest opens, or finds its port taken (SystemExit, made an
\* ordinary error by _run), or was told to exit before it opened.
OpenPort(l, ok) ==
  /\ RestMayOpen /\ l \in Others /\ listener[l] = "off"
  /\ listener' = [listener EXCEPT ![l] = IF ~ok THEN "broken"
                                         ELSE IF l \in shouldExit THEN "ended" ELSE "open"]
  /\ UNCHANGED <<lifeVars, configVars, serveVars, requests, answered, stop>>

\* The ops listener ends on its own, with an error that skips its shutdown.
OpsBreaks ==
  /\ listener["ops"] = "open" /\ main # "exited"
  /\ listener' = [listener EXCEPT !["ops"] = "broken"]
  /\ UNCHANGED <<lifeVars, configVars, serveVars, requests, answered, stop>>

Signal ==
  /\ ~stop /\ main # "exited"
  /\ stop' = TRUE
  /\ UNCHANGED <<lifeVars, configVars, serveVars, listener, requests, answered>>

-----------------------------------------------------------------------------
(* serve.                                                                  *)

\* The poll of first.started.
Started ==
  /\ main = "starting" /\ listener["ops"] \in {"open", "broken"}
  /\ main' = "serving"
  /\ UNCHANGED <<failed, shouldExit, lifeVars, configVars, listener, requests, answered, stop>>

StartupFailed ==
  /\ main = "starting" /\ listener["ops"] = "ended"
  /\ main' = "exited" /\ failed' = TRUE
  /\ UNCHANGED <<shouldExit, lifeVars, configVars, listener, requests, answered, stop>>

SomeDone == \E l \in Others \cup {"ops"} : Done(l)

\* Mutant: only listeners are waited for.
WaitEndsOnFailure == SomeDone

\* asyncio.wait: the signal or the first listener that ends.
WaitEnds == stop \/ SomeDone

\* failed; when both have come, either may be what the wait reports.
Outcomes == IF stop /\ SomeDone THEN BOOLEAN ELSE {~stop}

StopRest ==
  /\ main = "serving" /\ WaitEnds
  /\ failed' \in Outcomes
  /\ shouldExit' = Others
  /\ main' = "stopping_rest"
  /\ UNCHANGED <<lifeVars, configVars, listener, requests, answered, stop>>

RestAwaited == \A l \in Others : Done(l)

StopFirst ==
  /\ main = "stopping_rest" /\ RestAwaited
  /\ shouldExit' = shouldExit \cup {"ops"}
  /\ main' = "stopping_first"
  /\ UNCHANGED <<failed, lifeVars, configVars, listener, requests, answered, stop>>

\* The end of serve, and with it of the event loop.
Exit ==
  /\ main = "stopping_first" /\ Done("ops")
  /\ main' = "exited"
  /\ requests' = <<>>
  /\ UNCHANGED <<failed, shouldExit, lifeVars, configVars, listener, answered, stop>>

-----------------------------------------------------------------------------
ServingInit ==
  /\ tls \in BOOLEAN /\ database \in BOOLEAN
  /\ life = "starting" /\ retries = 0
  /\ repository = "memory" /\ pool = "none" /\ tasks = {}
  /\ listener = [l \in Rest \cup {"ops"} |-> "off"]
  /\ shouldExit = {} /\ requests = <<>> /\ answered = {}
  /\ stop = FALSE /\ main = "starting" /\ failed = FALSE

Progress ==
  \/ ConnectFails \/ Connect \/ StartInMemory \/ CloseStorage
  \/ \E ok \in BOOLEAN : Migrate(ok) \/ OpenOps(ok) \/ \E l \in Rest : OpenPort(l, ok)
  \/ \E t \in Task : CancelTask(t)
  \/ \E r \in Request : Answer(r)
  \/ \E l \in Rest \cup {"ops"} : Refuse(l) \/ Drained(l)
  \/ Started \/ StartupFailed \/ StopRest \/ StopFirst \/ Exit

ServingNext ==
  \/ Progress
  \/ \E r \in Request, l \in Rest \cup {"ops"} : Arrive(r, l)
  \/ OpsBreaks
  \/ Signal

\* The event loop goes on: connecting has a deadline, and statements time out, so
\* requests and tasks end.
ServingFairness == WF_servingVars(Progress)

ServingSpec == ServingInit /\ [][ServingNext]_servingVars /\ ServingFairness

-----------------------------------------------------------------------------
(* Properties.                                                             *)

\* Type invariant.
ServingTypeOK ==
  /\ life \in {"starting", "connected", "up", "ending", "over", "failed"}
  /\ retries \in 0..MaxRetries /\ tasks \subseteq Task
  /\ \A l \in DOMAIN listener : listener[l] \in {"off", "open", "refusing", "ended", "broken"}
  /\ DOMAIN requests \subseteq answered
  /\ main \in {"starting", "serving", "stopping_rest", "stopping_first", "exited"}

\* A request has the storage it was accepted for, on every way in and out.  With a
\* database none is handled on the in-memory repository the application starts with
\* ("a batch accepted before startup finished would be written to memory and lost"),
\* and while a request or a background task runs its pool is open ("Stop taking data
\* first, then close the database").
StorageServes ==
  /\ database => \A r \in DOMAIN requests : requests[r].repository = "postgres"
  /\ pool = "closed" => DOMAIN requests = {} /\ tasks = {}

\* "Any listener ending on its own is a failure; a signal is a shutdown": the
\* process reports success only after a signal, and failure only when a listener
\* ended by itself or startup failed.
ExitStatusTells ==
  main = "exited" =>
    /\ ~failed => stop
    /\ failed => shouldExit = {} \/ \E l \in DOMAIN listener : listener[l] = "broken"
=============================================================================
