--------------------------- MODULE BackendProofs ---------------------------
(***************************************************************************)
(* Proofs about the backend process.  Serving, for every set of requests   *)
(* and every number of connection attempts: its type invariant and its two *)
(* safety invariants.  The alert dispatcher: every message is accounted    *)
(* for, canary messages keep their cooldown and miss none, and a standing  *)
(* anomaly is announced once; queue and attempts keep their bounds.        *)
(***************************************************************************)
EXTENDS Serving, Alerts, WellFoundedInduction, TLAPS

-----------------------------------------------------------------------------
(* Serving.                                                                *)

Listener == Rest \cup {"ops"}
Ran == life \in {"up", "ending", "over"}

Types ==
  /\ tls \in BOOLEAN /\ database \in BOOLEAN /\ stop \in BOOLEAN /\ failed \in BOOLEAN
  /\ life \in {"starting", "connected", "up", "ending", "over", "failed"}
  /\ retries \in 0..MaxRetries /\ tasks \subseteq Task
  /\ repository \in {"memory", "postgres"} /\ pool \in {"none", "open", "closed"}
  /\ listener \in [Listener -> {"off", "open", "refusing", "ended", "broken"}]
  /\ DOMAIN requests \subseteq answered
  /\ main \in {"starting", "serving", "stopping_rest", "stopping_first", "exited"}

\* Before the lifespan is up nothing is open, and serve still polls or has given up.
Startup ==
  /\ ~Ran => main \in {"starting", "exited"} /\ \A l \in Listener : listener[l] \in {"off", "ended"}
  /\ main = "starting" => \A l \in Rest : listener[l] = "off"
  /\ database /\ Ran => repository = "postgres"

\* What each place in serve says of the listeners and of their flags.
Places ==
  /\ main \in {"starting", "serving"} => shouldExit = {}
  /\ shouldExit \subseteq Others \cup {"ops"}
  /\ "ops" \in shouldExit => main \in {"stopping_first", "exited"}
  /\ main = "serving" => listener["ops"] # "off" /\ \A l \in Listener : listener[l] # "ended"
  /\ main = "stopping_rest" => listener["ops"] \in {"open", "broken"}
  /\ main = "stopping_first" => listener["ops"] # "off"
  /\ main \in {"stopping_first", "exited"} => \A l \in Rest : listener[l] \notin {"open", "refusing"}
  /\ main = "stopping_first" => \A l \in Others : Done(l)
  /\ main = "exited" => Done("ops")
  /\ \A l \in Listener : listener[l] = "refusing" => l \in shouldExit
  /\ \A l \in Rest \ Others : listener[l] = "off"

\* A request in progress has a listener that still serves it; only the ops listener
\* can break with requests in progress.
Requests ==
  \A r \in DOMAIN requests :
    /\ requests[r].on \in Listener
    /\ \/ listener[requests[r].on] \in {"open", "refusing"}
       \/ requests[r].on = "ops" /\ listener["ops"] = "broken"

\* Once the lifespan ends there are no requests and none can come.
Ending ==
  /\ life \in {"ending", "over"} =>
       /\ DOMAIN requests = {}
       /\ main \in {"starting", "stopping_first", "exited"}
       /\ \A l \in Listener : listener[l] # "open"
  /\ life = "over" => tasks = {} /\ listener["ops"] = "ended"
  /\ life = "ending" => listener["ops"] \in {"off", "refusing"}
  /\ pool = "closed" => life = "over"

\* How serve came to fail, or not.
Outcome ==
  /\ main \in {"stopping_rest", "stopping_first"} =>
       /\ ~failed => stop
       /\ failed => \E l \in Listener : listener[l] = "broken"
  /\ ExitStatusTells

\* With a database, requests in progress are on it.
OnDatabase == database => \A r \in DOMAIN requests : requests[r].repository = "postgres"

SInv == Types /\ Startup /\ Places /\ Requests /\ Ending /\ Outcome /\ OnDatabase

\* The lifespan keeps the invariant: start-up opens nothing before the storage is there,
\* and its end comes after the last request.
LEMMA LifespanKeeps ==
  ASSUME SInv,
         \/ ConnectFails
         \/ Connect
         \/ StartInMemory
         \/ \E ok \in BOOLEAN : Migrate(ok)
         \/ \E t \in Task : CancelTask(t)
         \/ CloseStorage
  PROVE  SInv'
<1> USE RetriesAssumption DEF SInv, Types, Rest, Task, Listener, Ran, Others, Done,
   lifeVars, serveVars, configVars
<1>1. CASE ConnectFails
  <2>1. Types'
    BY <1>1 DEF ConnectFails, TimeLeft
  <2>2. Startup'
    BY <1>1 DEF ConnectFails, TimeLeft, Startup
  <2>3. Places'
    BY <1>1 DEF ConnectFails, TimeLeft, Startup, Places
  <2>4. Requests'
    BY <1>1 DEF ConnectFails, TimeLeft, Startup, Requests
  <2>5. Ending'
    BY <1>1 DEF ConnectFails, TimeLeft, Ending
  <2>6. Outcome'
    BY <1>1 DEF ConnectFails, TimeLeft, Startup, Outcome, ExitStatusTells
  <2>7. OnDatabase'
    BY <1>1 DEF ConnectFails, OnDatabase
  <2> QED
    BY <2>1, <2>2, <2>3, <2>4, <2>5, <2>6, <2>7
<1>2. CASE Connect
  <2>1. Types'
    BY <1>2 DEF Connect
  <2>2. Startup'
    BY <1>2 DEF Connect, Startup
  <2>3. Ending'
    BY <1>2 DEF Connect, Ending
  <2>4. Places' /\ Requests' /\ Outcome' /\ OnDatabase'
    BY <1>2 DEF Connect, Places, Requests, Outcome, OnDatabase, ExitStatusTells
  <2> QED
    BY <2>1, <2>2, <2>3, <2>4
<1>3. CASE StartInMemory
  <2>1. Types'
    BY <1>3 DEF StartInMemory
  <2>2. Startup'
    BY <1>3 DEF StartInMemory, Startup
  <2>3. Ending'
    BY <1>3 DEF StartInMemory, Ending
  <2>4. Places' /\ Requests' /\ Outcome' /\ OnDatabase'
    BY <1>3 DEF StartInMemory, Places, Requests, Outcome, OnDatabase, ExitStatusTells
  <2> QED
    BY <2>1, <2>2, <2>3, <2>4
<1>4. ASSUME NEW ok \in BOOLEAN, Migrate(ok)
      PROVE  SInv'
  <2>1. Types'
    BY <1>4, ZenonT(30) DEF Migrate
  <2>2. Startup'
    BY <1>4 DEF Migrate, Startup
  <2>3. Places'
    BY <1>4 DEF Migrate, Startup, Places
  <2>4. Requests'
    BY <1>4 DEF Migrate, Startup, Requests
  <2>5. Ending'
    BY <1>4 DEF Migrate, Ending
  <2>6. Outcome'
    BY <1>4 DEF Migrate, Startup, Outcome, ExitStatusTells
  <2>7. OnDatabase'
    BY <1>4 DEF Migrate, OnDatabase
  <2> QED
    BY <2>1, <2>2, <2>3, <2>4, <2>5, <2>6, <2>7
<1>5. ASSUME NEW t \in Task, CancelTask(t)
      PROVE  SInv'
  <2>1. Types'
    BY <1>5 DEF CancelTask
  <2>2. Ending'
    BY <1>5 DEF CancelTask, Ending
  <2>3. Startup' /\ Places' /\ Requests' /\ Outcome' /\ OnDatabase'
    BY <1>5 DEF CancelTask, Startup, Places, Requests, Outcome, OnDatabase, ExitStatusTells
  <2> QED
    BY <2>1, <2>2, <2>3
<1>6. CASE CloseStorage
  <2>1. Types'
    BY <1>6 DEF CloseStorage, TasksAwaited
  <2>2. Startup'
    BY <1>6 DEF CloseStorage, TasksAwaited, Startup
  <2>3. Places'
    BY <1>6 DEF CloseStorage, TasksAwaited, Places, Ending
  <2>4. Requests'
    BY <1>6 DEF CloseStorage, TasksAwaited, Requests, Ending
  <2>5. Ending'
    BY <1>6 DEF CloseStorage, TasksAwaited, Ending
  <2>6. Outcome'
    BY <1>6 DEF CloseStorage, TasksAwaited, Ending, Outcome, ExitStatusTells
  <2>7. OnDatabase'
    BY <1>6 DEF CloseStorage, OnDatabase
  <2> QED
    BY <2>1, <2>2, <2>3, <2>4, <2>5, <2>6, <2>7
<1> QED
  BY <1>1, <1>2, <1>3, <1>4, <1>5, <1>6

\* The listeners and their requests keep the invariant: a listener ends only after its
\* requests, unless it is the ops listener that breaks.
LEMMA ListenersKeep ==
  ASSUME SInv,
         \/ \E r \in Request : \E l \in Rest \cup {"ops"} : Arrive(r, l)
         \/ \E r \in Request : Answer(r)
         \/ \E l \in Rest \cup {"ops"} : Refuse(l)
         \/ \E l \in Rest \cup {"ops"} : Drained(l)
         \/ \E ok \in BOOLEAN : OpenOps(ok)
         \/ \E l \in Rest : \E ok \in BOOLEAN : OpenPort(l, ok)
         \/ OpsBreaks
         \/ Signal
  PROVE  SInv'
<1> USE RetriesAssumption DEF SInv, Types, Rest, Task, Listener, Ran, Others, Done,
   lifeVars, serveVars, configVars
<1>1. ASSUME NEW r \in Request, NEW l \in Listener, Arrive(r, l)
      PROVE  SInv'
  <2>1. Types'
    BY <1>1 DEF Arrive
  <2>2. Requests'
    BY <1>1 DEF Arrive, Requests
  <2>3. Ending'
    BY <1>1 DEF Arrive, Ending
  <2>4. OnDatabase'
    BY <1>1 DEF Arrive, Startup, OnDatabase
  <2>5. Startup' /\ Places' /\ Outcome'
    BY <1>1 DEF Arrive, Startup, Places, Outcome, ExitStatusTells
  <2> QED
    BY <2>1, <2>2, <2>3, <2>4, <2>5
<1>2. ASSUME NEW r \in Request, Answer(r)
      PROVE  SInv'
  <2>1. Types'
    BY <1>2 DEF Answer
  <2>2. Requests'
    BY <1>2 DEF Answer, Requests
  <2>3. Ending'
    BY <1>2 DEF Answer, Ending
  <2>4. OnDatabase'
    BY <1>2 DEF Answer, OnDatabase
  <2>5. Startup' /\ Places' /\ Outcome'
    BY <1>2 DEF Answer, Startup, Places, Outcome, ExitStatusTells
  <2> QED
    BY <2>1, <2>2, <2>3, <2>4, <2>5
<1>3. ASSUME NEW l \in Listener, Refuse(l)
      PROVE  SInv'
  <2>1. Types'
    BY <1>3 DEF Refuse
  <2>2. Startup'
    BY <1>3 DEF Refuse, Startup
  <2>3. Places'
    BY <1>3 DEF Refuse, Places
  <2>4. Requests'
    BY <1>3 DEF Refuse, Requests
  <2>5. Ending'
    BY <1>3 DEF Refuse, Ending
  <2>6. Outcome'
    BY <1>3 DEF Refuse, Outcome, ExitStatusTells
  <2>7. OnDatabase'
    BY <1>3 DEF Refuse, OnDatabase
  <2> QED
    BY <2>1, <2>2, <2>3, <2>4, <2>5, <2>6, <2>7
<1>4. CASE Drained("ops")
  <2>1. Types'
    BY <1>4 DEF Drained
  <2>2. Startup'
    BY <1>4 DEF Drained, Startup
  <2>3. Ending'
    <3>1. main = "stopping_first"
      BY <1>4 DEF Drained, Places
    <3>2. \A l \in Listener : listener[l] # "open"
      BY <1>4, <3>1 DEF Drained, Places
    <3>3. DOMAIN requests = {}
      BY <1>4, <3>1, ZenonT(30) DEF Drained, Places, Requests, InProgress
    <3> QED
      BY <1>4, <3>1, <3>2, <3>3 DEF Drained, Ending
  <2>4. Places' /\ Requests' /\ Outcome' /\ OnDatabase'
    BY <1>4, SMTT(30) DEF Drained, Places, Requests, Outcome, OnDatabase, ExitStatusTells
  <2> QED
    BY <2>1, <2>2, <2>3, <2>4
<1>5. ASSUME NEW l \in Rest, Drained(l)
      PROVE  SInv'
  <2>1. Types'
    BY <1>5 DEF Drained
  <2>2. Startup'
    BY <1>5, SMTT(30) DEF Drained, Startup
  <2>3. Places'
    BY <1>5, SMTT(30) DEF Drained, Places
  <2>4. Requests'
    BY <1>5, SMTT(30) DEF Drained, Requests, InProgress
  <2>5. Ending'
    BY <1>5 DEF Drained, Ending
  <2>6. Outcome'
    BY <1>5 DEF Drained, Outcome, ExitStatusTells
  <2>7. OnDatabase'
    BY <1>5 DEF Drained, OnDatabase
  <2> QED
    BY <2>1, <2>2, <2>3, <2>4, <2>5, <2>6, <2>7
<1>6. ASSUME NEW ok \in BOOLEAN, OpenOps(ok)
      PROVE  SInv'
  <2>1. Types'
    BY <1>6 DEF OpenOps
  <2>2. Startup'
    BY <1>6, SMTT(30) DEF OpenOps, Startup
  <2>3. Places'
    BY <1>6, SMTT(30) DEF OpenOps, Startup, Places
  <2>4. Requests'
    BY <1>6 DEF OpenOps, Requests
  <2>5. Ending'
    BY <1>6, ZenonT(30) DEF OpenOps, Startup, Places, Requests, Ending
  <2>6. Outcome'
    BY <1>6 DEF OpenOps, Outcome, ExitStatusTells
  <2>7. OnDatabase'
    BY <1>6 DEF OpenOps, OnDatabase
  <2> QED
    BY <2>1, <2>2, <2>3, <2>4, <2>5, <2>6, <2>7, SMTT(30)
<1>7. ASSUME NEW l \in Rest, NEW ok \in BOOLEAN, OpenPort(l, ok)
      PROVE  SInv'
  <2>1. Types'
    BY <1>7 DEF OpenPort, RestMayOpen
  <2>2. Startup'
    BY <1>7, SMTT(30) DEF OpenPort, RestMayOpen, Startup
  <2>3. Places'
    BY <1>7, SMTT(30) DEF OpenPort, RestMayOpen, Places
  <2>4. Requests'
    BY <1>7, SMTT(30) DEF OpenPort, RestMayOpen, Requests
  <2>5. Ending'
    BY <1>7 DEF OpenPort, RestMayOpen, Places, Ending
  <2>6. Outcome'
    BY <1>7 DEF OpenPort, RestMayOpen, Outcome, ExitStatusTells
  <2>7. OnDatabase'
    BY <1>7 DEF OpenPort, OnDatabase
  <2> QED
    BY <2>1, <2>2, <2>3, <2>4, <2>5, <2>6, <2>7, SMTT(30)
<1>8. CASE OpsBreaks
  <2>1. Types'
    BY <1>8 DEF OpsBreaks
  <2>2. Startup'
    BY <1>8 DEF OpsBreaks, Startup
  <2>3. Places'
    BY <1>8 DEF OpsBreaks, Places
  <2>4. Requests'
    BY <1>8 DEF OpsBreaks, Requests
  <2>5. Ending'
    BY <1>8 DEF OpsBreaks, Ending
  <2>6. Outcome'
    BY <1>8 DEF OpsBreaks, Outcome, ExitStatusTells
  <2>7. OnDatabase'
    BY <1>8 DEF OpsBreaks, OnDatabase
  <2> QED
    BY <2>1, <2>2, <2>3, <2>4, <2>5, <2>6, <2>7, SMTT(30)
<1>9. CASE Signal
  <2>1. Types'
    BY <1>9 DEF Signal
  <2>2. Outcome'
    BY <1>9, SMTT(30) DEF Signal, Outcome, ExitStatusTells
  <2>3. Startup' /\ Places' /\ Requests' /\ Ending' /\ OnDatabase'
    BY <1>9, SMTT(30) DEF Signal, Startup, Places, Requests, Ending, OnDatabase
  <2> QED
    BY <2>1, <2>2, <2>3
<1> QED
  BY <1>1, <1>2, <1>3, <1>4, <1>5, <1>6, <1>7, <1>8, <1>9

\* serve keeps the invariant: it goes on only when the listeners it awaits are done.
LEMMA ServeKeeps ==
  ASSUME SInv,
         \/ Started
         \/ StartupFailed
         \/ StopRest
         \/ StopFirst
         \/ Exit
  PROVE  SInv'
<1> USE RetriesAssumption DEF SInv, Types, Rest, Task, Listener, Ran, Others, Done,
   lifeVars, serveVars, configVars
<1>1. CASE Started
  <2>1. Types'
    BY <1>1 DEF Started
  <2>2. Startup'
    BY <1>1 DEF Started, Startup
  <2>3. Places'
    BY <1>1 DEF Started, Startup, Places
  <2>4. Ending'
    BY <1>1 DEF Started, Ending
  <2>5. Outcome'
    BY <1>1 DEF Started, Outcome, ExitStatusTells
  <2>6. Requests' /\ OnDatabase'
    BY <1>1 DEF Started, Requests, OnDatabase
  <2> QED
    BY <2>1, <2>2, <2>3, <2>4, <2>5, <2>6
<1>2. CASE StartupFailed
  <2>1. Types'
    BY <1>2 DEF StartupFailed
  <2>2. Startup'
    BY <1>2, SMTT(30) DEF StartupFailed, Startup
  <2>3. Places'
    BY <1>2 DEF StartupFailed, Startup, Places
  <2>4. Ending'
    BY <1>2, SMTT(30) DEF StartupFailed, Ending
  <2>5. Outcome'
    BY <1>2, SMTT(30) DEF StartupFailed, Places, Outcome, ExitStatusTells
  <2>6. Requests' /\ OnDatabase'
    BY <1>2, SMTT(30) DEF StartupFailed, Requests, OnDatabase
  <2> QED
    BY <2>1, <2>2, <2>3, <2>4, <2>5, <2>6
<1>3. CASE StopRest
  <2>1. Types'
    BY <1>3, ZenonT(30) DEF StopRest, WaitEnds, SomeDone, Outcomes
  <2>2. Startup'
    BY <1>3 DEF StopRest, WaitEnds, SomeDone, Outcomes, Startup
  <2>3. Places'
    BY <1>3 DEF StopRest, WaitEnds, SomeDone, Outcomes, Places
  <2>4. Ending'
    BY <1>3, SMTT(30) DEF StopRest, WaitEnds, SomeDone, Outcomes, Ending
  <2>5. Outcome'
    BY <1>3, ZenonT(30) DEF StopRest, WaitEnds, SomeDone, Outcomes, Places, Outcome, ExitStatusTells
  <2>6. Requests' /\ OnDatabase'
    BY <1>3, SMTT(30) DEF StopRest, Requests, OnDatabase
  <2> QED
    BY <2>1, <2>2, <2>3, <2>4, <2>5, <2>6
<1>4. CASE StopFirst
  <2>1. Types'
    BY <1>4, SMTT(30) DEF StopFirst, RestAwaited
  <2>2. Startup'
    BY <1>4, SMTT(30) DEF StopFirst, RestAwaited, Startup
  <2>3. Places'
    BY <1>4, SMTT(30) DEF StopFirst, RestAwaited, Places
  <2>4. Ending'
    BY <1>4, SMTT(30) DEF StopFirst, RestAwaited, Ending
  <2>5. Outcome'
    BY <1>4, SMTT(30) DEF StopFirst, RestAwaited, Outcome, ExitStatusTells
  <2>6. Requests' /\ OnDatabase'
    BY <1>4, SMTT(30) DEF StopFirst, Requests, OnDatabase
  <2> QED
    BY <2>1, <2>2, <2>3, <2>4, <2>5, <2>6
<1>5. CASE Exit
  <2>1. Types'
    BY <1>5, SMTT(30) DEF Exit
  <2>2. Startup'
    BY <1>5, SMTT(30) DEF Exit, Startup
  <2>3. Places'
    BY <1>5, SMTT(30) DEF Exit, Places
  <2>4. Requests'
    BY <1>5, SMTT(30) DEF Exit, Requests
  <2>5. Ending'
    BY <1>5, SMTT(30) DEF Exit, Ending
  <2>6. Outcome'
    BY <1>5 DEF Exit, Outcome, ExitStatusTells
  <2>7. OnDatabase'
    BY <1>5 DEF Exit, OnDatabase
  <2> QED
    BY <2>1, <2>2, <2>3, <2>4, <2>5, <2>6, <2>7, SMTT(30)
<1> QED
  BY <1>1, <1>2, <1>3, <1>4, <1>5

\* The invariant is inductive.
LEMMA InvariantKept == SInv /\ [ServingNext]_servingVars => SInv'
<1>1. SInv /\ ServingNext => SInv'
  BY LifespanKeeps, ListenersKeep, ServeKeeps DEF ServingNext, Progress
<1>2. ASSUME SInv, UNCHANGED servingVars
      PROVE  SInv'
  <2>1. /\ UNCHANGED <<tls, database, life, retries, repository, pool, tasks>>
        /\ UNCHANGED <<listener, shouldExit, requests, answered, stop, main, failed>>
    BY <1>2 DEF servingVars, lifeVars, serveVars, configVars
  <2>2. Others' = Others /\ (Ran' <=> Ran) /\ \A l : Done(l)' <=> Done(l)
    BY <2>1, ZenonT(30) DEF Others, Ran, Done
  <2>3. Types'
    BY <1>2, <2>1 DEF SInv, Types
  <2>4. Startup'
    BY <1>2, <2>1, <2>2, ZenonT(30) DEF SInv, Startup
  <2>5. Places'
    BY <1>2, <2>1, <2>2, ZenonT(30) DEF SInv, Places
  <2>6. Requests' /\ Ending' /\ OnDatabase'
    BY <1>2, <2>1, ZenonT(30) DEF SInv, Requests, Ending, OnDatabase
  <2>7. Outcome'
    BY <1>2, <2>1, ZenonT(30) DEF SInv, Outcome, ExitStatusTells, Others
  <2> QED
    BY <2>3, <2>4, <2>5, <2>6, <2>7 DEF SInv
<1> QED
  BY <1>1, <1>2

\* The process starts with nothing open and no request.
LEMMA InvariantInitially == ServingInit => SInv
<1> SUFFICES ASSUME ServingInit
             PROVE  SInv
  OBVIOUS
<1> USE DEF ServingInit, Listener, Rest
<1>1. DOMAIN requests = {}
  OBVIOUS
<1>2. Types
  <2>1. retries \in 0..MaxRetries
    BY RetriesAssumption
  <2>2. DOMAIN requests \subseteq answered
    BY <1>1
  <2>3. listener \in [Listener -> {"off", "open", "refusing", "ended", "broken"}]
    OBVIOUS
  <2>4. stop \in BOOLEAN /\ failed \in BOOLEAN
    BY ZenonT(30)
  <2> QED
    BY <2>1, <2>2, <2>3, <2>4 DEF Types
<1>3. Startup
  BY DEF Startup, Ran
<1>4. Places
  BY DEF Places, Others
<1>5. Requests /\ Ending /\ OnDatabase
  BY <1>1 DEF Requests, Ending, OnDatabase
<1>6. Outcome
  BY DEF Outcome, ExitStatusTells
<1> QED
  BY <1>2, <1>3, <1>4, <1>5, <1>6 DEF SInv

\* It holds throughout.
LEMMA Invariance == ServingSpec => []SInv
  BY InvariantInitially, InvariantKept, PTL DEF ServingSpec

\* The state of the process is well typed.
THEOREM ServingTyped == ServingSpec => []ServingTypeOK
<1>1. SInv => ServingTypeOK
  BY DEF SInv, Types, ServingTypeOK
<1> QED
  BY <1>1, Invariance, PTL

\* Whatever fails and whenever the signal comes, a request has the storage it was
\* accepted for until it ends: serve opens the listeners after the lifespan has
\* replaced the repository, and the lifespan closes the pool after all have ended.
THEOREM RequestsHaveStorage == ServingSpec => []StorageServes
<1>1. SInv => StorageServes
  BY DEF SInv, Ending, OnDatabase, StorageServes
<1> QED
  BY <1>1, Invariance, PTL

\* serve reports success only after a signal, and failure only when start-up failed or
\* a listener ended by itself.
THEOREM ExitStatusRight == ServingSpec => []ExitStatusTells
<1>1. SInv => ExitStatusTells
  BY DEF SInv, Outcome
<1> QED
  BY <1>1, Invariance, PTL

-----------------------------------------------------------------------------
(* The alert dispatcher: its inductive invariant.                          *)

Counters == [sent : Nat, failed : Nat, dropped : Nat]
QueueState == [queue : Seq(Nat \ {0}), alerts : [Range(Channels) -> Counters], taken : Nat]

Delivering == [message : Nat \ {0}, channel : 1..Len(Channels), attempt : Nat, step : {"post", "sleep"}]

\* Channel i has still to deliver job j.
ToDeliver(j, i) == IF j # Idle /\ j.channel <= i THEN 1 ELSE 0

\* AlertsAccounted, of the queues q with job j.
Tally(a, l, o) == a.sent + a.failed + a.dropped + l + o

Balanced(q, j) ==
  \A i \in 1..Len(Channels) :
    q.taken = Tally(q.alerts[Channels[i]], Len(q.queue), ToDeliver(j, i))

\* The cooldown table t against the messages r about each key: an entry is the time of
\* the last message, and a key without one has had none or not within the cooldown.
Spaced(times) == \A i \in 1..(Len(times) - 1) : times[i + 1] - times[i] >= Cooldown

TableInv(t, r) ==
  /\ DOMAIN t \subseteq CanaryKey
  /\ r \in [CanaryKey -> Seq(Nat)]
  /\ \A k \in CanaryKey :
       /\ k \in DOMAIN t => r[k] # <<>> /\ t[k] = Latest(r[k])
       /\ r[k] # <<>> => /\ Latest(r[k]) <= monotonic
                         /\ k \in DOMAIN t \/ monotonic - Latest(r[k]) >= Cooldown
       /\ Spaced(r[k])

\* What a pass compares with has all that is known to stand.
ActiveInv == active # NotYet => seen \subseteq active[1]

AlertsInv ==
  /\ monotonic \in Nat
  /\ DOMAIN contacts = AlertBatch
  /\ job = Idle \/ job \in Delivering
  /\ Queues \in QueueState
  /\ Balanced(Queues, job)
  /\ TableInv(canarySent, tried)
  /\ ActiveInv

\* Most leaves are first-order; those about numbers, sequences or records name SMT.
USE ZenonT(30)

-----------------------------------------------------------------------------
(* Induction, and the loop over a batch's contacts.                        *)

\* Induction on a set of numbers.
LEMMA SetInduction ==
  ASSUME NEW S, 0 \in S, \A n \in Nat : n \in S => n + 1 \in S
  PROVE  Nat \subseteq S
<1>1. SUFFICES ASSUME Nat \ S # {}
               PROVE  FALSE
  OBVIOUS
<1>2. PICK n \in Nat \ S : \A m \in Nat \ S : <<m, n>> \notin OpToRel(<, Nat)
  <2>1. PICK T : T = Nat \ S
    OBVIOUS
  <2> QED BY <1>1, <2>1, WFMin, NatLessThanWellFounded
<1>3. n # 0 /\ n \in Nat
  BY <1>2
<1>4. n - 1 \in Nat /\ n - 1 < n /\ (n - 1) + 1 = n
  BY <1>3, SMTT(30)
<1>5. <<n - 1, n>> \in OpToRel(<, Nat)
  BY <1>3, <1>4, SMTT(30) DEF OpToRel
<1>6. n - 1 \in S
  BY <1>2, <1>4, <1>5
<1>7. n \in S
  BY <1>4, <1>6
<1> QED BY <1>2, <1>7

\* f is the run of the loop over the first m keys, from s on.
IsRun(f, s, keys, m) ==
  f = [n \in 0..m |-> IF n = 0 THEN s ELSE NotifyCanary(f[n - 1], keys[n])]

LEMMA RunExists ==
  ASSUME NEW s, NEW keys, NEW m \in Nat
  PROVE  \E f : IsRun(f, s, keys, m)
<1> DEFINE S == {n \in Nat : \E f : IsRun(f, s, keys, n)}
<1>1. 0 \in S
  <2>1. PICK f : f = [n \in 0..0 |-> s]
    OBVIOUS
  <2>2. IsRun(f, s, keys, 0)
    BY <2>1, SMTT(30) DEF IsRun
  <2> QED BY <2>2
<1>2. ASSUME NEW n \in Nat, n \in S
      PROVE  n + 1 \in S
  <2>1. PICK f : IsRun(f, s, keys, n)
    BY <1>2
  <2>2. PICK g : g = [i \in 0..(n + 1) |-> IF i <= n THEN f[i] ELSE NotifyCanary(f[n], keys[n + 1])]
    OBVIOUS
  <2>3. ASSUME NEW i \in 0..(n + 1)
        PROVE  g[i] = IF i = 0 THEN s ELSE NotifyCanary(g[i - 1], keys[i])
    <3>1. CASE i <= n
      <4>1. i \in 0..n /\ g[i] = f[i] /\ (i # 0 => i - 1 \in 0..(n + 1) /\ i - 1 <= n)
        BY <2>2, <2>3, <3>1, SMTT(30)
      <4>2. i # 0 => g[i - 1] = f[i - 1]
        BY <2>2, <4>1
      <4>3. f[i] = IF i = 0 THEN s ELSE NotifyCanary(f[i - 1], keys[i])
        BY <2>1, <4>1 DEF IsRun
      <4> QED BY <4>1, <4>2, <4>3
    <3>2. CASE ~(i <= n)
      <4>1. i = n + 1 /\ i # 0 /\ i - 1 = n /\ n \in 0..(n + 1) /\ n <= n
        BY <2>3, <3>2, SMTT(30)
      <4>2. g[i] = NotifyCanary(f[n], keys[n + 1]) /\ g[n] = f[n]
        BY <2>2, <3>2, <4>1
      <4> QED BY <4>1, <4>2
    <3> QED BY <3>1, <3>2
  <2>4. IsRun(g, s, keys, n + 1)
    <3>1. DOMAIN g = 0..(n + 1) /\ g = [i \in 0..(n + 1) |-> g[i]]
      BY <2>2
    <3> QED BY <2>3, <3>1 DEF IsRun
  <2>5. n + 1 \in Nat
    BY SMTT(30)
  <2> QED BY <2>4, <2>5
<1> HIDE DEF S
<1>3. Nat \subseteq S
  BY <1>1, <1>2, SetInduction
<1> QED BY <1>3 DEF S

\* The loop ends in the last state of its run.
LEMMA LoopRuns ==
  ASSUME NEW s, NEW keys, Len(keys) \in Nat
  PROVE  \E f : IsRun(f, s, keys, Len(keys)) /\ NotifyEach(s, keys) = f[Len(keys)]
<1>1. \E f : IsRun(f, s, keys, Len(keys))
  BY RunExists
<1>2. PICK f : f = CHOOSE g : IsRun(g, s, keys, Len(keys))
  OBVIOUS
<1>3. IsRun(f, s, keys, Len(keys))
  BY <1>1, <1>2
<1>4. NotifyEach(s, keys) = f[Len(keys)]
  BY <1>2 DEF NotifyEach, IsRun
<1> QED BY <1>3, <1>4

-----------------------------------------------------------------------------
(* The queue.                                                              *)

LEMMA ChannelsTyped ==
  /\ Len(Channels) \in Nat \ {0}
  /\ \A i \in 1..Len(Channels) : Channels[i] \in Range(Channels)
  /\ \A i, j \in 1..Len(Channels) : Channels[i] = Channels[j] => i = j
<1>1. Channels \in Seq(Range(Channels)) /\ Channels # <<>>
  BY AlertsAssumption
<1>2. Len(Channels) \in Nat \ {0} /\ DOMAIN Channels = 1..Len(Channels)
  BY <1>1, SMTT(30)
<1>3. \A i \in 1..Len(Channels) : Channels[i] \in Range(Channels)
  BY <1>2 DEF Range
<1> QED BY <1>2, <1>3, AlertsAssumption DEF IsInjective

\* One message more, in one place or another.
OneMore(a, b) ==
  \/ b = [a EXCEPT !.sent = a.sent + 1]
  \/ b = [a EXCEPT !.failed = a.failed + 1]
  \/ b = [a EXCEPT !.dropped = a.dropped + 1]

LEMMA Sums ==
  ASSUME NEW a \in Counters, NEW l \in Nat, NEW o \in Nat
  PROVE  /\ Tally(a, l + 1, o) = Tally(a, l, o) + 1
         /\ Tally(a, l, o + 1) = Tally(a, l, o) + 1
         /\ \A b : OneMore(a, b) => b \in Counters /\ Tally(b, l, o) = Tally(a, l, o) + 1
<1>1. PICK s, f, d : s = a.sent /\ f = a.failed /\ d = a.dropped
  OBVIOUS
<1>2. s \in Nat /\ f \in Nat /\ d \in Nat
  BY <1>1 DEF Counters
<1>3. /\ s + f + d + (l + 1) + o = s + f + d + l + o + 1
      /\ s + f + d + l + (o + 1) = s + f + d + l + o + 1
      /\ (s + 1) + f + d + l + o = s + f + d + l + o + 1
      /\ s + (f + 1) + d + l + o = s + f + d + l + o + 1
      /\ s + f + (d + 1) + l + o = s + f + d + l + o + 1
      /\ s + 1 \in Nat /\ f + 1 \in Nat /\ d + 1 \in Nat
  BY <1>2, SMTT(30)
<1>4. Tally(a, l + 1, o) = Tally(a, l, o) + 1 /\ Tally(a, l, o + 1) = Tally(a, l, o) + 1
  BY <1>1, <1>3 DEF Tally
<1>5. ASSUME NEW b, b = [a EXCEPT !.sent = s + 1]
      PROVE  b \in Counters /\ Tally(b, l, o) = Tally(a, l, o) + 1
  <2>1. b \in Counters /\ b.sent = s + 1 /\ b.failed = f /\ b.dropped = d
    BY <1>1, <1>3, <1>5 DEF Counters
  <2> QED BY <1>1, <1>3, <2>1 DEF Tally
<1>6. ASSUME NEW b, b = [a EXCEPT !.failed = f + 1]
      PROVE  b \in Counters /\ Tally(b, l, o) = Tally(a, l, o) + 1
  <2>1. b \in Counters /\ b.sent = s /\ b.failed = f + 1 /\ b.dropped = d
    BY <1>1, <1>3, <1>6 DEF Counters
  <2> QED BY <1>1, <1>3, <2>1 DEF Tally
<1>7. ASSUME NEW b, b = [a EXCEPT !.dropped = d + 1]
      PROVE  b \in Counters /\ Tally(b, l, o) = Tally(a, l, o) + 1
  <2>1. b \in Counters /\ b.sent = s /\ b.failed = f /\ b.dropped = d + 1
    BY <1>1, <1>3, <1>7 DEF Counters
  <2> QED BY <1>1, <1>3, <2>1 DEF Tally
<1> QED BY <1>1, <1>4, <1>5, <1>6, <1>7 DEF OneMore

\* submit puts the message on the queue, or drops it for every channel.
LEMMA SubmitKeeps ==
  ASSUME NEW q \in QueueState, NEW j, Balanced(q, j)
  PROVE  Submit(q) \in QueueState /\ Balanced(Submit(q), j)
<1>1. /\ q.queue \in Seq(Nat \ {0}) /\ q.alerts \in [Range(Channels) -> Counters] /\ q.taken \in Nat
  BY DEF QueueState
<1>2. q.taken + 1 \in Nat /\ q.taken + 1 \in Nat \ {0} /\ Len(q.queue) \in Nat
  BY <1>1, SMTT(30)
<1>3. \A i : ToDeliver(j, i) \in Nat
  BY SMTT(30) DEF ToDeliver
<1>4. CASE HasRoom(q.queue)
  <2>1. PICK longer : longer = Append(q.queue, q.taken + 1)
    OBVIOUS
  <2>2. longer \in Seq(Nat \ {0}) /\ Len(longer) = Len(q.queue) + 1
    BY <1>1, <1>2, <2>1, SMTT(30)
  <2>3. PICK new : new = [q EXCEPT !.queue = longer, !.taken = q.taken + 1]
    OBVIOUS
  <2>4. Submit(q) = new
    BY <1>4, <2>1, <2>3 DEF Submit
  <2>5. /\ new \in QueueState
        /\ new.queue = longer /\ new.alerts = q.alerts /\ new.taken = q.taken + 1
    BY <1>2, <2>2, <2>3 DEF QueueState
  <2>6. ASSUME NEW i \in 1..Len(Channels)
        PROVE  new.taken = Tally(new.alerts[Channels[i]], Len(new.queue), ToDeliver(j, i))
    <3>1. PICK a : a = q.alerts[Channels[i]]
      OBVIOUS
    <3>2. a \in Counters
      BY <1>1, <3>1, ChannelsTyped
    <3>3. q.taken = Tally(a, Len(q.queue), ToDeliver(j, i))
      BY <3>1 DEF Balanced
    <3>4. PICK l \in Nat, o \in Nat : l = Len(q.queue) /\ o = ToDeliver(j, i)
      BY <1>2, <1>3
    <3>5. Tally(a, l + 1, o) = Tally(a, l, o) + 1
      BY <3>2, Sums
    <3>6. q.taken = Tally(a, l, o)
      BY <3>3, <3>4
    <3> QED BY <2>2, <2>5, <3>1, <3>4, <3>5, <3>6
  <2> QED BY <2>4, <2>5, <2>6 DEF Balanced
<1>5. CASE ~HasRoom(q.queue)
  <2>1. PICK dropped : dropped = CountDropped(q.alerts)
    OBVIOUS
  <2>2. \A c \in Range(Channels) :
          /\ dropped[c] = [q.alerts[c] EXCEPT !.dropped = q.alerts[c].dropped + 1]
          /\ q.alerts[c] \in Counters
    BY <1>1, <2>1 DEF CountDropped
  <2>3. dropped \in [Range(Channels) -> Counters]
    <3>1. dropped = [c \in Range(Channels) |-> dropped[c]]
      BY <1>1, <2>1 DEF CountDropped
    <3>2. \A c \in Range(Channels) : dropped[c] \in Counters
      BY <1>2, <2>2, Sums DEF OneMore
    <3> QED BY <3>1, <3>2
  <2>4. PICK new : new = [q EXCEPT !.alerts = dropped, !.taken = q.taken + 1]
    OBVIOUS
  <2>5. Submit(q) = new
    BY <1>5, <2>1, <2>4 DEF Submit
  <2>6. /\ new \in QueueState
        /\ new.queue = q.queue /\ new.alerts = dropped /\ new.taken = q.taken + 1
    BY <1>2, <2>3, <2>4 DEF QueueState
  <2>7. ASSUME NEW i \in 1..Len(Channels)
        PROVE  new.taken = Tally(new.alerts[Channels[i]], Len(new.queue), ToDeliver(j, i))
    <3>1. PICK a, b : a = q.alerts[Channels[i]] /\ b = dropped[Channels[i]]
      OBVIOUS
    <3>2. a \in Counters /\ b = [a EXCEPT !.dropped = a.dropped + 1]
      BY <2>2, <3>1, ChannelsTyped
    <3>3. q.taken = Tally(a, Len(q.queue), ToDeliver(j, i))
      BY <3>1 DEF Balanced
    <3>4. PICK l \in Nat, o \in Nat : l = Len(q.queue) /\ o = ToDeliver(j, i)
      BY <1>2, <1>3
    <3>5. Tally(b, l, o) = Tally(a, l, o) + 1
      <4>1. OneMore(a, b)
        BY <3>2 DEF OneMore
      <4> QED BY <3>2, <4>1, Sums, SMTT(30)
    <3>6. q.taken = Tally(a, l, o)
      BY <3>3, <3>4
    <3> QED BY <2>6, <3>1, <3>4, <3>5, <3>6
  <2> QED BY <2>5, <2>6, <2>7 DEF Balanced
<1> QED BY <1>4, <1>5

-----------------------------------------------------------------------------
(* The cooldown table.                                                     *)

\* Key k has had a message within the cooldown, or right now.
Recent(r, k) == r[k] # <<>> /\ (Latest(r[k]) = monotonic \/ monotonic - Latest(r[k]) < Cooldown)

\* A message about key is due; and it is sent now.
Due(r, key) == r[key] # <<>> => monotonic - Latest(r[key]) >= Cooldown
SentNow(r, key, r2) == r2 = [r EXCEPT ![key] = Append(r[key], monotonic)]

History == [CanaryKey -> Seq(Nat)]

Lengthened(r, key, r2) ==
  /\ r2 \in History
  /\ r2[key] # <<>> /\ Latest(r2[key]) = monotonic /\ Spaced(r2[key])
  /\ \A k \in CanaryKey : k # key => r2[k] = r[k]

LEMMA TriedNow ==
  ASSUME monotonic \in Nat, NEW r \in History, NEW key \in CanaryKey,
         Due(r, key), Spaced(r[key]), NEW r2, SentNow(r, key, r2)
  PROVE  Lengthened(r, key, r2)
<1> USE DEF History
<1>1. PICK old, new : old = r[key] /\ new = Append(old, monotonic)
  OBVIOUS
<1>2. old \in Seq(Nat) /\ new \in Seq(Nat)
  BY <1>1, SMTT(30)
<1>3. /\ Len(old) \in Nat /\ Len(new) = Len(old) + 1 /\ new # <<>> /\ new[Len(new)] = monotonic
      /\ \A i \in 1..Len(old) : new[i] = old[i]
  BY <1>1, <1>2, SMTT(30)
<1>4. r2 \in [CanaryKey -> Seq(Nat)] /\ r2[key] = new /\ \A k \in CanaryKey : k # key => r2[k] = r[k]
  BY <1>1, <1>2 DEF SentNow
<1>5. Spaced(new)
  <2>1. SUFFICES ASSUME NEW i \in 1..(Len(new) - 1)
                 PROVE  new[i + 1] - new[i] >= Cooldown
    BY DEF Spaced
  <2>2. CASE i = Len(old)
    <3>1. old # <<>> /\ new[i] = old[Len(old)] /\ new[i + 1] = monotonic
      BY <1>2, <1>3, <2>1, <2>2, SMTT(30)
    <3>2. monotonic - old[Len(old)] >= Cooldown
      BY <1>1, <3>1 DEF Due, Latest
    <3> QED BY <3>1, <3>2
  <2>3. CASE i # Len(old)
    <3>1. i \in 1..(Len(old) - 1) /\ i \in 1..Len(old) /\ i + 1 \in 1..Len(old)
      BY <1>3, <2>1, <2>3, SMTT(30)
    <3>2. old[i + 1] - old[i] >= Cooldown
      BY <1>1, <3>1 DEF Spaced
    <3> QED BY <1>3, <3>1, <3>2
  <2> QED BY <2>2, <2>3
<1> QED BY <1>3, <1>4, <1>5 DEF Latest, Lengthened

LEMMA LatestIsNat ==
  ASSUME NEW times \in Seq(Nat), times # <<>>
  PROVE  Latest(times) \in Nat
BY SMTT(30) DEF Latest

\* Dropping the entries whose cooldown is over loses nothing.
LEMMA FreshKeeps ==
  ASSUME monotonic \in Nat, NEW t, NEW r, TableInv(t, r)
  PROVE  TableInv(Fresh(t), r)
<1>1. PICK f : f = Fresh(t)
  OBVIOUS
<1>2. /\ \A k : k \in DOMAIN f <=> k \in DOMAIN t /\ monotonic - t[k] < Cooldown
      /\ \A k \in DOMAIN f : f[k] = t[k]
  BY <1>1 DEF Fresh
<1>3. ASSUME NEW k \in CanaryKey
      PROVE  /\ k \in DOMAIN f => r[k] # <<>> /\ f[k] = Latest(r[k])
             /\ r[k] # <<>> => /\ Latest(r[k]) <= monotonic
                               /\ k \in DOMAIN f \/ monotonic - Latest(r[k]) >= Cooldown
             /\ Spaced(r[k])
  <2>1. /\ r[k] \in Seq(Nat)
        /\ k \in DOMAIN t => r[k] # <<>> /\ t[k] = Latest(r[k])
        /\ r[k] # <<>> => /\ Latest(r[k]) <= monotonic
                          /\ k \in DOMAIN t \/ monotonic - Latest(r[k]) >= Cooldown
        /\ Spaced(r[k])
    BY DEF TableInv
  <2>2. k \in DOMAIN f => r[k] # <<>> /\ f[k] = Latest(r[k])
    BY <1>2, <2>1
  <2>3. ASSUME r[k] # <<>>, k \notin DOMAIN f
        PROVE  monotonic - Latest(r[k]) >= Cooldown
    <3>1. PICK l \in Nat : l = Latest(r[k])
      BY <2>1, <2>3, LatestIsNat
    <3>2. CASE k \in DOMAIN t
      <4>1. ~(monotonic - l < Cooldown)
        BY <1>2, <2>1, <2>3, <3>1, <3>2
      <4>2. Cooldown \in Nat
        BY AlertsAssumption
      <4>3. monotonic - l >= Cooldown
        BY <4>1, <4>2, SMTT(30)
      <4> QED BY <3>1, <4>3
    <3> QED BY <2>1, <2>3, <3>2
  <2> QED BY <2>1, <2>2, <2>3
<1>4. DOMAIN f \subseteq CanaryKey /\ r \in [CanaryKey -> Seq(Nat)]
  BY <1>2 DEF TableInv
<1> QED BY <1>1, <1>3, <1>4 DEF TableInv

LEMMA StampKeeps ==
  ASSUME monotonic \in Nat, NEW t, NEW r, TableInv(t, r), NEW key \in CanaryKey,
         Due(r, key), NEW r2, SentNow(r, key, r2)
  PROVE  /\ TableInv(Stamp(t, key), r2)
         /\ Recent(r2, key)
         /\ \A k \in CanaryKey : Recent(r, k) => Recent(r2, k)
<1>1. PICK f : f = Stamp(t, key)
  OBVIOUS
<1>2. DOMAIN f = DOMAIN t \cup {key} /\ f[key] = monotonic /\ \A k \in DOMAIN t : k # key => f[k] = t[k]
  BY <1>1 DEF Stamp
<1>3. r \in [CanaryKey -> Seq(Nat)] /\ Spaced(r[key]) /\ DOMAIN t \subseteq CanaryKey
  BY DEF TableInv
<1>4. /\ r2 \in [CanaryKey -> Seq(Nat)]
      /\ r2[key] # <<>> /\ Latest(r2[key]) = monotonic /\ Spaced(r2[key])
      /\ \A k \in CanaryKey : k # key => r2[k] = r[k]
  <2>1. r \in History
    BY <1>3 DEF History
  <2>2. Lengthened(r, key, r2)
    BY <1>3, <2>1, TriedNow
  <2> QED BY <2>2 DEF Lengthened, History
<1>5. ASSUME NEW k \in CanaryKey
      PROVE  /\ k \in DOMAIN f => r2[k] # <<>> /\ f[k] = Latest(r2[k])
             /\ r2[k] # <<>> => /\ Latest(r2[k]) <= monotonic
                                /\ k \in DOMAIN f \/ monotonic - Latest(r2[k]) >= Cooldown
             /\ Spaced(r2[k])
  <2>1. CASE k = key
    <3>1. monotonic <= monotonic
      BY SMTT(30)
    <3> QED BY <1>2, <1>4, <2>1, <3>1
  <2>2. CASE k # key
    <3>1. /\ k \in DOMAIN t => r[k] # <<>> /\ t[k] = Latest(r[k])
          /\ r[k] # <<>> => /\ Latest(r[k]) <= monotonic
                            /\ k \in DOMAIN t \/ monotonic - Latest(r[k]) >= Cooldown
          /\ Spaced(r[k])
      BY DEF TableInv
    <3>2. r2[k] = r[k] /\ (k \in DOMAIN f <=> k \in DOMAIN t) /\ (k \in DOMAIN t => f[k] = t[k])
      BY <1>2, <1>4, <2>2
    <3> QED BY <3>1, <3>2
  <2> QED BY <2>1, <2>2
<1>6. TableInv(f, r2)
  BY <1>2, <1>3, <1>4, <1>5 DEF TableInv
<1>7. Recent(r2, key)
  BY <1>4 DEF Recent
<1>8. ASSUME NEW k \in CanaryKey, Recent(r, k)
      PROVE  Recent(r2, k)
  BY <1>4, <1>7, <1>8 DEF Recent
<1> QED BY <1>1, <1>6, <1>7, <1>8

-----------------------------------------------------------------------------
(* The loop.                                                               *)

Stage(s) == s.queues \in QueueState /\ Balanced(s.queues, job) /\ TableInv(s.table, s.tried)

LEMMA NotifyKeeps ==
  ASSUME monotonic \in Nat, NEW s, Stage(s), NEW key \in CanaryKey,
         NEW s2, s2 = NotifyCanary(s, key)
  PROVE  Stage(s2) /\ Recent(s2.tried, key) /\ \A k \in CanaryKey : Recent(s.tried, k) => Recent(s2.tried, k)
<1> DEFINE hot == key \in DOMAIN s.table /\ monotonic - s.table[key] < Cooldown
           pruned == IF Cardinality(DOMAIN s.table) >= TableLimit THEN Fresh(s.table) ELSE s.table
<1>1. PICK t, r : t = s.table /\ r = s.tried
  OBVIOUS
<1>2. TableInv(t, r)
  BY <1>1 DEF Stage
<1>3. /\ r \in [CanaryKey -> Seq(Nat)]
      /\ key \in DOMAIN t => r[key] # <<>> /\ t[key] = Latest(r[key])
      /\ r[key] # <<>> => key \in DOMAIN t \/ monotonic - Latest(r[key]) >= Cooldown
  BY <1>2 DEF TableInv
<1>4. CASE hot
  <2>1. s2 = s
    BY <1>4 DEF NotifyCanary, Suppressed
  <2>2. Recent(s.tried, key)
    BY <1>1, <1>3, <1>4 DEF Recent
  <2> QED BY <2>1, <2>2
<1>5. CASE ~hot
  <2>1. PICK p, q, r2 : /\ p = pruned /\ q = Submit(s.queues)
                        /\ r2 = [r EXCEPT ![key] = Append(r[key], monotonic)]
    OBVIOUS
  <2> SentNow(r, key, r2)
    BY <2>1 DEF SentNow
  <2>2. s2 = [table |-> Stamp(p, key), queues |-> q, tried |-> r2]
    BY <1>1, <1>5, <2>1 DEF NotifyCanary
  <2>3. TableInv(p, r)
    BY <1>1, <1>2, <2>1, FreshKeeps
  <2>4. ASSUME r[key] # <<>>
        PROVE  monotonic - Latest(r[key]) >= Cooldown
    <3>1. PICK l \in Nat : l = Latest(r[key])
      BY <1>3, <2>4, LatestIsNat
    <3>2. CASE key \in DOMAIN t
      <4>1. ~(monotonic - l < Cooldown)
        BY <1>1, <1>3, <1>5, <3>1, <3>2
      <4>2. Cooldown \in Nat
        BY AlertsAssumption
      <4>3. monotonic - l >= Cooldown
        BY <4>1, <4>2, SMTT(30)
      <4> QED BY <3>1, <4>3
    <3> QED BY <1>3, <2>4, <3>2
  <2>5. /\ TableInv(Stamp(p, key), r2) /\ Recent(r2, key)
        /\ \A k \in CanaryKey : Recent(r, k) => Recent(r2, k)
    <3>1. Due(r, key)
      BY <2>4 DEF Due
    <3> QED BY <2>3, <3>1, StampKeeps
  <2>6. q \in QueueState /\ Balanced(q, job)
    BY <2>1, SubmitKeeps DEF Stage
  <2>7. s2.table = Stamp(p, key) /\ s2.queues = q /\ s2.tried = r2
    BY <2>2, SMTT(30)
  <2> QED BY <1>1, <2>5, <2>6, <2>7 DEF Stage
<1> QED BY <1>4, <1>5

\* After the loop, each contact has had its message.
LEMMA LoopKeeps ==
  ASSUME monotonic \in Nat, NEW s, Stage(s), NEW keys \in Seq(CanaryKey)
  PROVE  /\ Stage(NotifyEach(s, keys))
         /\ \A k \in Range(keys) : Recent(NotifyEach(s, keys).tried, k)
<1>2. /\ Len(keys) \in Nat /\ DOMAIN keys = 1..Len(keys)
      /\ \A i \in 1..Len(keys) : keys[i] \in CanaryKey
  BY SMTT(30)
<1>1. PICK f : IsRun(f, s, keys, Len(keys)) /\ NotifyEach(s, keys) = f[Len(keys)]
  BY <1>2, LoopRuns
<1> DEFINE Good(n) == Stage(f[n]) /\ \A i \in 1..n : Recent(f[n].tried, keys[i])
           S == {n \in Nat : n <= Len(keys) => Good(n)}
<1>3. 0 \in S
  <2>1. f[0] = s /\ 0 \in Nat /\ \A i : i \notin 1..0
    BY <1>1, <1>2, SMTT(30) DEF IsRun
  <2> QED BY <2>1
<1>4. ASSUME NEW n \in Nat, n \in S
      PROVE  n + 1 \in S
  <2>1. SUFFICES ASSUME n + 1 <= Len(keys)
                 PROVE  Good(n + 1)
    BY <1>4, SMTT(30)
  <2>2. /\ n <= Len(keys) /\ n + 1 \in 1..Len(keys)
        /\ \A i \in 1..(n + 1) : i = n + 1 \/ i \in 1..n
        /\ \A i \in 1..n : i \in 1..Len(keys)
    BY <1>2, <1>4, <2>1, SMTT(30)
  <2>3. Good(n)
    BY <1>4, <2>2, SMTT(30)
  <2>4. f[n + 1] = NotifyCanary(f[n], keys[n + 1])
    BY <1>1, <1>2, <1>4, <2>2, SMTT(30) DEF IsRun
  <2>5. PICK s1, s2, k1 : s1 = f[n] /\ s2 = f[n + 1] /\ k1 = keys[n + 1]
    OBVIOUS
  <2>6. k1 \in CanaryKey /\ Stage(s1) /\ s2 = NotifyCanary(s1, k1)
    BY <1>2, <2>2, <2>3, <2>4, <2>5
  <2>7. Stage(s2) /\ Recent(s2.tried, k1) /\ \A k \in CanaryKey : Recent(s1.tried, k) => Recent(s2.tried, k)
    BY <2>6, NotifyKeeps
  <2> QED BY <1>2, <2>2, <2>3, <2>5, <2>7
<1>5. Len(keys) \in S
  <2> HIDE DEF S
  <2> QED BY <1>2, <1>3, <1>4, SetInduction
<1>6. Good(Len(keys))
  <2>1. Len(keys) <= Len(keys)
    BY <1>2, SMTT(30)
  <2> QED BY <1>5, <2>1
<1> QED BY <1>1, <1>2, <1>6 DEF Range

-----------------------------------------------------------------------------
(* Every action keeps the invariant.                                       *)

\* What an action leaves alone, or has shown, of the queues and of the table.
LEMMA QueuesSet ==
  ASSUME NEW q \in QueueState, SetQueues(q)
  PROVE  Queues' = q
<1>1. PICK a, b, c : a = q.queue /\ b = q.alerts /\ c = q.taken
  OBVIOUS
<1>2. q = [queue |-> a, alerts |-> b, taken |-> c]
  BY <1>1 DEF QueueState
<1>3. queue' = a /\ alerts' = b /\ alertsTaken' = c
  BY <1>1 DEF SetQueues
<1> QED BY <1>2, <1>3 DEF Queues

LEMMA QueuesSame ==
  ASSUME UNCHANGED queueVars
  PROVE  Queues' = Queues
BY DEF queueVars, Queues

LEMMA TableSame ==
  ASSUME NEW t, NEW r, TableInv(t, r), monotonic' = monotonic
  PROVE  TableInv(t, r)'
BY DEF TableInv

\* A second later a cooldown that was over still is.
LEMMA TableLater ==
  ASSUME monotonic \in Nat, NEW t, NEW r, TableInv(t, r), monotonic' = monotonic + 1
  PROVE  TableInv(t, r)'
<1>1. DOMAIN t \subseteq CanaryKey /\ r \in [CanaryKey -> Seq(Nat)]
  BY DEF TableInv
<1>2. ASSUME NEW k \in CanaryKey
      PROVE  /\ k \in DOMAIN t => r[k] # <<>> /\ t[k] = Latest(r[k])
             /\ r[k] # <<>> => /\ Latest(r[k]) <= monotonic'
                               /\ k \in DOMAIN t \/ monotonic' - Latest(r[k]) >= Cooldown
             /\ Spaced(r[k])
  <2>1. /\ r[k] \in Seq(Nat)
        /\ k \in DOMAIN t => r[k] # <<>> /\ t[k] = Latest(r[k])
        /\ r[k] # <<>> => /\ Latest(r[k]) <= monotonic
                          /\ k \in DOMAIN t \/ monotonic - Latest(r[k]) >= Cooldown
        /\ Spaced(r[k])
    BY DEF TableInv
  <2>2. ASSUME r[k] # <<>>
        PROVE  /\ Latest(r[k]) <= monotonic'
               /\ k \in DOMAIN t \/ monotonic' - Latest(r[k]) >= Cooldown
    <3>1. PICK l \in Nat : l = Latest(r[k])
      BY <2>1, <2>2, LatestIsNat
    <3>2. Cooldown \in Nat
      BY AlertsAssumption
    <3>3. PICK m \in Nat : m = monotonic
      OBVIOUS
    <3>4. l <= m => l <= m + 1
      BY SMTT(30)
    <3>5. m - l >= Cooldown => (m + 1) - l >= Cooldown
      BY <3>2, SMTT(30)
    <3> QED BY <2>1, <2>2, <3>1, <3>3, <3>4, <3>5
  <2> QED BY <2>1, <2>2
<1> QED BY <1>1, <1>2 DEF TableInv

LEMMA AlertsInvInit == AlertsInit => AlertsInv
<1>1. SUFFICES ASSUME AlertsInit
               PROVE  AlertsInv
  OBVIOUS
<1>2. monotonic \in Nat
  BY <1>1, SMTT(30) DEF AlertsInit
<1>3. Queues \in QueueState
  <2>1. 0 \in Nat /\ \A S : <<>> \in Seq(S)
    BY SMTT(30)
  <2>2. Counter \in Counters
    BY <2>1 DEF Counter, Counters
  <2> QED BY <1>1, <2>1, <2>2 DEF AlertsInit, Queues, QueueState
<1>4. Balanced(Queues, job)
  <2>1. SUFFICES ASSUME NEW i \in 1..Len(Channels)
                 PROVE  Queues.taken = Tally(Queues.alerts[Channels[i]], Len(Queues.queue), ToDeliver(job, i))
    BY DEF Balanced
  <2>2. Queues.taken = 0 /\ Queues.queue = <<>> /\ Queues.alerts[Channels[i]] = Counter
    BY <1>1, ChannelsTyped DEF AlertsInit, Queues
  <2>3. ToDeliver(job, i) = 0
    BY <1>1 DEF AlertsInit, ToDeliver
  <2>4. Counter.sent = 0 /\ Counter.failed = 0 /\ Counter.dropped = 0
    BY DEF Counter
  <2>5. Len(<<>>) = 0 /\ 0 + 0 + 0 + 0 + 0 = 0
    BY SMTT(30)
  <2> QED BY <2>2, <2>3, <2>4, <2>5 DEF Tally
<1>5. TableInv(canarySent, tried)
  <2>1. canarySent = <<>> /\ tried = [k \in CanaryKey |-> <<>>]
    BY <1>1 DEF AlertsInit
  <2>2. DOMAIN canarySent = {} /\ \A S : <<>> \in Seq(S)
    BY <2>1, SMTT(30)
  <2>3. Spaced(<<>>)
    BY SMTT(30) DEF Spaced
  <2> QED BY <2>1, <2>2, <2>3 DEF TableInv
<1>6. DOMAIN contacts = AlertBatch /\ job = Idle /\ active = NotYet
  BY <1>1 DEF AlertsInit
<1> QED BY <1>2, <1>3, <1>4, <1>5, <1>6 DEF AlertsInv, ActiveInv

\* A batch is counted.
LEMMA CountKeeps ==
  ASSUME AlertsInv, NEW b \in AlertBatch, CountCanaryContacts(b),
         UNCHANGED <<job, monotonic>>
  PROVE  /\ Queues' \in QueueState /\ Balanced(Queues, job)'
         /\ TableInv(canarySent, tried)'
         /\ DOMAIN contacts' = AlertBatch
         /\ \A c \in AlertBatch : contacts'[c] # contacts[c] =>
              \A k \in Range(Contacts[c]) : Recent(tried', k)
<1>1. PICK s0 : s0 = [table |-> canarySent, queues |-> Queues, tried |-> tried]
  OBVIOUS
<1>2. s0.table = canarySent /\ s0.queues = Queues /\ s0.tried = tried
  BY <1>1, SMTT(30)
<1>3. Stage(s0) /\ monotonic \in Nat /\ Contacts[b] \in Seq(CanaryKey)
  BY <1>2, AlertsAssumption DEF Stage, AlertsInv
<1>4. PICK s : s = NotifyEach(s0, Contacts[b])
  OBVIOUS
<1>5. Stage(s) /\ \A k \in Range(Contacts[b]) : Recent(s.tried, k)
  BY <1>3, <1>4, LoopKeeps
<1>6. /\ canarySent' = s.table /\ tried' = s.tried /\ SetQueues(s.queues)
      /\ contacts' = [contacts EXCEPT ![b] = contacts[b] + 1]
  BY <1>1, <1>4 DEF CountCanaryContacts
<1>7. PICK q, t, r : q = s.queues /\ t = s.table /\ r = s.tried
  OBVIOUS
<1>8. q \in QueueState /\ Balanced(q, job) /\ TableInv(t, r)
  BY <1>5, <1>7 DEF Stage
<1>9. Queues' = q
  BY <1>6, <1>7, <1>8, QueuesSet
<1>10. TableInv(t, r)'
  BY <1>8, TableSame
<1>11. Balanced(Queues, job)' /\ TableInv(canarySent, tried)'
  BY <1>6, <1>7, <1>8, <1>9, <1>10
<1>12. DOMAIN contacts' = AlertBatch /\ \A c \in AlertBatch : contacts'[c] # contacts[c] => c = b
  BY <1>6 DEF AlertsInv
<1> QED BY <1>5, <1>6, <1>8, <1>9, <1>11, <1>12

\* What a job has still to deliver.
LEMMA JobDelivers ==
  /\ \A j \in Delivering : j # Idle
  /\ \A i : ToDeliver(Idle, i) = 0
  /\ \A j \in Delivering : \A i : ToDeliver(j, i) = IF j.channel <= i THEN 1 ELSE 0
<1>1. ASSUME NEW j \in Delivering
      PROVE  j # Idle
  <2>1. j.message # 0
    BY DEF Delivering
  <2>2. Idle.message = 0
    BY DEF Idle
  <2> QED BY <2>1, <2>2
<1> QED BY <1>1 DEF ToDeliver

\* run takes a message off the queue: every channel has it to deliver.
LEMMA TakeKeeps ==
  ASSUME AlertsInv, Take
  PROVE  job' \in Delivering /\ Queues' \in QueueState /\ Balanced(Queues, job)'
<1>1. PICK q : q = Queues
  OBVIOUS
<1>2. /\ q \in QueueState /\ Balanced(q, Idle)
      /\ q.queue = queue /\ q.alerts = alerts /\ q.taken = alertsTaken
  BY <1>1 DEF AlertsInv, Take, Queues
<1>3. /\ queue \in Seq(Nat \ {0}) /\ alerts \in [Range(Channels) -> Counters] /\ alertsTaken \in Nat
  BY <1>2 DEF QueueState
<1>4. PICK h, rest : h = Head(queue) /\ rest = Tail(queue)
  OBVIOUS
<1>5. h \in Nat \ {0} /\ rest \in Seq(Nat \ {0}) /\ Len(rest) \in Nat /\ Len(queue) = Len(rest) + 1
  BY <1>3, <1>4, SMTT(30) DEF Take
<1>6. job' = [message |-> h, channel |-> 1, attempt |-> 1, step |-> "post"]
  BY <1>4 DEF Take
<1>7. job' \in Delivering /\ job'.channel = 1
  <2>1. 1 \in Nat /\ 1 \in 1..Len(Channels)
    BY ChannelsTyped, SMTT(30)
  <2>2. "post" \in {"post", "sleep"}
    OBVIOUS
  <2> QED BY <1>5, <1>6, <2>1, <2>2 DEF Delivering
<1>8. PICK q2 : q2 = Queues'
  OBVIOUS
<1>9. /\ q2 \in QueueState
      /\ q2.queue = rest /\ q2.alerts = alerts /\ q2.taken = alertsTaken
  BY <1>3, <1>4, <1>5, <1>8 DEF Queues, QueueState, Take
<1>10. ASSUME NEW i \in 1..Len(Channels)
       PROVE  q2.taken = Tally(q2.alerts[Channels[i]], Len(q2.queue), ToDeliver(job', i))
  <2>1. PICK a, l : a = alerts[Channels[i]] /\ l = Len(rest)
    OBVIOUS
  <2>2. a \in Counters /\ l \in Nat
    BY <1>3, <1>5, <2>1, ChannelsTyped
  <2>3. ToDeliver(job', i) = 1 /\ ToDeliver(Idle, i) = 0
    <3>1. 1 <= i
      BY ChannelsTyped, SMTT(30)
    <3> QED BY <1>7, <3>1, JobDelivers
  <2>4. alertsTaken = Tally(a, l + 1, 0)
    BY <1>2, <1>5, <2>1, <2>3 DEF Balanced
  <2>5. 0 \in Nat /\ 0 + 1 = 1
    BY SMTT(30)
  <2>6. Tally(a, l + 1, 0) = Tally(a, l, 0) + 1 /\ Tally(a, l, 0 + 1) = Tally(a, l, 0) + 1
    BY <2>2, <2>5, Sums
  <2>7. alertsTaken = Tally(a, l, 1)
    BY <2>4, <2>5, <2>6
  <2> QED BY <1>9, <2>1, <2>3, <2>7
<1> QED BY <1>7, <1>8, <1>9, <1>10 DEF Balanced

\* A channel is done with the message: it counts it, and the others have theirs.
LEMMA SettleKeeps ==
  ASSUME AlertsInv, job # Idle, NEW result \in {"sent", "failed"}, Settle(result),
         UNCHANGED <<queue, alertsTaken>>
  PROVE  /\ job' = Idle \/ job' \in Delivering
         /\ Queues' \in QueueState /\ Balanced(Queues, job)'
<1>1. PICK j : j = job
  OBVIOUS
<1>2. PICK q : q = Queues
  OBVIOUS
<1>3. /\ q \in QueueState /\ Balanced(q, j) /\ j \in Delivering
      /\ q.queue = queue /\ q.alerts = alerts /\ q.taken = alertsTaken
  BY <1>1, <1>2 DEF AlertsInv, Queues
<1>4. /\ queue \in Seq(Nat \ {0}) /\ alerts \in [Range(Channels) -> Counters] /\ alertsTaken \in Nat
  BY <1>3 DEF QueueState
<1>5. j.channel \in 1..Len(Channels)
  BY <1>3 DEF Delivering
<1>6. PICK ch \in 1..Len(Channels) : ch = j.channel
  BY <1>5
<1>7. PICK c, a, b : /\ c = Channels[ch] /\ a = alerts[c]
                     /\ b = [a EXCEPT ![result] = a[result] + 1]
  OBVIOUS
<1>8. c \in Range(Channels) /\ a \in Counters
  BY <1>4, <1>7, ChannelsTyped
<1>9. alerts' = [alerts EXCEPT ![c] = b]
  BY <1>1, <1>6, <1>7 DEF Settle
<1>10. b = [a EXCEPT !.sent = a.sent + 1] \/ b = [a EXCEPT !.failed = a.failed + 1]
  BY <1>7
<1>11. b \in Counters /\ \A l, o \in Nat : Tally(b, l, o) = Tally(a, l, o) + 1
  <2>1. 0 \in Nat
    BY SMTT(30)
  <2>2. ASSUME NEW l \in Nat, NEW o \in Nat
        PROVE  b \in Counters /\ Tally(b, l, o) = Tally(a, l, o) + 1
    <3>1. \A x : OneMore(a, x) => x \in Counters /\ Tally(x, l, o) = Tally(a, l, o) + 1
      BY <1>8, Sums
    <3>2. OneMore(a, b)
      BY <1>10 DEF OneMore
    <3> QED BY <3>1, <3>2
  <2> QED BY <2>1, <2>2
<1>12. alerts' \in [Range(Channels) -> Counters] /\ alerts'[c] = b
       /\ \A x \in Range(Channels) : x # c => alerts'[x] = alerts[x]
  BY <1>4, <1>8, <1>9, <1>11
<1>13. PICK q2 : q2 = Queues'
  OBVIOUS
<1>14. /\ q2 \in QueueState
       /\ q2.queue = queue /\ q2.alerts = alerts' /\ q2.taken = alertsTaken
  BY <1>4, <1>12, <1>13 DEF Queues, QueueState
<1>15. /\ ch = Len(Channels) => job' = Idle
       /\ ch # Len(Channels) => job' \in Delivering /\ job'.channel = ch + 1
  <2>1. ASSUME ch # Len(Channels)
        PROVE  job' \in Delivering /\ job'.channel = ch + 1
    <3>1. ch + 1 \in 1..Len(Channels) /\ 1 \in Nat
      BY <2>1, ChannelsTyped, SMTT(30)
    <3>2. "post" \in {"post", "sleep"}
      OBVIOUS
    <3>3. job' = [j EXCEPT !.channel = ch + 1, !.attempt = 1, !.step = "post"]
      BY <1>1, <1>6, <2>1 DEF Settle
    <3> QED BY <1>3, <3>1, <3>2, <3>3 DEF Delivering
  <2>2. ch = Len(Channels) => job' = Idle
    BY <1>1, <1>6 DEF Settle
  <2> QED BY <2>1, <2>2
<1>16. ASSUME NEW i \in 1..Len(Channels)
       PROVE  q2.taken = Tally(q2.alerts[Channels[i]], Len(q2.queue), ToDeliver(job', i))
  <2>1. PICK x, l : x = alerts[Channels[i]] /\ l = Len(queue)
    OBVIOUS
  <2>2. l \in Nat
    BY <1>4, <2>1, SMTT(30)
  <2>3. alertsTaken = Tally(x, l, ToDeliver(j, i))
    BY <1>3, <2>1 DEF Balanced
  <2>4. CASE i = ch
    <3>1. ToDeliver(j, i) = 1
      <4>1. ch <= ch
        BY ChannelsTyped, SMTT(30)
      <4> QED BY <1>3, <1>6, <2>4, <4>1, JobDelivers
    <3>2. ToDeliver(job', i) = 0
      <4>1. ~(ch + 1 <= ch)
        BY ChannelsTyped, SMTT(30)
      <4> QED BY <1>15, <2>4, <4>1, JobDelivers
    <3>3. 0 \in Nat /\ 0 + 1 = 1
      BY SMTT(30)
    <3>4. x = a /\ Tally(a, l, 0 + 1) = Tally(a, l, 0) + 1 /\ Tally(b, l, 0) = Tally(a, l, 0) + 1
      <4>1. x = a /\ Tally(b, l, 0) = Tally(a, l, 0) + 1
        BY <1>7, <1>11, <2>1, <2>2, <2>4, <3>3
      <4>2. Tally(a, l, 0 + 1) = Tally(a, l, 0) + 1
        BY <1>8, <2>2, <3>3, Sums
      <4> QED BY <4>1, <4>2
    <3>5. alertsTaken = Tally(b, l, 0)
      BY <2>3, <3>1, <3>3, <3>4
    <3> QED BY <1>7, <1>12, <1>14, <2>1, <2>4, <3>2, <3>5
  <2>5. CASE i # ch
    <3>1. alerts'[Channels[i]] = x
      BY <1>7, <1>12, <2>1, <2>5, ChannelsTyped
    <3>2. ToDeliver(job', i) = ToDeliver(j, i)
      <4>1. CASE ch = Len(Channels)
        <5>1. ~(ch <= i)
          BY <2>5, <4>1, ChannelsTyped, SMTT(30)
        <5> QED BY <1>3, <1>6, <1>15, <4>1, <5>1, JobDelivers
      <4>2. CASE ch # Len(Channels)
        <5>1. ch <= i <=> ch + 1 <= i
          BY <2>5, ChannelsTyped, SMTT(30)
        <5> QED BY <1>3, <1>6, <1>15, <4>2, <5>1, JobDelivers, SMTT(30)
      <4> QED BY <4>1, <4>2
    <3> QED BY <1>14, <2>1, <2>3, <3>1, <3>2
  <2> QED BY <2>4, <2>5
<1> QED BY <1>13, <1>14, <1>15, <1>16 DEF Balanced

LEMMA AlertsInvStep == AlertsInv /\ [AlertsNext]_alertVars => AlertsInv'
<1>1. SUFFICES ASSUME AlertsInv, [AlertsNext]_alertVars
               PROVE  AlertsInv'
  OBVIOUS
<1>2. /\ monotonic \in Nat /\ DOMAIN contacts = AlertBatch
      /\ job = Idle \/ job \in Delivering
      /\ Queues \in QueueState /\ Balanced(Queues, job)
      /\ TableInv(canarySent, tried) /\ ActiveInv
  BY <1>1 DEF AlertsInv
\* The parts, one by one, under what an action leaves alone.
<1>3. UNCHANGED <<queueVars, job>> =>
        (job = Idle \/ job \in Delivering)' /\ (Queues \in QueueState)' /\ Balanced(Queues, job)'
  BY <1>2, QueuesSame
<1>4. UNCHANGED <<ingestVars, monotonic>> =>
        (monotonic \in Nat)' /\ (DOMAIN contacts = AlertBatch)' /\ TableInv(canarySent, tried)'
  <2>1. SUFFICES ASSUME UNCHANGED <<ingestVars, monotonic>>
                 PROVE  TableInv(canarySent, tried)' /\ (monotonic \in Nat)' /\ (DOMAIN contacts = AlertBatch)'
    OBVIOUS
  <2>2. PICK t, r : t = canarySent /\ r = tried
    OBVIOUS
  <2>3. TableInv(t, r)'
    BY <1>2, <2>1, <2>2, TableSame
  <2> QED BY <1>2, <2>1, <2>2, <2>3 DEF ingestVars
<1>5. UNCHANGED <<contacts, canarySent, tried, monotonic>> =>
        (monotonic \in Nat)' /\ (DOMAIN contacts = AlertBatch)' /\ TableInv(canarySent, tried)'
  <2>1. SUFFICES ASSUME UNCHANGED <<contacts, canarySent, tried, monotonic>>
                 PROVE  TableInv(canarySent, tried)' /\ (monotonic \in Nat)' /\ (DOMAIN contacts = AlertBatch)'
    OBVIOUS
  <2>2. PICK t, r : t = canarySent /\ r = tried
    OBVIOUS
  <2>3. TableInv(t, r)'
    BY <1>2, <2>1, <2>2, TableSame
  <2> QED BY <1>2, <2>1, <2>2, <2>3
<1>6. UNCHANGED evalVars => ActiveInv'
  BY <1>2 DEF evalVars, ActiveInv
<1>7. ASSUME NEW b \in AlertBatch, IngestCommits(b)
      PROVE  AlertsInv'
  BY <1>3, <1>5, <1>6, <1>7 DEF IngestCommits, AlertsInv
<1>8. ASSUME NEW b \in AlertBatch, IngestAnswers(b)
      PROVE  AlertsInv'
  <2>1. CountCanaryContacts(b) /\ UNCHANGED <<job, monotonic>> /\ UNCHANGED evalVars
    BY <1>8 DEF IngestAnswers
  <2> QED BY <1>1, <1>2, <1>6, <2>1, CountKeeps DEF AlertsInv
<1>9. ASSUME NEW b \in AlertBatch, IngestAgain(b)
      PROVE  AlertsInv'
  <2>1. ~Counts(TRUE)
    BY DEF Counts
  <2> QED BY <1>3, <1>5, <1>6, <1>9, <2>1 DEF IngestAgain, AlertsInv
<1>10. ASSUME NEW b \in AlertBatch, IngestAbandoned(b)
       PROVE  AlertsInv'
  BY <1>3, <1>5, <1>6, <1>10 DEF IngestAbandoned, AlertsInv
<1>11. CASE EvaluateRead
  <2>1. ActiveInv'
    BY <1>2, <1>11 DEF EvaluateRead, ActiveInv
  <2> QED BY <1>3, <1>4, <1>11, <2>1 DEF EvaluateRead, AlertsInv
<1>12. CASE EvaluateUse
  <2>1. ActiveInv'
    BY <1>12 DEF EvaluateUse, ActiveInv
  <2>2. PICK q : q = IF told' # {} THEN Submit(Queues) ELSE Queues
    OBVIOUS
  <2>3. q \in QueueState /\ Balanced(q, job)
    BY <1>2, <2>2, SubmitKeeps
  <2>4. SetQueues(q)
    BY <1>12, <2>2 DEF EvaluateUse
  <2>5. Queues' = q
    BY <2>3, <2>4, QueuesSet
  <2> QED BY <1>2, <1>4, <1>12, <2>1, <2>3, <2>5 DEF EvaluateUse, AlertsInv
<1>13. CASE EvaluateFails
  <2>1. ActiveInv'
    BY <1>2, <1>13 DEF EvaluateFails, ActiveAfterFailure, ActiveInv
  <2> QED BY <1>3, <1>4, <1>13, <2>1 DEF EvaluateFails, AlertsInv
<1>14. ASSUME NEW a \in Anomaly, Shift(a)
       PROVE  AlertsInv'
  <2>1. ActiveInv'
    BY <1>2, <1>14 DEF Shift, ActiveInv
  <2> QED BY <1>3, <1>4, <1>14, <2>1 DEF Shift, AlertsInv
<1>15. CASE Second
  <2>1. PICK t, r : t = canarySent /\ r = tried
    OBVIOUS
  <2>2. TableInv(t, r)'
    BY <1>2, <1>15, <2>1, TableLater DEF Second
  <2>3. TableInv(canarySent, tried)' /\ (DOMAIN contacts = AlertBatch)'
    BY <1>2, <1>15, <2>1, <2>2 DEF Second, ingestVars
  <2>4. monotonic' \in Nat
    <3>1. monotonic + 1 \in Nat
      BY <1>2, SMTT(30)
    <3> QED BY <1>15, <3>1 DEF Second
  <2> QED BY <1>3, <1>6, <1>15, <2>3, <2>4 DEF Second, AlertsInv
<1>16. CASE Take
  <2>1. UNCHANGED <<ingestVars, monotonic>> /\ UNCHANGED evalVars
    BY <1>16 DEF Take
  <2> QED BY <1>1, <1>4, <1>6, <1>16, <2>1, TakeKeeps DEF AlertsInv
<1>17. ASSUME NEW kind \in {"success", "retryable", "rejected"}, Reply(kind)
       PROVE  AlertsInv'
  <2>1. /\ UNCHANGED <<ingestVars, monotonic>> /\ UNCHANGED evalVars /\ UNCHANGED <<queue, alertsTaken>>
        /\ job # Idle
    BY <1>17 DEF Reply
  <2>2. CASE Settle("sent") \/ Settle("failed")
    BY <1>1, <1>4, <1>6, <2>1, <2>2, SettleKeeps DEF AlertsInv
  <2>3. CASE job' = [job EXCEPT !.step = "sleep"] /\ UNCHANGED alerts
    <3>1. PICK j, j2 : j = job /\ j2 = [j EXCEPT !.step = "sleep"]
      OBVIOUS
    <3>2. j \in Delivering /\ job' = j2
      BY <1>2, <2>1, <2>3, <3>1
    <3>3. "sleep" \in {"post", "sleep"}
      OBVIOUS
    <3>4. j2 \in Delivering /\ j2.channel = j.channel
      BY <3>1, <3>2, <3>3 DEF Delivering
    <3>5. \A i : ToDeliver(j2, i) = ToDeliver(j, i)
      BY <3>2, <3>4, JobDelivers
    <3>6. Queues' = Queues
      BY <2>1, <2>3 DEF Queues
    <3>7. PICK q : q = Queues
      OBVIOUS
    <3>8. Balanced(q, j2)
      BY <1>2, <3>1, <3>5, <3>7 DEF Balanced
    <3> QED BY <1>2, <1>4, <1>6, <2>1, <3>2, <3>4, <3>6, <3>7, <3>8 DEF AlertsInv
  <2> QED BY <1>17, <2>2, <2>3 DEF Reply
<1>18. CASE Retry
  <2>1. PICK j, j2 : j = job /\ j2 = [j EXCEPT !.step = "post", !.attempt = NextAttempt(j.attempt)]
    OBVIOUS
  <2>2. j \in Delivering /\ job' = j2
    BY <1>2, <1>18, <2>1 DEF Retry
  <2>3. j.attempt \in Nat
    BY <2>2 DEF Delivering
  <2>4. "post" \in {"post", "sleep"} /\ NextAttempt(j.attempt) \in Nat
    BY <2>3, SMTT(30) DEF NextAttempt
  <2>5. j2 \in Delivering /\ j2.channel = j.channel
    BY <2>1, <2>2, <2>4 DEF Delivering
  <2>6. \A i : ToDeliver(j2, i) = ToDeliver(j, i)
    BY <2>2, <2>5, JobDelivers
  <2>7. Queues' = Queues
    BY <1>18, QueuesSame DEF Retry
  <2>8. PICK q : q = Queues
    OBVIOUS
  <2>9. Balanced(q, j2)
    BY <1>2, <2>1, <2>6, <2>8 DEF Balanced
  <2> QED BY <1>2, <1>4, <1>6, <1>18, <2>2, <2>5, <2>7, <2>8, <2>9 DEF Retry, AlertsInv
<1>19. CASE Cancel
  BY <1>3, <1>4, <1>6, <1>19 DEF Cancel, AlertsInv
<1>20. CASE UNCHANGED alertVars
  BY <1>3, <1>4, <1>6, <1>20 DEF alertVars, AlertsInv
<1> QED BY <1>1, <1>7, <1>8, <1>9, <1>10, <1>11, <1>12, <1>13, <1>14, <1>15, <1>16, <1>17, <1>18,
           <1>19, <1>20 DEF AlertsNext, Dispatch

-----------------------------------------------------------------------------
(* The theorems.                                                           *)

\* Whatever the channels answer, submit, run and deliver together account for every
\* message: per channel, those submitted are those sent, failed, dropped, queued or in
\* delivery.
THEOREM AllAlertsAccounted == AlertsSpec => []AlertsAccounted
<1>1. AlertsInv => AlertsAccounted
  <2>1. SUFFICES ASSUME AlertsInv
                 PROVE  AlertsAccounted
    OBVIOUS
  <2>2. Balanced(Queues, job) /\ Queues.queue = queue /\ Queues.alerts = alerts /\ Queues.taken = alertsTaken
    BY <2>1 DEF AlertsInv, Queues
  <2> QED BY <2>2 DEF Balanced, Tally, ToDeliver, AlertsAccounted
<1> QED BY <1>1, AlertsInvInit, AlertsInvStep, PTL DEF AlertsSpec

\* Canary messages about one key are a cooldown apart, also when the full table was
\* cleaned up, and a counted batch leaves none of its contacts without one.
THEOREM CanaryCooldown == AlertsSpec => CooldownKept
<1> DEFINE Apart == \A k \in CanaryKey : \A i \in 1..(Len(tried[k]) - 1) :
                      tried[k][i + 1] - tried[k][i] >= Cooldown
           Told == \A b \in AlertBatch : contacts'[b] # contacts[b] =>
                     \A k \in Range(Contacts[b]) :
                       /\ tried'[k] # <<>>
                       /\ Latest(tried'[k]) = monotonic \/ monotonic - Latest(tried'[k]) < Cooldown
<1>1. AlertsInv => Apart
  BY DEF AlertsInv, TableInv, Spaced
<1>2. ASSUME AlertsInv, [AlertsNext]_alertVars
      PROVE  [Told]_alertVars
  <2>1. ASSUME NEW b \in AlertBatch, IngestAnswers(b)
        PROVE  Told
    <3>1. CountCanaryContacts(b) /\ UNCHANGED <<job, monotonic>>
      BY <2>1 DEF IngestAnswers
    <3>2. \A c \in AlertBatch : contacts'[c] # contacts[c] =>
            \A k \in Range(Contacts[c]) : Recent(tried', k)
      BY <1>2, <3>1, CountKeeps
    <3> QED BY <3>2 DEF Recent
  <2>2. contacts' = contacts => Told
    OBVIOUS
  <2>3. ~Counts(TRUE)
    BY DEF Counts
  <2>4. AlertsNext => contacts' = contacts \/ \E b \in AlertBatch : IngestAnswers(b)
    BY <2>3 DEF AlertsNext, IngestCommits, IngestAgain, IngestAbandoned, EvaluateRead, EvaluateUse,
                EvaluateFails, Shift, Second, Dispatch, Take, Reply, Retry, Cancel, ingestVars
  <2> HIDE DEF Told
  <2> QED BY <1>2, <2>1, <2>2, <2>4
<1> HIDE DEF Apart, Told
<1>3. AlertsSpec => []Apart
  BY <1>1, AlertsInvInit, AlertsInvStep, PTL DEF AlertsSpec
<1>4. AlertsSpec => [][Told]_alertVars
  BY <1>2, AlertsInvInit, AlertsInvStep, PTL DEF AlertsSpec
<1> QED BY <1>3, <1>4 DEF CooldownKept, Apart, Told

\* evaluate_once never announces what has stood since start-up or since a pass saw it,
\* also when passes failed in between.
THEOREM StandingAnnouncedOnce == AlertsSpec => StandingNotRepeated
<1>1. ASSUME AlertsInv, [AlertsNext]_alertVars
      PROVE  [told' = told \/ told' \cap seen = {}]_alertVars
  <2>1. CASE EvaluateUse
    <3>1. told' \subseteq NewOnPass(found[1])
      BY <2>1 DEF EvaluateUse, Announced
    <3>2. NewOnPass(found[1]) \cap seen = {}
      BY <1>1 DEF NewOnPass, AlertsInv, ActiveInv
    <3> QED BY <3>1, <3>2
  <2>2. AlertsNext => told' = told \/ EvaluateUse
    BY DEF AlertsNext, IngestCommits, IngestAnswers, IngestAgain, IngestAbandoned, EvaluateRead,
           EvaluateFails, Shift, Second, Dispatch, Take, Reply, Retry, Cancel, evalVars
  <2> QED BY <1>1, <2>1, <2>2
<1> QED BY <1>1, AlertsInvInit, AlertsInvStep, PTL DEF AlertsSpec, StandingNotRepeated

-----------------------------------------------------------------------------
(* The alert dispatcher: its bounds.                                       *)

Fits(q) == Len(q) <= QueueCapacity

\* A job that sleeps has an attempt left.
Tries(j) == j = Idle \/ (j.attempt \in 1..MaxAttempts /\ (j.step = "sleep" => j.attempt < MaxAttempts))

Known(pass) == pass = NotYet \/ pass[1] \subseteq Anomaly

BatchInv == committed \subseteq stored /\ stored \subseteq AlertBatch
EvalInv == standing \subseteq Anomaly /\ Known(active) /\ Known(found)

BoundsInv == BatchInv /\ EvalInv /\ Fits(queue) /\ Tries(job)

LEMMA SubmitFits ==
  ASSUME NEW q \in QueueState, Fits(q.queue)
  PROVE  Fits(Submit(q).queue)
<1>1. q.queue \in Seq(Nat \ {0}) /\ q.taken + 1 \in Nat \ {0}
  BY SMTT(30) DEF QueueState
<1>2. CASE HasRoom(q.queue)
  <2>1. PICK longer : longer = Append(q.queue, q.taken + 1)
    OBVIOUS
  <2>2. Fits(longer)
    BY <1>1, <1>2, <2>1, AlertsAssumption, SMTT(30) DEF HasRoom, Fits
  <2>3. Submit(q) = [q EXCEPT !.queue = longer, !.taken = q.taken + 1]
    BY <1>2, <2>1 DEF Submit
  <2>4. Submit(q).queue = longer
    BY <2>3 DEF QueueState
  <2> QED BY <2>2, <2>4
<1>3. CASE ~HasRoom(q.queue)
  <2>1. Submit(q) = [q EXCEPT !.alerts = CountDropped(q.alerts), !.taken = q.taken + 1]
    BY <1>3 DEF Submit
  <2>2. Submit(q).queue = q.queue
    BY <2>1 DEF QueueState
  <2> QED BY <2>2
<1> QED BY <1>2, <1>3

LEMMA NotifyFits ==
  ASSUME NEW s, Stage(s), Fits(s.queues.queue), NEW key, NEW s2, s2 = NotifyCanary(s, key)
  PROVE  Fits(s2.queues.queue)
<1>1. s2 = s \/ \E t, r : s2 = [table |-> t, queues |-> Submit(s.queues), tried |-> r]
  BY DEF NotifyCanary, Suppressed
<1>2. s2.queues = s.queues \/ s2.queues = Submit(s.queues)
  <2>1. ASSUME NEW t, NEW q, NEW r, s2 = [table |-> t, queues |-> q, tried |-> r]
        PROVE  s2.queues = q
    BY <2>1, SMTT(30)
  <2> QED BY <1>1, <2>1, SMTT(30)
<1>3. PICK q \in QueueState : q = s.queues
  BY DEF Stage
<1> QED BY <1>2, <1>3, SubmitFits

\* However many contacts a batch has.
LEMMA LoopFits ==
  ASSUME monotonic \in Nat, NEW s, Stage(s), Fits(s.queues.queue), NEW keys \in Seq(CanaryKey)
  PROVE  Fits(NotifyEach(s, keys).queues.queue)
<1>1. /\ Len(keys) \in Nat /\ \A i \in 1..Len(keys) : keys[i] \in CanaryKey
  BY SMTT(30)
<1>2. PICK f : IsRun(f, s, keys, Len(keys)) /\ NotifyEach(s, keys) = f[Len(keys)]
  BY <1>1, LoopRuns
<1> DEFINE Good(n) == Stage(f[n]) /\ Fits(f[n].queues.queue)
           S == {n \in Nat : n <= Len(keys) => Good(n)}
<1>3. 0 \in S
  <2>1. f[0] = s /\ 0 \in Nat
    BY <1>1, <1>2, SMTT(30) DEF IsRun
  <2> QED BY <2>1
<1>4. ASSUME NEW n \in Nat, n \in S
      PROVE  n + 1 \in S
  <2>1. SUFFICES ASSUME n + 1 <= Len(keys)
                 PROVE  Good(n + 1)
    BY <1>4, SMTT(30)
  <2>2. n <= Len(keys) /\ n + 1 \in 1..Len(keys)
    BY <1>1, <1>4, <2>1, SMTT(30)
  <2>3. Good(n)
    BY <1>4, <2>2, SMTT(30)
  <2>4. f[n + 1] = NotifyCanary(f[n], keys[n + 1])
    BY <1>1, <1>2, <1>4, <2>2, SMTT(30) DEF IsRun
  <2>5. PICK s1, s2, k1 : s1 = f[n] /\ s2 = f[n + 1] /\ k1 = keys[n + 1]
    OBVIOUS
  <2>6. k1 \in CanaryKey /\ Stage(s1) /\ Fits(s1.queues.queue) /\ s2 = NotifyCanary(s1, k1)
    BY <1>1, <2>2, <2>3, <2>4, <2>5
  <2>7. Stage(s2) /\ Fits(s2.queues.queue)
    BY <2>6, NotifyKeeps, NotifyFits
  <2> QED BY <2>5, <2>7, SMTT(30)
<1>5. Len(keys) \in S
  <2> HIDE DEF S
  <2> QED BY <1>1, <1>3, <1>4, SetInduction
<1>6. Good(Len(keys))
  <2>1. Len(keys) <= Len(keys)
    BY <1>1, SMTT(30)
  <2> QED BY <1>5, <2>1
<1> QED BY <1>2, <1>6

LEMMA CountFits ==
  ASSUME AlertsInv, Fits(queue), NEW b \in AlertBatch, CountCanaryContacts(b)
  PROVE  Fits(queue)'
<1>1. PICK s0 : s0 = [table |-> canarySent, queues |-> Queues, tried |-> tried]
  BY ZenonT(30)
<1>2. s0.table = canarySent /\ s0.queues = Queues /\ s0.tried = tried /\ Queues.queue = queue
  BY <1>1, SMTT(30) DEF Queues
<1>3. Stage(s0) /\ monotonic \in Nat /\ Contacts[b] \in Seq(CanaryKey) /\ Fits(s0.queues.queue)
  BY <1>2, AlertsAssumption DEF Stage, AlertsInv
<1>4. Fits(NotifyEach(s0, Contacts[b]).queues.queue)
  BY <1>3, LoopFits
<1>5. queue' = NotifyEach(s0, Contacts[b]).queues.queue
  BY <1>1 DEF CountCanaryContacts, SetQueues
<1> QED BY <1>4, <1>5 DEF Fits

\* Settle gives the message to the next channel, for its first attempt.
LEMMA SettleTries ==
  ASSUME job \in Delivering, NEW result, Settle(result)
  PROVE  Tries(job)'
<1>1. 1 \in 1..MaxAttempts
  BY AlertsAssumption, SMTT(30)
<1>2. CASE job' = Idle
  BY <1>2 DEF Tries
<1>3. CASE job' # Idle
  <2>1. PICK c : job' = [job EXCEPT !.channel = c, !.attempt = 1, !.step = "post"]
    BY <1>3 DEF Settle
  <2>2. job'.attempt = 1 /\ job'.step = "post"
    BY <2>1 DEF Delivering
  <2> QED BY <1>1, <2>2 DEF Tries
<1> QED BY <1>2, <1>3

LEMMA DispatchBounds ==
  ASSUME AlertsInv, BoundsInv, Dispatch
  PROVE  Fits(queue)' /\ Tries(job)'
<1>1. Fits(queue) /\ Tries(job) /\ queue \in Seq(Nat \ {0}) /\ (job = Idle \/ job \in Delivering)
  BY DEF BoundsInv, AlertsInv, Queues, QueueState
<1>2. MaxAttempts \in Nat /\ 1 \in 1..MaxAttempts /\ QueueCapacity \in Nat
  BY AlertsAssumption, SMTT(30)
<1>3. CASE Take
  <2>1. queue # <<>> /\ queue' = Tail(queue)
    BY <1>3 DEF Take
  <2>2. Fits(queue)'
    BY <1>1, <1>2, <2>1, SMTT(30) DEF Fits
  <2>3. PICK h : job' = [message |-> h, channel |-> 1, attempt |-> 1, step |-> "post"]
    BY <1>3 DEF Take
  <2>4. job'.attempt = 1 /\ job'.step = "post"
    BY <2>3, SMTT(30)
  <2> QED BY <1>2, <2>2, <2>4 DEF Tries
<1>4. ASSUME NEW kind, Reply(kind)
      PROVE  Fits(queue)' /\ Tries(job)'
  <2>1. job \in Delivering /\ job # Idle /\ queue' = queue
    BY <1>1, <1>4 DEF Reply
  <2>2. CASE Settle("sent") \/ Settle("failed")
    BY <1>1, <2>1, <2>2, SettleTries DEF Fits
  <2>3. CASE job.attempt < MaxAttempts /\ job' = [job EXCEPT !.step = "sleep"]
    <3>1. job'.attempt = job.attempt
      BY <2>1, <2>3 DEF Delivering
    <3> QED BY <1>1, <2>1, <2>3, <3>1 DEF Tries, Fits
  <2> QED BY <1>4, <2>2, <2>3 DEF Reply
<1>5. CASE Retry
  <2>1. /\ job \in Delivering /\ job # Idle /\ queue' = queue /\ job.step = "sleep"
        /\ job' = [job EXCEPT !.step = "post", !.attempt = NextAttempt(job.attempt)]
    BY <1>1, <1>5 DEF Retry, queueVars
  <2>2. job'.attempt = job.attempt + 1 /\ job'.step = "post"
    BY <2>1 DEF Delivering, NextAttempt
  <2>3. job.attempt \in 1..MaxAttempts /\ job.attempt < MaxAttempts
    BY <1>1, <2>1 DEF Tries
  <2>4. job.attempt + 1 \in 1..MaxAttempts
    BY <1>2, <2>3, SMTT(30)
  <2> QED BY <1>1, <2>1, <2>2, <2>4 DEF Tries, Fits
<1> QED BY <1>3, <1>4, <1>5 DEF Dispatch

LEMMA BoundsKept == AlertsInv /\ BoundsInv /\ [AlertsNext]_alertVars => BoundsInv'
<1> SUFFICES ASSUME AlertsInv, BoundsInv, [AlertsNext]_alertVars
             PROVE  BoundsInv'
  OBVIOUS
<1>1. BatchInv /\ EvalInv /\ Fits(queue) /\ Tries(job)
  BY DEF BoundsInv
<1>2. UNCHANGED <<stored, committed>> => BatchInv'
  BY <1>1 DEF BatchInv
<1>3. UNCHANGED <<active, found, standing>> => EvalInv'
  BY <1>1 DEF EvalInv
<1>4. UNCHANGED <<queue, job>> => Fits(queue)' /\ Tries(job)'
  BY <1>1 DEF Fits, Tries
<1>5. ASSUME NEW b \in AlertBatch, IngestCommits(b)
      PROVE  BoundsInv'
  <2>1. BatchInv'
    BY <1>1, <1>5 DEF IngestCommits, BatchInv
  <2> QED BY <1>3, <1>4, <1>5, <2>1 DEF IngestCommits, evalVars, queueVars, BoundsInv
<1>6. ASSUME NEW b \in AlertBatch, IngestAnswers(b)
      PROVE  BoundsInv'
  <2>1. BatchInv' /\ Tries(job)'
    BY <1>1, <1>6 DEF IngestAnswers, BatchInv, Tries
  <2>2. Fits(queue)'
    BY <1>1, <1>6, CountFits DEF IngestAnswers
  <2> QED BY <1>3, <1>6, <2>1, <2>2 DEF IngestAnswers, evalVars, BoundsInv
<1>7. ASSUME NEW b \in AlertBatch, IngestAgain(b)
      PROVE  BoundsInv'
  <2>1. ~Counts(TRUE)
    BY DEF Counts
  <2> QED BY <1>2, <1>3, <1>4, <1>7, <2>1 DEF IngestAgain, evalVars, queueVars, BoundsInv
<1>8. ASSUME NEW b \in AlertBatch, IngestAbandoned(b)
      PROVE  BoundsInv'
  <2>1. BatchInv'
    BY <1>1, <1>8 DEF IngestAbandoned, BatchInv
  <2> QED BY <1>3, <1>4, <1>8, <2>1 DEF IngestAbandoned, evalVars, queueVars, BoundsInv
<1>9. CASE EvaluateRead
  <2>1. PICK r : r = Response(standing)
    OBVIOUS
  <2>2. r \subseteq Anomaly
    BY <1>1, <2>1 DEF Response, EvalInv
  <2>3. found' = Some(r)
    BY <1>9, <2>1 DEF EvaluateRead
  <2>4. Some(r)[1] = r
    BY SMTT(30) DEF Some
  <2>5. Known(found)'
    BY <2>2, <2>3, <2>4 DEF Known
  <2>6. EvalInv'
    BY <1>1, <1>9, <2>5 DEF EvaluateRead, EvalInv, Known
  <2> QED BY <1>2, <1>4, <1>9, <2>6 DEF EvaluateRead, ingestVars, queueVars, BoundsInv
<1>10. CASE EvaluateUse
  <2>1. EvalInv'
    BY <1>1, <1>10 DEF EvaluateUse, EvalInv, Known
  <2>2. Fits(queue)'
    <3>1. PICK q : q = Queues
      OBVIOUS
    <3>2. q \in QueueState /\ q.queue = queue
      BY <3>1 DEF AlertsInv, Queues
    <3>3. Fits(q.queue) /\ Fits(Submit(q).queue)
      BY <1>1, <3>2, SubmitFits
    <3>4. queue' = q.queue \/ queue' = Submit(q).queue
      BY <1>10, <3>1 DEF EvaluateUse, SetQueues
    <3> QED BY <3>3, <3>4 DEF Fits
  <2>3. Tries(job)'
    BY <1>1, <1>10 DEF EvaluateUse, Tries
  <2> QED BY <1>2, <1>10, <2>1, <2>2, <2>3 DEF EvaluateUse, ingestVars, BoundsInv
<1>11. CASE EvaluateFails
  <2>1. EvalInv'
    BY <1>1, <1>11 DEF EvaluateFails, ActiveAfterFailure, EvalInv, Known
  <2> QED BY <1>2, <1>4, <1>11, <2>1 DEF EvaluateFails, ingestVars, queueVars, BoundsInv
<1>12. ASSUME NEW a \in Anomaly, Shift(a)
       PROVE  BoundsInv'
  <2>1. EvalInv'
    BY <1>1, <1>12 DEF Shift, EvalInv, Known
  <2> QED BY <1>2, <1>4, <1>12, <2>1 DEF Shift, ingestVars, queueVars, BoundsInv
<1>13. CASE Second \/ Cancel
  BY <1>2, <1>3, <1>4, <1>13 DEF Second, Cancel, ingestVars, evalVars, queueVars, BoundsInv
<1>14. CASE Dispatch
  <2>1. UNCHANGED <<stored, committed>> /\ UNCHANGED <<active, found, standing>>
    BY <1>14 DEF Dispatch, Take, Reply, Retry, ingestVars, evalVars
  <2> QED BY <1>2, <1>3, <1>14, <2>1, DispatchBounds DEF BoundsInv
<1>15. CASE UNCHANGED alertVars
  BY <1>2, <1>3, <1>4, <1>15 DEF alertVars, ingestVars, evalVars, queueVars, BoundsInv
<1> QED BY <1>5, <1>6, <1>7, <1>8, <1>9, <1>10, <1>11, <1>12, <1>13, <1>14, <1>15 DEF AlertsNext

\* The queue never exceeds QUEUE_CAPACITY, also when one batch has more contacts than there
\* is room for; no message is posted to a channel oftener than ATTEMPTS; and the passes of
\* the evaluator and the cooldown table are about anomalies and keys that there are.
THEOREM AlertsBounded == AlertsSpec => []AlertsTypeOK
<1>1. AlertsInv /\ BoundsInv => AlertsTypeOK
  <2> SUFFICES ASSUME AlertsInv, BoundsInv
               PROVE  AlertsTypeOK
    OBVIOUS
  <2>1. job = Idle \/ job.channel \in 1..Len(Channels)
    BY DEF AlertsInv, Delivering
  <2>2. DOMAIN canarySent \subseteq CanaryKey
    BY DEF AlertsInv, TableInv
  <2> QED BY <2>1, <2>2 DEF BoundsInv, BatchInv, EvalInv, Known, Fits, Tries, AlertsTypeOK
<1>2. AlertsInit => AlertsInv /\ BoundsInv
  <2> SUFFICES ASSUME AlertsInit
               PROVE  BoundsInv
    BY AlertsInvInit
  <2>1. BatchInv /\ EvalInv /\ Tries(job)
    BY DEF AlertsInit, BatchInv, EvalInv, Known, Tries
  <2>2. Fits(queue)
    BY AlertsAssumption, SMTT(30) DEF AlertsInit, Fits
  <2> QED BY <2>1, <2>2 DEF BoundsInv
<1>3. AlertsInv /\ BoundsInv /\ [AlertsNext]_alertVars => AlertsInv' /\ BoundsInv'
  BY AlertsInvStep, BoundsKept
<1> QED BY <1>1, <1>2, <1>3, PTL DEF AlertsSpec

=============================================================================
