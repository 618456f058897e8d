# Verification of the Kubernetes topology visualizer

TLA+ models of the runtime topology visualizer, the TLC configurations that
check them on small instances, and TLAPS proofs. Every definition is written
from the source; `PROJECT.json` maps each one to the lines it models.

## The system

| Part | State | Operations | Interacts with |
| --- | --- | --- | --- |
| BPF probe (`agent/bpf`) | start time per socket (LRU table), counters, ring buffer | one tracepoint handler | kernel, collector |
| Collector (`agent/internal/collector`) | ring-buffer reader | `Run`, `decode`, `Close` | probe, agent process |
| Resolver (`agent/internal/resolver`) | informer caches | `ResolveSource`, `ResolveDestination`, `OriginatesElsewhere` | Kubernetes API, agent process |
| Aggregator (`agent/internal/aggregate`) | map of edges, counters | `Add`, `Flush` | read loop, flush loop |
| Contract (`agent/internal/contract`) | none | `Validate`, `BuildNodeID` | aggregator, agent process |
| Delivery client (`agent/internal/delivery`) | bounded queue, counters, wake-up signal | `Enqueue`, `Run`, `attemptWithRetry`, `post`, `drain`, `pop` | flush loop, backend |
| Agent process (`agent/cmd/agent`) | goroutines and the context of the signal | `run`, `emitBatch` | all of the above |
| Ingest route (`backend/app/api`) | none | `ingest_batch`, canary contacts | delivery client, repository, alerts |
| Repository (`backend/app/persistence`) | `ingest_batches`, `nodes`, `edge_buckets` | `ingest_batch`, `purge_expired`, queries | routes, retention loop, evaluator |
| Retention loop, evaluator (`backend/app/main.py`) | active anomalies | one pass per interval | repository, alerts |
| Alert dispatcher (`backend/app/alerts`) | bounded queue, cooldown table | `notify_*`, `submit`, `run`, `deliver` | ingest route, evaluator, chat channels |
| Domain functions (`backend/app/domain`) | none | windows, graph assembly, diff, anomaly rules | routes, evaluator |
| Serving (`backend/app/serve.py`) | listeners | start-up, shutdown | process |
| Frontend hooks (`frontend/src/features`) | last answer, request in flight | polling, compare, anomalies | query routes |
| CLI (`cli/internal`) | token store file, file lock | sign-in, refresh, logout, queries | identity provider, query routes |

Data flows one way: probe, collector, resolver, aggregator, delivery client,
ingest route, repository, queries. What makes it hard is that four goroutines
of the agent share the aggregator and the queue, that a POST can succeed
without the agent learning of it, that several backend sessions and the
retention pass write the same rows, and that a signal may arrive at any point.
`PROJECT.json` lists the hazards, with the line where each one bites and the
properties that watch it.

## The modules

### Delivery

`delivery.go`. A batch is its position in the order of flushing. `pending`,
`signal` and `counters` are the client's fields; `pc` is where `Run` is (`loop`,
`wait`, `post`, `backoff`, `pop`, and `drain`, `drainPost`, `drainPop` in the
drain); `cur` is the copy of a batch it holds. `wire` is the HTTP exchange of
that batch: not sent, sent, or answered. A request whose client has given up
stays in `late` and may reach the backend at any time, several times.

`Enqueue` is two actions, `EnqueueEvict` and `EnqueueAppend`, because the code
releases the lock between them; a counter bumped right after an unlock is part
of the same action. The backend is `Ingest` (one transaction with the batch-id
gate), `ServerAnswer` and `LateRequest`. It may refuse a batch, answer 5xx
before or after the commit, or have its answer lost. `sentIds`, `rejectedIds`,
`droppedIds` and `drainTried` are history variables.

### Aggregate

`aggregate.go` and the contract check of `batch.go`. `Add` is one action (it
holds the lock throughout) with the filters in the order of the code.
`Flush` is `FlushSwap`, under the lock, and `FlushBuild`, after it; `Add` may
come in between. A batch is the map it was built from, since the code sorts
its edges by the same key. `log` and `batches` are history variables. `Sums`
defines the sum of numbers over a finite set as the number of their units, so
that the properties, and the proofs about them, need no order of summation.

### Agent

`run` of `main.go` with the read loop of `collector.go`, over the actions of
`Delivery` and `Aggregate`: batch *b* of the queue is the *b*-th batch that
passed `Validate` (`emitted`, a history variable). The main goroutine (`collPc`)
reads and handles events, a helper closes the reader when the context ends, the
flush loop (`loopPc`) takes a tick or the end of the context, and the delivery
goroutine is `Delivery`'s `Run`. `run` returns when all three are through.

### Store

`postgres.py`, `ingest_batch` of several sessions and `purge_expired`, statement
by statement at READ COMMITTED. A bucket row holds how often each batch was
merged into it, which determines every counter column. What the statements
need of PostgreSQL is modelled and marked external: row locks held to the end
of the transaction, a unique index that waits for an open insert of the same
key, a DELETE that picks rows by its snapshot and rechecks only the row it
waited for, the cascade, and the deadlock detector. The edge upserts and the
commit are one action: two sessions with a common edge are already ordered by
the locks on its nodes. A bucket DELETE that deadlocks with them ends in
`Abort` or `PurgeFail`, which are always possible.

### Sockets, Probe, ByteSpike

`Sockets` is the kernel as the BPF programs see it, marked external: sockets that
change state in the order TCP allows, a tracepoint call that has read its clock
and not yet finished (`hit`), an address that a later socket reuses, and two
clocks of which one stands still in suspend. `Probe` is
`trace_inet_sock_set_state` with its filters in order, the LRU table `starts`,
the ring buffer and the counters, and `decode` with its wall clock. `ByteSpike`
is the pair of programs of `tcp_bytes_spike.bpf.c` on the same sockets. An
insertion into a full LRU table may evict any entry, since the kernel's LRU is
approximate.

### Resolver

`resolver.go` and the lookups of `informers.go`. The cluster changes, each
resource's events wait in `pending` and are applied to `cache` in their own
order, and `lookup` is a resolution in progress: every cache read is a step, so
the caches may change between two of them. `held` and `served` record which
addresses a pod has had and a Service has offered.

### Frontend

`useGraph.ts`, `useDiff.ts` and `useAnomalies.ts` with the view state of
`App.tsx`. A step is one task of the event loop with the effects it causes. An
answer carries the query it was for and the version of the data it shows.

### Repository, InMemory, Windows, Rules, RuleCases, Queries

`Repository` is the abstract specification of `protocol.py`: a batch is recorded
atomically and once, and maintenance removes a bucket only when it has expired
or together with one of its nodes. `Store` and `InMemory` both
implement it (`ImplementsRepository`, `MemoryImplementsRepository`); the mapping
is the identity on the tables, and what it says is that no statement of a
transaction, and no race of a retention pass with it, shows outside the promise.

`InMemory` is `memory.py`, where each operation holds one lock and is one step.
Its reports have at least one successful connection: `models.py` refuses an edge
with no attempt at all, and edges that only failed are left out.
`Windows` and `Rules` hold the pure functions of `domain/`; `RuleCases` states
what they should compute, over pairs of aggregates. `Queries` puts the routes on
top: each `await` of a handler ends a step, and ingests and purges come between.

### Alerts

`dispatch.py`, the canary contacts of the ingest route and the evaluator of
`main.py`, on one event loop. `canarySent` is the cooldown table, `queue` the
bounded queue, `job` the message in delivery with its channel and attempt,
`alerts` the counters per channel. `EvaluateRead` and `EvaluateUse` are the two
sides of the evaluator's await.

### Serving

`serve` and `lifespan`. `life` is the lifespan, `main` the place in `serve`,
`listener` each uvicorn server, `requests` those in progress with the repository
they use. Connecting may fail until the deadline, a port may be taken, the ops
listener may break, and the signal may come at any point.

### Credentials

The credentials file, its lock and several processes (`source.go`, `store.go`,
`lock_unix.go`, `login.go`, `commands.go`), with the API client's retry after a
401. Tokens are numbers in the order of issue. The provider (external) rotates
refresh tokens or keeps them, and may lose them; a process may crash, a write or
an answer may fail. `replaced`, `excused` and `signedOut` are history variables.

### The proof modules

| Module | About |
| --- | --- |
| `DeliveryProofs` | `Delivery` |
| `AggregateProofs` | `Aggregate`, `Sums` |
| `AgentProofs` | `Agent`; extends the two above |
| `LockingProofs` | `Store`, `Credentials` |
| `InMemoryProofs` | `Windows`, `InMemory`, `Queries`, `Rules`, `RuleCases` |
| `BackendProofs` | `Serving`, `Alerts` |
| `KernelProofs` | `Sockets`, `Probe`, `ByteSpike` |
| `EndsProofs` | `Resolver`, `Frontend` |

## The runs

| Run | Question | Result |
| --- | --- | --- |
| `delivery` | Does the queue stay bounded, does nothing leave it unsettled or uncounted, is each batch merged once? Does `Run` return after the signal, and is a queued batch settled once the backend answers again? | holds |
| `delivery_drain` | Does the drain attempt every queued batch, as its comment says? | violated |
| `aggregate` | Is each recorded connection in exactly one of accumulator, flush and batches, with exact counts and times? | holds |
| `aggregate_port_zero` | Are invalid events discarded before they are aggregated? | violated |
| `agent` | Are connections conserved from `Add` to the backend's buckets, and does the signal end the process? | holds |
| `agent_late_event` | Is the accumulator empty at exit? | violated |
| `agent_drain_race` | Is the final batch attempted before exit? | violated |
| `agent_collector_error` | Does a collector error end the process? | violated |
| `store` | Does the adapter implement `Repository` (record and merge all or nothing, references intact)? Do retries, concurrent sessions and pruning keep counts right within retention, is what was acknowledged on record, can ingests deadlock each other, does every ingest end? | holds |
| `store_purge` | Does the purge keep every bucket within retention? | violated |
| `ends` | Probe: is a duration the connection's own in spite of eviction and address reuse, is every outcome one event or one counted loss, are stamps right across a suspend? Spike: is each connection's volume reported at most once? Resolver: are answers exact when the caches are current, and never invented when they are not; is a connection kept by its own node? Page: do graph, comparison and anomaly list answer the view that is shown? | holds |
| `services` | Routes: what may be missing or counted when purges and ingests come between reads? Rules: thresholds, symmetry, monotonicity. Alerts: accounted, once per cooldown, never repeated, settled. Serving: nothing handled before the database is there, nothing after it is closed, the signal ends the process. Credentials: no sign-out through rotation, no lost update, a logout stays, commands end. | holds |

`ends` and `services` each hold components that share no variable. Their
initial states choose one (`part`), and the others stand still in one state: the
states add up and do not multiply. Components of one chain are composed where
they do interact: `Agent` over `Delivery` and `Aggregate`, `Queries` over
`InMemory`, `Alerts` over ingest, evaluator and dispatcher.

Some properties join statements of one idea: `TimesAreOwn` (duration and wall time
of an event), `PageAnswersView` (the three hooks), `DiffSound` and `AnomalySound`
(the reference statements of each rule), `CooldownKept` (not oftener, not more
rarely), `StorageServes` (before start-up, after shutdown), `NoLostUpdate`
(entries, logouts, tokens), `EverythingEnds` (one liveness property for each part
of `services` that has one).

The violated ones are disagreements between the code and its own comments or
ADRs; the findings in `PROJECT.json` quote both sides.

### Bounds

- `delivery`: two places and four batches, so that the queue overflows twice,
  also while the head is in flight; batch 2 is refused. `MaxRetries` bounds the
  failures before the backend answers again; two let a batch fail, be stored by
  a late request and be acknowledged as a duplicate.
- `aggregate`: four calls of `Add` and two flushes over one observation per
  case: two edges, success with and without a sample, failure, events out of
  order, every filter, port 0.
- `agent`: one place, two interval flushes and the final one, two events, of
  which one may be to port 0: the queue overflows during a delivery and the
  signal falls into every step of every goroutine. The violated runs need one
  flush fewer.
- `store`: two sessions, two batches that share a bucket and nodes, the second
  with a bucket one minute later as well, a clock long enough for the shared
  bucket to expire while the later one lives, three attempts and one purge pass
  with `PURGE_BATCH` 1 (two passes in `store_purge`). The pass may fail at any
  statement.

- `ends`: two socket addresses, four state changes and tables of one entry, so
  that one connection evicts another's start or inherits its address; one ring
  record and one suspend. Of the two sockets one may exist when the probe is
  attached. Two pod addresses for three pods (one on the host
  network) and four cluster changes, so that an address passes from one workload
  to another while the slice or the pod cache lags; nothing tells the two
  addresses apart, so they are a symmetry set (the run checks invariants only).
  Two queries, two comparisons, five requests: each hook is superseded while an
  answer is on its way. The page opens on the first query, alone or with the
  first comparison; the other openings only rename these.
- `services`: three batches around a bucket boundary, windows that start and end
  in the middle of a bucket, caps of two nodes and two edges, so that either
  cuts; some 1400 pairs of aggregates around every threshold of the rules. Queue,
  cooldown table and response of one entry, two channels, two attempts. Two
  requests and one connection retry. Three processes on two servers: two
  queries for one server and a logout from the other, two queries for different
  servers and a logout from one of them, or a query, a login and a logout on one
  server; two tokens beyond the ones in the file and one fault.

### Fairness

- Every goroutine is scheduled (weak fairness on `Run`, `Enqueue`, the read and
  the flush loop).
- A `select` that finds `ctx.Done()` ready again and again takes it (strong
  fairness on `WaitCancelled`, `BackoffCancelled`, `FinalFlush`): Go chooses
  among ready cases at random.
- The backend answers what it received, after at most `MaxRetries` failures;
  the HTTP client's timeout bounds each attempt. `ShutdownReturns` and
  `StopsWhenTold` do not depend on success: a failed drain ends it as well.
- In `Store`, statements are executed, PostgreSQL grants a contended lock to each
  waiter in turn and detects deadlocks. Aborts, retries, ticks and purge passes
  need not happen.
- The dispatcher's task goes on: a post has a timeout and a sleep ends. Nothing is
  assumed of replies, nor that the evaluator or an ingest runs.
- In `Serving`, the event loop goes on: connecting has a deadline, and statement
  timeouts end requests and tasks. Requests and signals need not come.
- In `Credentials`, each process goes on: requests have timeouts and the wait for
  the lock has a deadline. No process is promised the lock.
- `Probe`, `Resolver` and `Frontend` have safety properties only.

## The proofs

Every safety property that a passing run checks is proved for every value of the
constants; the type invariants of the two composed runs, part by part. The constants are
held to what the code justifies: the named assumptions say that counts and bounds
are natural numbers, that capacities and periods the code divides by or fills are
positive, and that inputs have the shape the code validates. TLC evaluates all of
them in the runs. The bounds of the models (`MaxFlushes`, `MaxNow`, ...) are
arbitrary natural numbers in the proofs. The inductive invariants were tried with TLC
first, at the bounds of the runs, as far as TLC can evaluate them; each proof has one
lemma for each action, or for each group of like actions.

### The agent

**Delivery** (`MaxSizeAssumption`, `BoundsAssumption`, `RefusedAssumption`).
`TypeCorrect`, `QueueIsBounded`, `HeadOrEvicted`, `NothingLostUncounted`,
`SentBatchesStored` and `ExactlyOnce` are the invariants of the run `delivery`, the
order of the queue, and that what is counted as sent is stored; `LeavesSettled` is
the action property `LeavesOnlySettled`. The inductive invariant `IInv` adds three
facts. `EnqueuePending`: between the halves of `Enqueue` the place it made is still
free, because only `Enqueue` adds to the queue. `QueueBehindFlush`: what is queued
was flushed, and what was evicted is older than all of it; this gives the order
after an append, and shows that a batch popped from the queue was not also evicted.
`ExchangeSound`: an accepted answer implies that the batch is stored, and `Run` pops
only what was settled. `PoppedFacts` states what pop by id does to an ordered queue.

**Aggregate** (`ObservationsAssumption`). `AggregatesExact` and `WindowExact` are
the two invariants of the run `aggregate`, for every set of observations. `AggInv`
says for each edge and each counted field that live map, map in the flush and
batches add up to the gains of the observations recorded (`Exact`); that the ends of
each entry are timestamps of the edge's events and that each event lies in some entry
(`Stamped`); and that there is an earliest and a latest event (`HasEnds`), which
finiteness gives and the definition by `CHOOSE` needs. The lemmas about `Total` (one
number grows, one is added, sums of ones, sums over a union) are facts about
cardinalities of disjoint unions.

**Agent** (`AgentBoundsAssumption`). `Conserves` is `PipelineConserves`, the end to
end statement: what the buckets show, plus all that is on its way or was given up
with a trace, is what `Add` recorded. `AgentInv` joins `IInv` and `AggInv` with
`Conserved` (every recorded connection is in the accumulator, in the flush, in a
batch that passed `Validate` or in one that did not), `Known` (the backend and the
requests know only batches that were queued), `HandOver` (one batch at most is between
`Validate` and the queue, and no flush follows the final one) and `Control`.
`AgentDelivers` shows that the process uses the client as `Delivery` has it used,
so that every theorem about `Delivery` holds in the process; `AgentCounts` says the
same of the aggregator, `AgentTyped` gives the types.

### The kernel side

**Probe** (`SocketsAssumption`, `ProbeAssumption`). `OwnTimes`, `OneEvent` and
`ProbeTyped` follow from `ProbeInv`. `KernelInv` says which calls of the tracepoint
may be unfinished in which state of a socket. `TableInv`: a start in the table is
that of the connection the socket has now, or a call is about to take it out.
`FlowInv` carries the times of an event from the ring through `decode`. `CountInv`
relates the connections that have ended to the events written and the counters.

**ByteSpike** (`SpikeAssumption`). `ReportedOnce` is `TotalsOnce`: a connection that
was in the table is reported, still there, or lost to eviction, and only one of these
(`Account`), the counters balance (`SpikeBalance`), and the byte counter is the sum of
the reports (`Summed`).

### The resolver

`NothingInvented`, `ExactWhenCaughtUp`, `OnlyItsNodeKeeps` and `SourcesAreInside`
(`ResolverAssumption`).
`CacheInv`: a cache with its pending events applied is the cluster. `WitnessInv`:
every value in the cluster, a cache or an event is one the object has had.
`GatheredInv` and `ExactInv` say what a resolution has established between two
lookups, in general and when the caches were current all along. `ForRole`: a source is
never looked for behind a Service, hence it is never called one, nor EXTERNAL.

### The backend

**Store** (`StoreAssumption`). `CountedOnce`, `AnsweredIsRecorded`,
`NoIngestDeadlock`, and `StoreRefines`: the adapter implements `Repository`. `GateInv`:
a transaction past the batch-id gate has its batch to itself. `RecordInv`: what is
merged comes from a batch on record, or has expired. `PurgeInv`: a pass works with a
cutoff in the past. `RefersInv`: a bucket has both of its nodes. `LockInv`: ingests
hold locks of their own nodes only, taken in ascending order; a cycle of waiting
ingests would have no least node.

**InMemory and Windows** (`InMemoryAssumption`, `WindowsAssumption`). `MemoryRefines`
is the refinement of `Repository`: `MemInv` says that a bucket that holds something
has both of its nodes; without it a purge might remove a node that a bucket needs.
`OverlapExact`: periods are refused if and only if they have a moment in common.
`WindowOffByABucket`: selecting buckets by their start is off by less than a bucket.

**Queries** (`QueriesAssumption`, `RulesAssumption`). `MissingOnlyExpired`,
`LongestPrefix`, `DiffCountsOnce`, `NewOnlyUnseen` and `QueriesTyped` hold for every
set of reports, every window and every cap, with ingests and purges between any two
reads of a route. A handler's answer depends on what it read before, so `QueriesInv`
says what the request in progress has read (`Reads`): no more of an edge than the
batches then on record reported for the period (`AtMost`), and of a baseline every
edge with an unexpired bucket in it. `Counted` is the state of storage that makes the
reads right: a batch is merged once into each of its buckets, if it is on record,
until the bucket expires. For a diff, `TwoPeriods` adds the two sides: periods that do
not overlap select disjoint sets of reports. `TruncateLongest` shows that the two caps
of `_truncate`, applied one after the other, give the longest prefix that respects
both, because the number of nodes grows with the prefix. `OrderedLists` is about
sorting: a strict total order lists each member of a finite set once.

**Rules** (`RuleCasesAssumption`). `DiffIsSound` and `AnomalyIsSound` hold for all
pairs of aggregates: they need no induction over states, only what `compare` and
`detect` yield for one edge (`DiffClassIs`, `FiredIs`), the error of rounding to
hundredths of a percent (`PercentBounds`), and that the thresholds are monotonic
(`SpikeGrows`, `SlowGrows`). They need a cap of at least one edge and a positive
`SLOW_SETUP_FLOOR_US`; with a floor of zero a steady period of zero setup time would
count as slow.

**Serving** (`RetriesAssumption`). `RequestsHaveStorage` (`StorageServes`),
`ExitStatusRight` and `ServingTyped`. That the pool closes after the last request
follows from where `serve` is, so `SInv` says what each place in `serve` implies for
the listeners and their flags (`Places`), that nothing is open before the lifespan is
up (`Startup`), that a request in progress has a listener that still serves it
(`Requests`), and what the end of the lifespan implies (`Ending`).

**Alerts** (`AlertsAssumption`). `AllAlertsAccounted`, `CanaryCooldown`,
`StandingAnnouncedOnce` and `AlertsBounded`. `Balanced` is the account of each channel with the message
in delivery; `TableInv` says that a key without an entry in the cooldown table has had
no message within the cooldown, so that pruning the table forgets nothing that
matters; `ActiveInv` that a pass compares with all that is known to stand. The loop
over the contacts of a batch is proved by an induction over their number, also that it
never fills the queue beyond its capacity. `BoundsInv` adds that a message that waits
for a retry has an attempt left.

### The page and the CLI

**Frontend** (`FrontAssumption`). `PageFollowsControls`: `FrontInv` says which request
of each hook is not aborted and what it is for (`GraphReqs`, `DiffReqs`, `ListReqs`).
`OneInFlight`: there is at most one such request of each hook (`FlightInv`).

**Credentials** (`CredAssumption`). `UpdatesNotLost`, `NoSignOutByRotation` and
`LockExcludes`.
`CopyInv`: a process past the lock has in its copy what the file holds, but for the
entry it is about to write. `CarryInv` and `CarriedOnce`: a token issued and not
stored yet is with one process only. `FileInv`: the tokens in the file are distinct,
not replaced, and accepted, unless a fault has spoiled one or its successor is about
to be written. `TokenInv`: every token in the file, in a process or accepted by the
provider was issued.

### Only model-checked

- Liveness: `ShutdownReturns`, `QueuedIsSettled`, `StopsWhenTold`, `EveryIngestEnds`,
  `EverythingEnds`. Fairness and ENABLED are beyond the prover.
- `EndsTypeOK` and `ServicesTypeOK` as a whole: no theorem is about the composed runs.
  In each behaviour of those one component runs, and each conjunct is proved of its
  component: `ProbeTyped`, `SourcesAreInside`, `OneInFlight`; `QueriesTyped`,
  `AlertsBounded`, `ServingTyped`, `LockExcludes`.
- What the violated properties say is refuted by TLC's counterexamples.

The library's induction theorems take an operator as a parameter, which the provers
cannot instantiate. Where an induction over numbers is needed it is done through the
least element of a set of counterexamples (`Least`, `SetInduction`). So are the facts
about the two recursive functions of the models, the loop over a batch's contacts
(`Alerts`) and the running sum of the reports (`ByteSpike`). All other sums are
cardinalities (`Sums`), and no module with proofs declares a RECURSIVE operator.

## Not modelled

- Configuration and start-up of the agent, its health server, TLS set-up, the
  backend's settings, logging and text exposition, the drawing of the frontend,
  the CLI's commands and renderers, the chart and the scripts: no protocol state.
- `list_namespaces` and the health routes, which read one value; the query
  statements of `postgres.py`, whose counterpart in `memory.py` is modelled;
  `migrate`, which is one step of `Serving`.
- Message texts and webhook payloads of the alerts; discovery, PKCE and the
  callback listener of the sign-in; `logout --all`.
- Floating point: percentages and ratios are exact in `Rules`, except for the
  rounding to hundredths that `diff.py` does itself.
- Time in the page: `useGraph` aborts a request when it polls again, so an answer
  slower than the interval never arrives; the model orders events and has no clock
  that could tell.
- `agent/bpf/vmlinux.h` is generated from a kernel's type information: 150 000
  lines of type declarations, nearly all of them unused. The models use two of
  its declarations, the TCP states and the record of the tracepoint, and the map
  names only those. Measured in lines, the C sources are therefore almost
  entirely unmapped; of the two hand-written BPF programs every statement is
  modelled.
