------------------------------ MODULE Delivery ------------------------------
(***************************************************************************)
(* The agent's delivery client (agent/internal/delivery/delivery.go): the  *)
(* bounded queue of flushed batches, the Run goroutine that posts them     *)
(* with retry, and the drain at shutdown.  The caller of Enqueue is the    *)
(* agent's flush loop: one goroutine, so calls never overlap each other,   *)
(* only Run.  The other end is the backend's ingest handler, reduced to    *)
(* what the client can observe of it: it stores a batch id at most once,   *)
(* refuses some batches, may fail before or after the commit, and its      *)
(* answer may be lost or come too late.                                    *)
(*                                                                         *)
(* A batch is its position in the order of flushing (a ULID in the code:   *)
(* fresh per flush); 0 stands for no batch.                                *)
(***************************************************************************)
EXTENDS Integers, Sequences, FiniteSets

CONSTANTS
  MaxSize,     \* AGENT_MAX_PENDING_BATCHES after New's floor of 1
  MaxBatches,  \* bound: batches flushed in one life of the agent
  MaxRetries,  \* bound: failed attempts before the backend answers again
  Refused      \* batches the backend's contract checks refuse with a 4xx

ASSUME MaxSizeAssumption == MaxSize \in Nat \ {0}
ASSUME BoundsAssumption == MaxBatches \in Nat /\ MaxRetries \in Nat
ASSUME RefusedAssumption == Refused \subseteq 1..MaxBatches

BatchID == 1..MaxBatches

VARIABLES
  pending,    \* c.pending, oldest first
  signal,     \* a wake-up is buffered in c.signal
  counters,   \* c.counters
  pc,         \* where Run is
  cur,        \* the batch Run holds a copy of
  wire,       \* the current HTTP exchange, as far as the client can know it
  late,       \* requests the client gave up on that may still reach the backend
  cancelled,  \* ctx is done
  drainOver,  \* drain's own deadline has passed
  flushed,    \* batches handed to Enqueue so far; the last one is being queued
  enq,        \* the batch of an Enqueue that has evicted and not yet appended
  stored,     \* backend: ids in ingest_batches
  applied,    \* backend: how often each batch was merged into the buckets
  sentIds, rejectedIds, droppedIds,  \* history: the batches behind the counters
  drainTried  \* history: the batches drain has posted

clientVars == <<pending, signal, counters, pc, cur, wire, drainOver>>
backendVars == <<late, stored, applied>>
historyVars == <<sentIds, rejectedIds, droppedIds>>
vars == <<clientVars, backendVars, historyVars, drainTried, cancelled, flushed, enq>>

Queued == {pending[i] : i \in DOMAIN pending}

-----------------------------------------------------------------------------
(* Enqueue, on the flush goroutine.                                        *)

\* A full queue loses its oldest batch.  The lock is released before the new
\* batch is appended, so Run may act between the two halves.
EnqueueEvict(b) ==
  /\ enq = 0
  /\ Len(pending) >= MaxSize
  /\ pending' = Tail(pending)
  /\ counters' = [counters EXCEPT !.Dropped = @ + 1]
  /\ droppedIds' = droppedIds \cup {Head(pending)}
  /\ enq' = b
  /\ UNCHANGED <<signal, pc, cur, wire, drainOver, backendVars, sentIds,
                 rejectedIds, cancelled, flushed, drainTried>>

\* Mutant: the bound is never checked.
RoomUnchecked(b) == enq \in {0, b}

\* Room in the queue: a free place, or the one this call has just made.
Room(b) == enq = b \/ (enq = 0 /\ Len(pending) < MaxSize)

Appended(b) == Append(pending, b)

\* The batch joins the queue, the high-water mark follows, and Run is woken.
EnqueueAppend(b) ==
  /\ Room(b)
  /\ pending' = Appended(b)
  /\ counters' = [counters EXCEPT !.QueueHigh =
                    IF Len(pending) + 1 > @ THEN Len(pending) + 1 ELSE @]
  /\ signal' = TRUE
  /\ enq' = 0
  /\ flushed' = b
  /\ UNCHANGED <<pc, cur, wire, drainOver, backendVars, historyVars, drainTried, cancelled>>

\* What the flush loop calls: the next fresh batch, one call at a time.
Enqueue ==
  /\ flushed < MaxBatches
  /\ EnqueueEvict(flushed + 1) \/ EnqueueAppend(flushed + 1)

-----------------------------------------------------------------------------
(* The delivery goroutine.                                                 *)

\* http.Client.Do: with a context that is already done nothing is sent.
BeginPost(b, ctxDone, at) ==
  /\ cur' = b
  /\ wire' = IF ctxDone THEN "unsent" ELSE "sent"
  /\ pc' = at

\* Mutant: the newest batch is attempted first.
PeekNewest == pending[Len(pending)]

\* peek on a queue that is not empty.
PeekOldest == Head(pending)

\* Run's loop: peek, and attempt the head or wait.
Peek ==
  /\ pc = "loop"
  /\ IF pending = <<>>
     THEN pc' = "wait" /\ UNCHANGED <<cur, wire>>
     ELSE BeginPost(PeekOldest, cancelled, "post")
  /\ UNCHANGED <<pending, signal, counters, drainOver, backendVars, historyVars, drainTried,
                 cancelled, flushed, enq>>

\* The select on an empty queue: woken, or one second passed.
WaitWake ==
  /\ pc = "wait"
  /\ signal' \in {FALSE, signal}
  /\ pc' = "loop"
  /\ UNCHANGED <<pending, counters, cur, wire, drainOver, backendVars,
                 historyVars, drainTried, cancelled, flushed, enq>>

\* Mutant: a done context only restarts the loop.
WaitIgnoresCancel ==
  /\ pc = "wait"
  /\ cancelled
  /\ pc' = "loop"
  /\ UNCHANGED <<pending, signal, counters, cur, wire, drainOver, backendVars,
                 historyVars, drainTried, cancelled, flushed, enq>>

\* The select on an empty queue: ctx is done.
WaitCancelled ==
  /\ pc = "wait"
  /\ cancelled
  /\ pc' = "drain"
  /\ UNCHANGED <<pending, signal, counters, cur, wire, drainOver, backendVars,
                 historyVars, drainTried, cancelled, flushed, enq>>

\* post: the outcomes that mean the backend has the batch.
Accepted(answer) == answer \in {"202", "200"}

CountSent(answer) ==
  [counters EXCEPT !.Sent = @ + 1,
                   !.Duplicate = IF answer = "200" THEN @ + 1 ELSE @]

\* attemptWithRetry: the backend answered 202 or 200.
ReceiveAccepted ==
  /\ pc = "post"
  /\ Accepted(wire)
  /\ counters' = CountSent(wire)
  /\ sentIds' = sentIds \cup {cur}
  /\ wire' = "idle"
  /\ pc' = "pop"
  /\ UNCHANGED <<pending, signal, cur, drainOver, backendVars, rejectedIds,
                 droppedIds, cancelled, flushed, enq, drainTried>>

\* Mutant: a refusal is retried like an outage.
ReceivePermanentRetries ==
  /\ pc = "post"
  /\ wire = "4xx"
  /\ wire' = "idle"
  /\ pc' = "backoff"
  /\ UNCHANGED <<pending, signal, counters, cur, drainOver, backendVars,
                 historyVars, drainTried, cancelled, flushed, enq>>

\* attemptWithRetry: a 4xx other than 408 and 429.
ReceivePermanent ==
  /\ pc = "post"
  /\ wire = "4xx"
  /\ counters' = [counters EXCEPT !.Rejected = @ + 1]
  /\ rejectedIds' = rejectedIds \cup {cur}
  /\ wire' = "idle"
  /\ pc' = "pop"
  /\ UNCHANGED <<pending, signal, cur, drainOver, backendVars, sentIds,
                 droppedIds, cancelled, flushed, enq, drainTried>>

\* A request that was sent and whose answer the client did not take may still
\* be on its way to the backend.
Abandon == late' = IF wire = "sent" THEN late \cup {cur} ELSE late

\* attemptWithRetry: a retryable status, or Do failed (refused connection,
\* timeout, cancelled context), which can happen before or after the backend
\* has answered.
ReceiveRetryable ==
  /\ pc = "post"
  /\ \/ wire = "5xx"
     \/ wire # "5xx" /\ (cancelled \/ counters.Retried < MaxRetries)
  /\ counters' = [counters EXCEPT !.Retried = @ + 1]
  /\ Abandon
  /\ wire' = "idle"
  /\ pc' = "backoff"
  /\ UNCHANGED <<pending, signal, cur, drainOver, stored, applied, historyVars, drainTried,
                 cancelled, flushed, enq>>

\* sleepCtx: the timer fired (also when ctx ended at the same moment: a select
\* with two ready cases takes either).
BackoffElapsed ==
  /\ pc = "backoff"
  /\ ~cancelled \/ counters.Retried < MaxRetries
  /\ BeginPost(cur, cancelled, "post")
  /\ UNCHANGED <<pending, signal, counters, drainOver, backendVars, historyVars, drainTried,
                 cancelled, flushed, enq>>

BackoffCancelled ==
  /\ pc = "backoff"
  /\ cancelled
  /\ pc' = "drain"
  /\ UNCHANGED <<pending, signal, counters, cur, wire, drainOver, backendVars,
                 historyVars, drainTried, cancelled, flushed, enq>>

\* Mutant: the head is removed, whichever batch it is by now.
PoppedByPosition(s, b) == IF s = <<>> THEN s ELSE Tail(s)

\* pop: the first entry with this id leaves the queue, if there still is one.
Popped(s, b) ==
  IF \E i \in DOMAIN s : s[i] = b
  THEN LET i == CHOOSE k \in DOMAIN s :
                  s[k] = b /\ \A j \in DOMAIN s : s[j] = b => k <= j
       IN  [j \in 1..(Len(s) - 1) |-> IF j < i THEN s[j] ELSE s[j + 1]]
  ELSE s

Pop ==
  /\ pc \in {"pop", "drainPop"}
  /\ pending' = Popped(pending, cur)
  /\ pc' = IF pc = "pop" THEN "loop" ELSE "drain"
  /\ cur' = 0
  /\ UNCHANGED <<signal, counters, wire, drainOver, backendVars, historyVars, drainTried,
                 cancelled, flushed, enq>>

-----------------------------------------------------------------------------
(* drain, still on the delivery goroutine; it has a context of its own.    *)

\* An empty queue or a passed deadline ends it, else the head gets its attempt.
DrainPeek ==
  /\ pc = "drain"
  /\ IF pending = <<>> \/ drainOver
     THEN pc' = "returned" /\ cur' = 0 /\ UNCHANGED <<wire, drainTried>>
     ELSE BeginPost(PeekOldest, FALSE, "drainPost") /\ drainTried' = drainTried \cup {PeekOldest}
  /\ UNCHANGED <<pending, signal, counters, drainOver, backendVars, historyVars,
                 cancelled, flushed, enq>>

DrainReceiveAccepted ==
  /\ pc = "drainPost"
  /\ Accepted(wire)
  /\ counters' = [counters EXCEPT !.Sent = @ + 1]
  /\ sentIds' = sentIds \cup {cur}
  /\ wire' = "idle"
  /\ pc' = "drainPop"
  /\ UNCHANGED <<pending, signal, cur, drainOver, backendVars, rejectedIds,
                 droppedIds, cancelled, flushed, enq, drainTried>>

\* Every other outcome ends the drain, whatever is still queued.
DrainFailed ==
  /\ pc = "drainPost"
  /\ Abandon
  /\ wire' = "idle"
  /\ pc' = "returned"
  /\ cur' = 0
  /\ UNCHANGED <<pending, signal, counters, drainOver, stored, applied,
                 historyVars, drainTried, cancelled, flushed, enq>>

DrainDeadline ==
  /\ pc \in {"drain", "drainPost", "drainPop"}
  /\ ~drainOver
  /\ drainOver' = TRUE
  /\ UNCHANGED <<pending, signal, counters, pc, cur, wire, backendVars,
                 historyVars, drainTried, cancelled, flushed, enq>>

-----------------------------------------------------------------------------
(* The backend's ingest handler, as the client meets it.                   *)

\* Mutant: no batch-id gate.
IngestUngated(b) ==
  /\ stored' = stored \cup {b}
  /\ applied' = [applied EXCEPT ![b] = @ + 1]

\* The batch-id gate and the merge are one transaction: a known id changes
\* nothing.
Ingest(b) ==
  /\ stored' = stored \cup {b}
  /\ applied' = IF b \in stored THEN applied
                ELSE [applied EXCEPT ![b] = @ + 1]

\* The request in hand is answered: refused by a contract check, recognised as
\* a duplicate, stored, or failed with a 5xx before or after the commit.
ServerAnswer ==
  /\ wire = "sent"
  /\ \/ cur \in Refused /\ wire' = "4xx" /\ UNCHANGED <<stored, applied>>
     \/ cur \notin Refused /\ Ingest(cur)
        /\ wire' = IF cur \in stored THEN "200" ELSE "202"
     \/ /\ counters.Retried < MaxRetries
        /\ wire' = "5xx"
        /\ \/ UNCHANGED <<stored, applied>>
           \/ cur \notin Refused /\ Ingest(cur)
  /\ UNCHANGED <<pending, signal, counters, pc, cur, drainOver, late,
                 historyVars, drainTried, cancelled, flushed, enq>>

\* A request the client has given up on arrives after all, or never does; there
\* may be several of the same batch.
LateRequest ==
  \E b \in late :
    /\ late' \in {late, late \ {b}}
    /\ \/ UNCHANGED <<stored, applied>>
       \/ b \notin Refused /\ Ingest(b)
    /\ UNCHANGED <<clientVars, historyVars, drainTried, cancelled, flushed, enq>>

-----------------------------------------------------------------------------
Cancel ==
  /\ ~cancelled
  /\ cancelled' = TRUE
  /\ UNCHANGED <<clientVars, backendVars, historyVars, drainTried, flushed, enq>>

Init ==
  /\ pending = <<>>
  /\ signal = FALSE
  /\ counters = [Sent |-> 0, Duplicate |-> 0, Retried |-> 0, Dropped |-> 0,
                 Rejected |-> 0, QueueHigh |-> 0]
  /\ pc = "loop"
  /\ cur = 0
  /\ wire = "idle"
  /\ late = {}
  /\ cancelled = FALSE
  /\ drainOver = FALSE
  /\ flushed = 0
  /\ enq = 0
  /\ stored = {}
  /\ applied = [b \in BatchID |-> 0]
  /\ sentIds = {}
  /\ rejectedIds = {}
  /\ droppedIds = {}
  /\ drainTried = {}

\* One iteration of whatever loop the delivery goroutine is in.
Run ==
  \/ Peek \/ WaitWake \/ WaitCancelled
  \/ ReceiveAccepted \/ ReceivePermanent \/ ReceiveRetryable
  \/ BackoffElapsed \/ BackoffCancelled \/ Pop
  \/ DrainPeek \/ DrainReceiveAccepted \/ DrainFailed

Environment == ServerAnswer \/ LateRequest \/ DrainDeadline \/ Cancel

\* Run has returned; whatever is still queued stays there.
Returned == pc = "returned" /\ UNCHANGED vars

Next == Enqueue \/ Run \/ Environment \/ Returned

Spec == Init /\ [][Next]_vars

\* The goroutines are scheduled, the backend answers what reaches it (after at
\* most MaxRetries failures), and a select that keeps finding ctx.Done ready
\* takes it: Go picks among ready cases at random.
Fairness ==
  /\ WF_vars(Run)
  /\ WF_vars(ServerAnswer)
  /\ WF_vars(Enqueue)
  /\ SF_vars(WaitCancelled)
  /\ SF_vars(BackoffCancelled)

FairSpec == Spec /\ Fairness

-----------------------------------------------------------------------------
(* Properties.                                                             *)

PCs == {"loop", "wait", "post", "backoff", "pop", "drain", "drainPost",
        "drainPop", "returned"}
Wires == {"idle", "unsent", "sent", "202", "200", "4xx", "5xx"}

\* Type invariant of the client, the backend's view and the histories.
TypeOK ==
  /\ pending \in Seq(BatchID)
  /\ signal \in BOOLEAN
  /\ counters \in [Sent : Nat, Duplicate : Nat, Retried : Nat, Dropped : Nat,
                   Rejected : Nat, QueueHigh : Nat]
  /\ pc \in PCs
  /\ cur \in {0} \cup BatchID
  /\ wire \in Wires
  /\ late \subseteq BatchID
  /\ cancelled \in BOOLEAN
  /\ drainOver \in BOOLEAN
  /\ flushed \in {0} \cup BatchID
  /\ enq \in {0} \cup BatchID
  /\ stored \subseteq BatchID
  /\ applied \in [BatchID -> Nat]
  /\ sentIds \subseteq BatchID
  /\ rejectedIds \subseteq BatchID
  /\ droppedIds \subseteq BatchID
  /\ drainTried \subseteq BatchID

\* The queue never exceeds AGENT_MAX_PENDING_BATCHES, although Enqueue gives
\* up the lock between evicting and appending: the slot it freed stays free.
QueueBounded ==
  /\ Len(pending) + (IF enq = 0 THEN 0 ELSE 1) <= MaxSize
  /\ counters.QueueHigh <= MaxSize

\* The queue stays in flush order, so the batch Enqueue evicts at [0] really is
\* the oldest, whatever pop removed meanwhile.
OldestFirst ==
  \A i, j \in DOMAIN pending : i < j => pending[i] < pending[j]

\* Run holds a batch by value while Enqueue may evict it.  The batch it holds is
\* either still the head, or was evicted and counted as dropped.
HoldsHeadOrEvicted ==
  pc \in {"post", "backoff", "pop", "drainPost", "drainPop"} =>
    \/ pending # <<>> /\ cur = Head(pending)
    \/ cur \in droppedIds

\* Every batch handed to Enqueue is still queued, was acknowledged by the
\* backend, or is counted as dropped or rejected: nothing vanishes uncounted.
NoUncountedLoss ==
  \A b \in 1..flushed :
    b \in Queued \cup sentIds \cup rejectedIds \cup droppedIds

\* A batch counted as sent is in the backend's store, through lost answers,
\* late requests and the drain's fresh context.
SentIsStored == sentIds \subseteq stored

\* However often a batch is posted, its counts reach the buckets exactly once
\* if it is stored and never otherwise.
MergedExactlyOnce ==
  \A b \in BatchID : applied[b] = IF b \in stored THEN 1 ELSE 0

\* A batch leaves the queue only from the front, and only because it was
\* evicted by Enqueue or settled (acknowledged or refused) by the backend.
LeavesOnlySettled ==
  [][\A b \in Queued \ Queued' :
       /\ b = Head(pending)
       /\ b \in droppedIds' \cup sentIds \cup rejectedIds]_vars

\* drain's comment promises one attempt for each queued batch during shutdown:
\* if its deadline has not passed, it gives up only when each was tried.
OneAttemptEach ==
  [][pc = "drainPost" /\ pc' = "returned" /\ ~drainOver => Queued \subseteq drainTried]_vars

\* Once the agent is told to stop, Run returns: an unreachable backend cannot
\* hold the process.
ShutdownReturns == cancelled ~> (pc = "returned")

\* While the agent runs, a queued batch does not stay queued forever once the
\* backend answers again.
QueuedIsSettled ==
  \A b \in BatchID : (b \in Queued) ~> (b \notin Queued \/ cancelled)
=============================================================================
