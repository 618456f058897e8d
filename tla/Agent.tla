------------------------------- MODULE Agent -------------------------------
(***************************************************************************)
(* One agent process (agent/cmd/agent/main.go, run): the goroutines that   *)
(* share the aggregator and the delivery client, from the attached probe   *)
(* to exit.                                                                *)
(*   - the main goroutine runs the collector's read loop and Adds events;  *)
(*   - a helper goroutine closes the ring-buffer reader when ctx ends;     *)
(*   - the flush loop emits a batch per tick and one more when ctx ends;   *)
(*   - the delivery goroutine is Delivery's Run.                           *)
(* Batch b of Delivery is emitted[b].                                      *)
(***************************************************************************)
EXTENDS Delivery, Aggregate

VARIABLES
  collPc,        \* main goroutine: "read", "handle", "stopped" or "failed"
  held,          \* the decoded event between Read and Add
  readerClosed,  \* coll.Run's helper has closed the ring-buffer reader
  foreignEvents, \* events of pods on other nodes
  loopPc,        \* flush loop: "select", "flush", "enqueue" or "done"
  final,         \* the flush in progress is the one after ctx.Done
  exited,        \* run has returned
  emitted        \* history: the batches that passed Validate

agentVars == <<collPc, held, readerClosed, foreignEvents, loopPc, final, exited, emitted>>
allVars == <<vars, aggVars, agentVars>>

ASSUME AgentBoundsAssumption == MaxFlushes \in Nat /\ MaxFlushes < MaxBatches

-----------------------------------------------------------------------------
(* The collector, on the main goroutine.                                   *)

\* A record is read and decoded.
CollRead ==
  /\ collPc = "read"
  /\ ~readerClosed
  /\ aggCounters.Observed + foreignEvents < MaxObserved
  /\ \E o \in Observations : held' = {o}
  /\ collPc' = "handle"
  /\ UNCHANGED <<vars, aggVars, readerClosed, foreignEvents, loopPc, final, exited, emitted>>

\* Mutant: the early return after counting a foreign event is missing.
HandleForeignKeeps ==
  /\ collPc = "handle"
  /\ foreignEvents' = foreignEvents + 1
  /\ collPc' = "read"
  /\ UNCHANGED <<vars, aggVars, held, readerClosed, loopPc, final, exited, emitted>>

\* handle: an event of another node's pod is only counted.
HandleForeign ==
  /\ collPc = "handle"
  /\ foreignEvents' = foreignEvents + 1
  /\ held' = {}
  /\ collPc' = "read"
  /\ UNCHANGED <<vars, aggVars, readerClosed, loopPc, final, exited, emitted>>

\* handle: every other event is resolved and added.
HandleAdd ==
  /\ collPc = "handle"
  /\ \E o \in held : Add(o)
  /\ held' = {}
  /\ collPc' = "read"
  /\ UNCHANGED <<vars, readerClosed, foreignEvents, loopPc, final, exited, emitted>>

\* Read fails although ctx is live, or a record does not decode.
CollFail ==
  /\ collPc = "read"
  /\ ~readerClosed
  /\ collPc' = "failed"
  /\ UNCHANGED <<vars, aggVars, held, readerClosed, foreignEvents, loopPc, final, exited, emitted>>

\* Mutant: nobody unblocks Read.
CloseReaderMissing == FALSE /\ UNCHANGED allVars

\* The helper goroutine of coll.Run.
CloseReader ==
  /\ cancelled /\ ~readerClosed
  /\ readerClosed' = TRUE
  /\ UNCHANGED <<vars, aggVars, collPc, held, foreignEvents, loopPc, final, exited, emitted>>

\* Read reports ErrClosed.
CollStop ==
  /\ collPc = "read"
  /\ readerClosed
  /\ collPc' = "stopped"
  /\ UNCHANGED <<vars, aggVars, held, readerClosed, foreignEvents, loopPc, final, exited, emitted>>

-----------------------------------------------------------------------------
(* The flush loop; emitBatch is FlushSwap, EmitBuild and EmitEnqueue.      *)

Tick ==
  /\ loopPc = "select"
  /\ aggCounters.BatchesFlushed < MaxFlushes
  /\ FlushSwap
  /\ loopPc' = "flush"
  /\ UNCHANGED <<vars, collPc, held, readerClosed, foreignEvents, final, exited, emitted>>

FinalFlush ==
  /\ loopPc = "select"
  /\ cancelled
  /\ FlushSwap
  /\ loopPc' = "flush"
  /\ final' = TRUE
  /\ UNCHANGED <<vars, collPc, held, readerClosed, foreignEvents, exited, emitted>>

AfterEmit == IF final THEN "done" ELSE "select"

\* An empty batch is not sent, one that fails Validate is logged and given up.
EmitBuild ==
  /\ loopPc = "flush"
  /\ FlushBuild
  /\ IF DOMAIN taken = {} \/ ~Validate(taken)
     THEN loopPc' = AfterEmit /\ UNCHANGED emitted
     ELSE loopPc' = "enqueue" /\ emitted' = Append(emitted, taken)
  /\ UNCHANGED <<vars, collPc, held, readerClosed, foreignEvents, final, exited>>

\* sender.Enqueue, in the two halves of Delivery.
EmitEnqueue ==
  /\ loopPc = "enqueue"
  /\ \/ EnqueueEvict(flushed + 1) /\ UNCHANGED loopPc
     \/ EnqueueAppend(flushed + 1) /\ loopPc' = AfterEmit
  /\ UNCHANGED <<aggVars, collPc, held, readerClosed, foreignEvents, final, exited, emitted>>

-----------------------------------------------------------------------------
\* coll.Run has returned, then <-done, then <-delivered.
Exit ==
  /\ collPc \in {"stopped", "failed"}
  /\ loopPc = "done"
  /\ pc = "returned"
  /\ ~exited
  /\ exited' = TRUE
  /\ UNCHANGED <<vars, aggVars, collPc, held, readerClosed, foreignEvents, loopPc, final, emitted>>

AgentInit ==
  /\ Init
  /\ AggInit
  /\ collPc = "read"
  /\ held = {}
  /\ readerClosed = FALSE
  /\ foreignEvents = 0
  /\ loopPc = "select"
  /\ final = FALSE
  /\ exited = FALSE
  /\ emitted = <<>>

Deliver == Run /\ UNCHANGED <<aggVars, agentVars>>
Surroundings == Environment /\ UNCHANGED <<aggVars, agentVars>>
Collect == CollRead \/ HandleForeign \/ HandleAdd \/ CollStop
FlushLoop == Tick \/ FinalFlush \/ EmitBuild \/ EmitEnqueue

AgentNext ==
  \/ Collect \/ CollFail \/ CloseReader
  \/ FlushLoop
  \/ Deliver \/ Surroundings
  \/ Exit
  \/ exited /\ UNCHANGED allVars

AgentSpec == AgentInit /\ [][AgentNext]_allVars

\* Delivery's assumptions, and: every goroutine of the agent is scheduled, and a
\* select that keeps finding ctx.Done ready takes it.  Nobody has to send the
\* signal, and no record has to be malformed.
AgentFairness ==
  /\ WF_allVars(Collect) /\ WF_allVars(CloseReader) /\ WF_allVars(Exit)
  /\ WF_allVars(FlushLoop) /\ SF_allVars(FinalFlush)
  /\ WF_allVars(Deliver) /\ WF_allVars(ServerAnswer /\ UNCHANGED <<aggVars, agentVars>>)
  /\ SF_allVars(WaitCancelled /\ UNCHANGED <<aggVars, agentVars>>)
  /\ SF_allVars(BackoffCancelled /\ UNCHANGED <<aggVars, agentVars>>)

AgentFairSpec == AgentSpec /\ AgentFairness

-----------------------------------------------------------------------------
(* Properties.                                                             *)

\* Type invariant of the process and its two components.
AgentTypeOK ==
  /\ TypeOK /\ AggTypeOK
  /\ collPc \in {"read", "handle", "stopped", "failed"}
  /\ held \subseteq Observations /\ (held # {} <=> collPc = "handle")
  /\ readerClosed \in BOOLEAN /\ final \in BOOLEAN /\ exited \in BOOLEAN
  /\ foreignEvents \in Nat
  /\ loopPc \in {"select", "flush", "enqueue", "done"}
  /\ (loopPc = "flush") <=> (flushPc = "build")

Connections(m) == Total([k \in DOMAIN m |-> m[k].count + m[k].failedCount])

InBatches(S) == Total([b \in S |-> Connections(emitted[b])])

\* Connections the backend's buckets show.
Shown == Total([b \in stored |-> applied[b] * Connections(emitted[b])])

\* Connections in batches Validate refused.
Invalid ==
  Total([i \in DOMAIN batches |-> IF Validate(batches[i]) THEN 0 ELSE Connections(batches[i])])

\* Across all goroutines, retries and duplicates: the connections the graph
\* shows, plus those still in the accumulator, in the flush, in the hand-over, in
\* the queue, or in a batch given up with a counter or a log line, are the
\* connections recorded.  Nothing is shown twice, nothing is missing unaccounted.
PipelineConserves ==
  LET handedOver == IF loopPc = "enqueue" THEN {flushed + 1} ELSE {}
      waiting == (Queued \cup droppedIds \cup rejectedIds) \ stored
  IN  Shown + Connections(edges) + Connections(taken) + InBatches(handedOver)
        + InBatches(waiting) + Invalid = Len(log)

\* A signal ends the process, whatever the backend does.
StopsWhenTold == cancelled ~> exited

\* run's comments: a final flush so that a shutdown does not discard a partial
\* interval.  After an exit that the signal caused the accumulator is empty.
ExitFlushed == exited /\ collPc = "stopped" => edges = NoEdges

\* run's comments: the flush loop has handed its final batch over and delivery
\* drains before exiting.  If the deadline left time, whatever is still queued at
\* a clean exit is behind a batch that drain tried and could not deliver.
ExitDrained ==
  exited /\ collPc = "stopped" /\ ~drainOver /\ pending # <<>> =>
    Head(pending) \in drainTried

\* The collector's comment: a malformed record is surfaced.  The error ends run.
CollectorErrorEnds == (collPc = "failed") ~> exited
=============================================================================
