---------------------------- MODULE AgentProofs -----------------------------
(***************************************************************************)
(* Proofs about the agent: the process in which the aggregator and the     *)
(* delivery client run.  What they keep alone they keep together, and no   *)
(* recorded connection is lost between them.                               *)
(***************************************************************************)
EXTENDS Agent, DeliveryProofs, AggregateProofs

\* Most leaves are first-order; those about numbers, sequences or records name SMT.
USE ZenonT(30)

-----------------------------------------------------------------------------
(* The agent.                                                              *)

\* The connections of every edge of a map.
EdgeConns(m) == [k \in DOMAIN m |-> m[k].count + m[k].failedCount]
Counted(m) == m \in EdgeMaps /\ Summable(EdgeConns(m))

EmittedConns == [b \in 1..Len(emitted) |-> Connections(emitted[b])]
InvalidConns == [i \in DOMAIN batches |-> IF Validate(batches[i]) THEN 0 ELSE Connections(batches[i])]

\* Every recorded connection is in the accumulator, in the flush, in a batch that
\* passed Validate or in one that did not.
Conserved ==
  /\ Counted(edges) /\ Counted(taken)
  /\ emitted \in Seq(EdgeMaps)
  /\ \A b \in 1..Len(emitted) : Counted(emitted[b])
  /\ Summable(EmittedConns) /\ Summable(InvalidConns)
  /\ Connections(edges) + Connections(taken) + Total(InvalidConns) + Total(EmittedConns) = Len(log)

\* The backend, the requests and the outcomes know only batches already queued.
Known ==
  /\ stored \subseteq 1..flushed /\ late \subseteq 1..flushed
  /\ sentIds \subseteq 1..flushed /\ rejectedIds \subseteq 1..flushed
  /\ cur \in 0..flushed

\* One batch at most is between Validate and the queue, and no flush comes after
\* the final one.
HandOver ==
  /\ Len(emitted) = flushed + (IF loopPc = "enqueue" THEN 1 ELSE 0)
  /\ final => loopPc # "select"
  /\ Len(emitted) + (IF loopPc = "flush" THEN 1 ELSE 0) <= aggCounters.BatchesFlushed
  /\ aggCounters.BatchesFlushed <= MaxFlushes + (IF final THEN 1 ELSE 0)

Control ==
  /\ collPc \in {"read", "handle", "stopped", "failed"}
  /\ held \subseteq Observations /\ (held # {} <=> collPc = "handle")
  /\ readerClosed \in BOOLEAN /\ final \in BOOLEAN /\ exited \in BOOLEAN
  /\ foreignEvents \in Nat
  /\ loopPc \in {"select", "flush", "enqueue", "done"}
  /\ (loopPc = "flush") <=> (flushPc = "build")

AgentInv == IInv /\ AggInv /\ Control /\ Known /\ HandOver /\ Conserved

\* The connections of a map are a natural number.
LEMMA ConnsTyped ==
  ASSUME NEW m, Counted(m)
  PROVE  Connections(m) \in Nat
<1>1. Connections(m) = Total(EdgeConns(m))
  BY DEF Connections, EdgeConns
<1> QED BY <1>1, TotalNat DEF Counted

\* An empty map has none.
LEMMA NoConns ==
  ASSUME NEW m \in EdgeMaps, DOMAIN m = {}
  PROVE  Counted(m) /\ Connections(m) = 0
<1>1. DOMAIN EdgeConns(m) = {}
  BY DEF EdgeConns
<1>2. Connections(m) = Total(EdgeConns(m))
  BY DEF Connections, EdgeConns
<1> QED BY <1>1, <1>2, TotalNone DEF Counted

\* A recorded observation is one connection more.
LEMMA OneMore ==
  ASSUME NEW m, Counted(m), NEW o \in Observations, Verdict(o) = "recorded", NEW n, n = Recorded(m, o)
  PROVE  Counted(n) /\ Connections(n) = Connections(m) + 1
<1>1. m \in EdgeMaps /\ Summable(EdgeConns(m))
  BY DEF Counted
<1>2. PICK x, b, f, g : x = KeyOf(o) /\ b = Base(m, o) /\ f = EdgeConns(m) /\ g = EdgeConns(n)
  OBVIOUS
<1>3. n \in EdgeMaps /\ Puts(n, m, x) /\ b \in Entry /\ n[x] = Merged(b, o)
  BY <1>1, <1>2, RecordedFacts
<1>4. PICK v : v = b.count + b.failedCount
  OBVIOUS
<1>5. b.count \in Nat /\ b.failedCount \in Nat
  BY <1>3 DEF Entry
<1>6. Gain(o).count \in Nat /\ Gain(o).failedCount \in Nat /\ Gain(o).count + Gain(o).failedCount = 1
  <2>1. PICK p, q : p = Gain(o).count /\ q = Gain(o).failedCount
    OBVIOUS
  <2>2. o.failed \in BOOLEAN
    BY ObservationTyped
  <2>3. p = (IF o.failed THEN 0 ELSE 1) /\ q = (IF o.failed THEN 1 ELSE 0)
    BY <2>1 DEF Gain
  <2>4. (p = 0 /\ q = 1) \/ (p = 1 /\ q = 0)
    BY <2>2, <2>3
  <2>5. p \in Nat /\ q \in Nat /\ p + q = 1
    BY <2>4, SMTT(30)
  <2> QED BY <2>1, <2>5
<1>7. n[x].count = b.count + Gain(o).count /\ n[x].failedCount = b.failedCount + Gain(o).failedCount
  <2>1. \A h \in CountFields : Merged(b, o)[h] = b[h] + Gain(o)[h]
    BY <1>3, MergedFacts
  <2> QED BY <1>3, <2>1 DEF CountFields
<1>8. PICK c, d, p, q : c = b.count /\ d = b.failedCount /\ p = Gain(o).count /\ q = Gain(o).failedCount
  OBVIOUS
<1>9. n[x].count + n[x].failedCount = v + 1 /\ v \in Nat /\ v + 1 \in Nat
  <2>1. c \in Nat /\ d \in Nat /\ p \in Nat /\ q \in Nat /\ p + q = 1
    BY <1>5, <1>6, <1>8
  <2>2. (c + p) + (d + q) = (c + d) + 1 /\ c + d \in Nat /\ (c + d) + 1 \in Nat
    BY <2>1, SMTT(30)
  <2> QED BY <1>4, <1>7, <1>8, <2>2
<1>10. DOMAIN f = DOMAIN m /\ DOMAIN g = DOMAIN n /\ \A k \in DOMAIN m : f[k] = m[k].count + m[k].failedCount
  BY <1>2 DEF EdgeConns
<1>11. \A k \in DOMAIN n : g[k] = n[k].count + n[k].failedCount
  BY <1>2 DEF EdgeConns
<1>12. Puts(g, f, x) /\ g[x] = v + 1
  BY <1>3, <1>9, <1>10, <1>11, SMTT(30) DEF Puts
<1>13. v = ValueAt(f, x)
  <2>1. CASE x \in DOMAIN m
    BY <1>2, <1>4, <1>10, <2>1 DEF Base, ValueAt
  <2>2. CASE x \notin DOMAIN m
    <3>1. b = NewEntry(o)
      BY <1>2, <2>2 DEF Base
    <3>2. b.count = 0 /\ b.failedCount = 0
      BY <3>1, NewEntryFacts DEF CountFields
    <3>3. 0 + 0 = 0
      BY SMTT(30)
    <3> QED BY <1>4, <1>10, <2>2, <3>2, <3>3 DEF ValueAt
  <2> QED BY <2>1, <2>2
<1>14. Summable(g) /\ Total(g) + v = Total(f) + g[x]
  <2>1. Summable(f) /\ g[x] \in Nat /\ ValueAt(f, x) \in Nat
    BY <1>1, <1>2, <1>9, <1>12, <1>13
  <2>2. Puts(g, f, x)
    BY <1>12
  <2>3. Summable(g) /\ Total(g) + ValueAt(f, x) = Total(f) + g[x]
    BY <2>1, <2>2, TotalPuts
  <2> QED BY <1>13, <2>3
<1>15. Total(f) \in Nat /\ Total(g) \in Nat
  BY <1>1, <1>2, <1>14, TotalNat
<1>16. Total(g) = Total(f) + 1
  <2>1. Total(g) + v = Total(f) + (v + 1)
    BY <1>12, <1>14
  <2> QED BY <1>9, <1>15, <2>1, SMTT(30)
<1>17. Connections(m) = Total(f) /\ Connections(n) = Total(g)
  BY <1>2 DEF Connections, EdgeConns
<1> QED BY <1>2, <1>3, <1>14, <1>16, <1>17 DEF Counted

-----------------------------------------------------------------------------
(* Steps that touch one part only.                                         *)

\* A step outside delivery leaves the known batches alone.
LEMMA KnownSame ==
  ASSUME Known, UNCHANGED vars
  PROVE  Known'
BY DEF Known, vars, clientVars, backendVars, historyVars

\* The hand-over is untouched while the flush loop rests.
LEMMA HandOverSame ==
  ASSUME HandOver, UNCHANGED <<flushed, emitted, loopPc, final>>,
         aggCounters'.BatchesFlushed = aggCounters.BatchesFlushed
  PROVE  HandOver'
BY DEF HandOver

\* The sum is untouched while the aggregator and the batches are.
LEMMA ConservedSame ==
  ASSUME Conserved, UNCHANGED <<edges, taken, log, batches, emitted>>
  PROVE  Conserved'
<1>1. EmittedConns' = EmittedConns /\ InvalidConns' = InvalidConns
  BY DEF EmittedConns, InvalidConns
<1>2. Connections(edges)' = Connections(edges) /\ Connections(taken)' = Connections(taken)
  BY DEF Connections
<1> QED BY <1>1, <1>2 DEF Conserved, Counted, EdgeConns, Connections

\* run starts in the invariant.
LEMMA AgentInitial == AgentInit => AgentInv
<1> SUFFICES ASSUME AgentInit
             PROVE  AgentInv
  OBVIOUS
<1>1. IInv /\ AggInv
  BY InitIInv, InitAgg DEF AgentInit
<1>2. Control
  <2>1. 0 \in Nat
    BY SMTT(30)
  <2> QED BY <2>1 DEF AgentInit, AggInit, Control
<1>3. Known
  BY SMTT(30) DEF AgentInit, Init, Known
<1>4. HandOver
  BY AgentBoundsAssumption, SMTT(30) DEF AgentInit, AggInit, Init, HandOver
<1>5. Conserved
  <2>1. edges = NoEdges /\ taken = NoEdges /\ log = <<>> /\ batches = <<>> /\ emitted = <<>>
    BY DEF AgentInit, AggInit
  <2>2. NoEdges \in EdgeMaps /\ DOMAIN NoEdges = {}
    BY NoEdgesMap
  <2>3. Counted(NoEdges) /\ Connections(NoEdges) = 0
    BY <2>2, NoConns
  <2>4. 1..Len(emitted) = {} /\ DOMAIN batches = {} /\ emitted \in Seq(EdgeMaps) /\ Len(log) = 0
    BY <2>1, SMTT(30)
  <2>5. DOMAIN EmittedConns = {} /\ DOMAIN InvalidConns = {}
    BY <2>4 DEF EmittedConns, InvalidConns
  <2>6. /\ Summable(EmittedConns) /\ Total(EmittedConns) = 0
        /\ Summable(InvalidConns) /\ Total(InvalidConns) = 0
    BY <2>5, TotalNone
  <2>7. 0 + 0 + 0 + 0 = 0
    BY SMTT(30)
  <2> QED BY <2>1, <2>3, <2>4, <2>6, <2>7 DEF Conserved
<1> QED BY <1>1, <1>2, <1>3, <1>4, <1>5 DEF AgentInv


\* The delivery goroutine and its surroundings touch queued batches only.
LEMMA KnownRun ==
  ASSUME IInv, Known, Run \/ Environment
  PROVE  Known' /\ UNCHANGED flushed
<1>1. UNCHANGED flushed
  BY DEF Run, Environment, Peek, WaitWake, WaitCancelled, ReceiveAccepted, ReceivePermanent,
         ReceiveRetryable, BackoffElapsed, BackoffCancelled, Pop, DrainPeek, DrainReceiveAccepted,
         DrainFailed, ServerAnswer, LateRequest, DrainDeadline, Cancel
<1>2. flushed \in Nat /\ 0 \in 0..flushed
  <2>1. flushed \in {0} \cup BatchID
    BY DEF IInv, TypeOK
  <2> QED BY <2>1, SMTT(30) DEF BatchID
<1>3. pending # <<>> => Head(pending) \in 1..flushed
  <2>1. pending \in Seq(BatchID) /\ \A i \in DOMAIN pending : pending[i] <= flushed
    BY DEF IInv, TypeOK, QueueBehindFlush
  <2>2. pending # <<>> => 1 \in DOMAIN pending /\ Head(pending) = pending[1] /\ pending[1] \in BatchID
    BY <2>1, SMTT(30)
  <2>3. \A b \in BatchID : b <= flushed => b \in 1..flushed
    BY <1>2, SMTT(30) DEF BatchID
  <2> QED BY <2>1, <2>2, <2>3
<1>4. \A b \in 1..flushed : b \in 0..flushed
  BY <1>2, SMTT(30)
<1>5. pc \in {"post", "backoff", "pop", "drainPost", "drainPop"} => cur \in 1..flushed
  <2>1. pc \in {"post", "backoff", "pop", "drainPost", "drainPop"} => cur \in BatchID
    BY DEF IInv, ExchangeSound
  <2>2. cur \in 0..flushed
    BY DEF Known
  <2> QED BY <1>2, <2>1, <2>2, SMTT(30) DEF BatchID
<1>6. wire = "sent" => cur \in 1..flushed
  BY <1>5 DEF IInv, ExchangeSound
<1>7. CASE Peek \/ DrainPeek
  <2>1. UNCHANGED <<late, stored, sentIds, rejectedIds>>
    BY <1>7 DEF Peek, DrainPeek, backendVars, historyVars
  <2>2. cur' \in 0..flushed
    BY <1>2, <1>3, <1>4, <1>7 DEF Peek, DrainPeek, BeginPost, PeekOldest, Known
  <2> QED BY <1>1, <2>1, <2>2 DEF Known
<1>8. CASE WaitWake \/ WaitCancelled \/ BackoffElapsed \/ BackoffCancelled \/ DrainDeadline \/ Cancel
  <2>1. UNCHANGED <<late, stored, sentIds, rejectedIds, cur>>
    BY <1>8 DEF WaitWake, WaitCancelled, BackoffElapsed, BackoffCancelled, BeginPost, DrainDeadline,
                Cancel, clientVars, backendVars, historyVars
  <2> QED BY <1>1, <2>1 DEF Known
<1>9. CASE ReceiveAccepted \/ DrainReceiveAccepted
  <2>1. UNCHANGED <<late, stored, rejectedIds, cur>> /\ sentIds' = sentIds \cup {cur} /\ cur \in 1..flushed
    BY <1>5, <1>9 DEF ReceiveAccepted, DrainReceiveAccepted, backendVars
  <2> QED BY <1>1, <2>1 DEF Known
<1>10. CASE ReceivePermanent
  <2>1. UNCHANGED <<late, stored, sentIds, cur>> /\ rejectedIds' = rejectedIds \cup {cur} /\ cur \in 1..flushed
    BY <1>5, <1>10 DEF ReceivePermanent, backendVars
  <2> QED BY <1>1, <2>1 DEF Known
<1>11. CASE ReceiveRetryable \/ DrainFailed
  <2>1. UNCHANGED <<stored, sentIds, rejectedIds>> /\ late' \subseteq late \cup {cur} /\ cur \in 1..flushed /\ cur' \in {0, cur}
    BY <1>5, <1>11 DEF ReceiveRetryable, DrainFailed, Abandon, historyVars
  <2> QED BY <1>1, <1>2, <2>1 DEF Known
<1>12. CASE Pop
  <2>1. UNCHANGED <<late, stored, sentIds, rejectedIds>> /\ cur' = 0
    BY <1>12 DEF Pop, backendVars, historyVars
  <2> QED BY <1>1, <1>2, <2>1 DEF Known
<1>13. CASE ServerAnswer
  <2>1. UNCHANGED <<late, sentIds, rejectedIds, cur>> /\ stored' \subseteq stored \cup {cur} /\ cur \in 1..flushed
    BY <1>6, <1>13 DEF ServerAnswer, Ingest, historyVars
  <2> QED BY <1>1, <2>1 DEF Known
<1>14. CASE LateRequest
  <2>1. PICK b \in late : stored' \subseteq stored \cup {b} /\ late' \subseteq late
    BY <1>14 DEF LateRequest, Ingest
  <2>2. UNCHANGED <<sentIds, rejectedIds, cur>>
    BY <1>14 DEF LateRequest, clientVars, historyVars
  <2> QED BY <1>1, <2>1, <2>2 DEF Known
<1> QED
  BY <1>1, <1>7, <1>8, <1>9, <1>10, <1>11, <1>12, <1>13, <1>14 DEF Run, Environment

\* The batch in the hand-over is within the bound.
LEMMA RoomForOne ==
  ASSUME AgentInv, loopPc = "enqueue"
  PROVE  flushed < MaxBatches /\ flushed \in Nat
<1>1. flushed \in Nat
  <2>1. flushed \in {0} \cup BatchID
    BY DEF AgentInv, IInv, TypeOK
  <2> QED BY <2>1, SMTT(30) DEF BatchID
<1>2. PICK n, c : n = Len(emitted) /\ c = aggCounters.BatchesFlushed
  OBVIOUS
<1>3. n = flushed + 1 /\ n + 0 <= c /\ c <= MaxFlushes + (IF final THEN 1 ELSE 0)
  BY <1>2 DEF AgentInv, HandOver
<1>4. c \in Nat /\ final \in BOOLEAN
  BY <1>2 DEF AgentInv, AggInv, AggShape, CounterNames, Control
<1> QED BY <1>1, <1>3, <1>4, AgentBoundsAssumption, BoundsAssumption, SMTT(30)

\* Enqueue's append makes one batch more known.
LEMMA KnownEnqueue ==
  ASSUME AgentInv, EmitEnqueue
  PROVE  Known'
<1>1. flushed \in Nat
  BY RoomForOne DEF EmitEnqueue
<1>2. UNCHANGED <<late, stored, sentIds, rejectedIds, cur>> /\ flushed' \in {flushed, flushed + 1}
  BY DEF EmitEnqueue, EnqueueEvict, EnqueueAppend, backendVars, historyVars
<1>3. \A b : (b \in 1..flushed => b \in 1..(flushed + 1)) /\ (b \in 0..flushed => b \in 0..(flushed + 1))
  BY <1>1, SMTT(30)
<1> QED BY <1>2, <1>3 DEF AgentInv, Known

\* Every step of the agent is a step of the delivery client, or leaves it alone.
LEMMA AgentStepDelivers ==
  ASSUME AgentInv, [AgentNext]_allVars
  PROVE  [Next]_vars
<1>1. CASE EmitEnqueue
  <2>1. flushed < MaxBatches
    BY <1>1, RoomForOne DEF EmitEnqueue
  <2>2. EnqueueEvict(flushed + 1) \/ EnqueueAppend(flushed + 1)
    BY <1>1 DEF EmitEnqueue
  <2> QED BY <2>1, <2>2 DEF Next, Enqueue
<1>2. CASE Deliver \/ Surroundings
  BY <1>2 DEF Deliver, Surroundings, Next
<1>3. CASE Collect \/ CollFail \/ CloseReader \/ Exit
  BY <1>3 DEF Collect, CollRead, HandleForeign, HandleAdd, CollStop, CollFail, CloseReader, Exit
<1>4. CASE Tick \/ FinalFlush \/ EmitBuild
  BY <1>4 DEF Tick, FinalFlush, EmitBuild
<1>5. CASE UNCHANGED allVars
  BY <1>5 DEF allVars
<1> QED BY <1>1, <1>2, <1>3, <1>4, <1>5 DEF AgentNext, FlushLoop


\* The numbers HandOver compares.
LEMMA CountersNat ==
  ASSUME AgentInv
  PROVE  /\ aggCounters.BatchesFlushed \in Nat /\ MaxFlushes \in Nat /\ final \in BOOLEAN
         /\ Len(emitted) \in Nat /\ flushed \in Nat /\ Len(log) \in Nat
<1>1. aggCounters.BatchesFlushed \in Nat /\ final \in BOOLEAN
  BY DEF AgentInv, AggInv, AggShape, CounterNames, Control
<1>2. emitted \in Seq(EdgeMaps) /\ log \in Seq(Observations) /\ flushed \in {0} \cup BatchID
  BY DEF AgentInv, AggInv, AggShape, IInv, TypeOK, Conserved
<1>3. Len(emitted) \in Nat /\ flushed \in Nat /\ Len(log) \in Nat
  BY <1>2, SMTT(30) DEF BatchID
<1> QED BY <1>1, <1>3, AgentBoundsAssumption

\* A step of the collector or the main goroutine that leaves the aggregator alone.
LEMMA ControlStep ==
  ASSUME AgentInv, UNCHANGED <<vars, aggVars, loopPc, final, emitted>>, Control'
  PROVE  AgentInv'
<1>1. IInv'
  BY PassiveKeeps DEF AgentInv
<1>2. AggInv'
  BY SameAgg DEF AgentInv
<1>3. Known'
  BY KnownSame DEF AgentInv
<1>4. HandOver'
  BY HandOverSame DEF AgentInv, aggVars, vars
<1>5. Conserved'
  BY ConservedSame DEF AgentInv, aggVars
<1> QED BY <1>1, <1>2, <1>3, <1>4, <1>5 DEF AgentInv

\* The collector's steps that add nothing, and the exit.
LEMMA CollectStep ==
  ASSUME AgentInv, CollRead \/ HandleForeign \/ CollStop \/ CollFail \/ CloseReader \/ Exit
  PROVE  AgentInv'
<1>1. Control /\ foreignEvents \in Nat /\ foreignEvents + 1 \in Nat
  <2>1. Control /\ foreignEvents \in Nat
    BY DEF AgentInv, Control
  <2> QED BY <2>1, SMTT(30)
<1>2. UNCHANGED <<vars, aggVars, loopPc, final, emitted>> /\ flushPc' = flushPc
  BY DEF CollRead, HandleForeign, CollStop, CollFail, CloseReader, Exit, aggVars
<1>3. CASE CollRead
  <2>1. PICK o \in Observations : held' = {o}
    BY <1>3 DEF CollRead
  <2>2. Control'
    BY <1>1, <1>2, <1>3, <2>1 DEF CollRead, Control
  <2> QED BY <1>2, <2>2, ControlStep
<1>4. CASE HandleForeign
  <2>1. Control'
    BY <1>1, <1>2, <1>4 DEF HandleForeign, Control
  <2> QED BY <1>2, <2>1, ControlStep
<1>5. CASE CollStop \/ CollFail \/ CloseReader \/ Exit
  <2>1. Control'
    BY <1>1, <1>2, <1>5 DEF CollStop, CollFail, CloseReader, Exit, Control
  <2> QED BY <1>2, <2>1, ControlStep
<1> QED BY <1>3, <1>4, <1>5

\* An event is added: one connection more, if it is recorded.
LEMMA HandleAddStep ==
  ASSUME AgentInv, HandleAdd
  PROVE  AgentInv'
<1>1. PICK o \in held : Add(o)
  BY DEF HandleAdd
<1>2. o \in Observations /\ AggShape
  BY DEF AgentInv, Control, AggInv
<1>3. UNCHANGED <<vars, readerClosed, foreignEvents, loopPc, final, exited, emitted>> /\ held' = {} /\ collPc' = "read"
  BY DEF HandleAdd
<1>4. UNCHANGED <<flushPc, taken, batches>>
  BY <1>1 DEF Add
<1>5. IInv'
  BY <1>3, PassiveKeeps DEF AgentInv
<1>6. AggInv'
  BY <1>1, <1>2, AddStep DEF AgentInv
<1>7. Known'
  BY <1>3, KnownSame DEF AgentInv
<1>8. Control'
  BY <1>3, <1>4 DEF AgentInv, Control
<1>9. HandOver'
  <2>1. aggCounters'.BatchesFlushed = aggCounters.BatchesFlushed
    <3>1. PICK v : v = Verdict(o)
      OBVIOUS
    <3>2. v # "BatchesFlushed" /\ "Observed" # "BatchesFlushed"
      BY <3>1, VerdictNames
    <3>3. \/ aggCounters' = [aggCounters EXCEPT !.Observed = @ + 1]
          \/ aggCounters' = [aggCounters EXCEPT !.Observed = @ + 1, ![v] = @ + 1]
      BY <1>1, <3>1 DEF Add
    <3>4. aggCounters \in [CounterNames -> Nat]
      BY <1>2 DEF AggShape
    <3> QED BY <3>2, <3>3, <3>4 DEF CounterNames
  <2> QED BY <1>3, <2>1, HandOverSame DEF AgentInv, vars
<1>10. Conserved'
  <2>1. CASE Verdict(o) # "recorded"
    BY <1>1, <1>3, <1>4, <2>1, ConservedSame DEF Add, AgentInv
  <2>2. CASE Verdict(o) = "recorded"
    <3>1. edges' = Recorded(edges, o) /\ log' = Append(log, o)
      BY <1>1, <2>2 DEF Add
    <3>2. PICK m, n : m = edges /\ n = Recorded(edges, o)
      OBVIOUS
    <3>3. Counted(m)
      BY <3>2 DEF AgentInv, Conserved
    <3>4. Counted(n) /\ Connections(n) = Connections(m) + 1
      BY <1>2, <2>2, <3>2, <3>3, OneMore
    <3>5. log \in Seq(Observations)
      BY <1>2 DEF AggShape
    <3>6. Len(log') = Len(log) + 1 /\ Len(log) \in Nat
      BY <1>2, <3>1, <3>5, SMTT(30)
    <3>7. EmittedConns' = EmittedConns /\ InvalidConns' = InvalidConns
      BY <1>3, <1>4 DEF EmittedConns, InvalidConns
    <3>8. PICK a, b, c, d : a = Connections(m) /\ b = Connections(taken) /\ c = Total(InvalidConns) /\ d = Total(EmittedConns)
      OBVIOUS
    <3>9. a \in Nat /\ b \in Nat /\ c \in Nat /\ d \in Nat /\ a + b + c + d = Len(log)
      BY <3>2, <3>3, <3>8, ConnsTyped, TotalNat DEF AgentInv, Conserved
    <3>10. (a + 1) + b + c + d = Len(log) + 1
      BY <3>6, <3>9, SMTT(30)
    <3>11. Connections(edges)' = a + 1 /\ Connections(taken)' = b /\ Counted(edges)' /\ Counted(taken)'
      <4>1. Connections(edges)' = Connections(n) /\ Connections(taken)' = Connections(taken)
        BY <1>4, <3>1, <3>2 DEF Connections
      <4>2. Counted(edges)' /\ Counted(taken)'
        BY <1>4, <3>1, <3>2, <3>4 DEF Counted, EdgeConns, AgentInv, Conserved
      <4> QED BY <3>4, <3>8, <4>1, <4>2
    <3>12. (emitted \in Seq(EdgeMaps))' /\ (\A b1 \in 1..Len(emitted) : Counted(emitted[b1]))'
      BY <1>3 DEF AgentInv, Conserved, Counted, EdgeConns
    <3>13. Summable(EmittedConns)' /\ Summable(InvalidConns)' /\ Total(EmittedConns)' = d /\ Total(InvalidConns)' = c
      BY <3>7, <3>8 DEF AgentInv, Conserved
    <3> QED BY <3>6, <3>10, <3>11, <3>12, <3>13 DEF Conserved
  <2> QED BY <2>1, <2>2
<1> QED BY <1>5, <1>6, <1>7, <1>8, <1>9, <1>10 DEF AgentInv


\* What a step does to the four terms of Conserved.
Terms(a, b, c, d) ==
  /\ Connections(edges) = a /\ Connections(taken) = b
  /\ Total(InvalidConns) = c /\ Total(EmittedConns) = d
  /\ a \in Nat /\ b \in Nat /\ c \in Nat /\ d \in Nat /\ a + b + c + d = Len(log)

\* The four terms are natural numbers and sum to the length of the log.
LEMMA TermsOf ==
  ASSUME Conserved
  PROVE  \E a, b, c, d : Terms(a, b, c, d)
<1>1. PICK a, b, c, d : /\ a = Connections(edges) /\ b = Connections(taken)
                        /\ c = Total(InvalidConns) /\ d = Total(EmittedConns)
  OBVIOUS
<1>2. Terms(a, b, c, d)
  BY <1>1, ConnsTyped, TotalNat DEF Conserved, Terms
<1> QED BY <1>2

\* The map is swapped: its connections are in the flush now.
LEMMA SwapConserves ==
  ASSUME AgentInv, FlushSwap, UNCHANGED emitted
  PROVE  Conserved'
<1>1. /\ taken = NoEdges /\ taken' = edges /\ edges' = NoEdges /\ UNCHANGED <<log, batches>>
  BY DEF AgentInv, AggInv, AggShape, FlushSwap, FreshMap
<1>2. PICK a, b, c, d : Terms(a, b, c, d)
  BY TermsOf DEF AgentInv
<1>3. Counted(NoEdges) /\ Connections(NoEdges) = 0
  BY NoEdgesMap, NoConns
<1>4. b = 0
  BY <1>1, <1>2, <1>3 DEF Terms
<1>5. Connections(edges)' = 0 /\ Connections(taken)' = a
  <2>1. Connections(edges)' = Connections(NoEdges) /\ Connections(taken)' = Connections(edges)
    BY <1>1 DEF Connections
  <2> QED BY <1>2, <1>3, <2>1 DEF Terms
<1>6. EmittedConns' = EmittedConns /\ InvalidConns' = InvalidConns
  BY <1>1 DEF EmittedConns, InvalidConns
<1>7. Counted(edges)' /\ Counted(taken)'
  BY <1>1, <1>3 DEF Counted, EdgeConns, AgentInv, Conserved
<1>8. (emitted \in Seq(EdgeMaps))' /\ (\A b1 \in 1..Len(emitted) : Counted(emitted[b1]))'
  BY DEF AgentInv, Conserved, Counted, EdgeConns
<1>9. 0 + a + c + d = Len(log)
  BY <1>2, <1>4, SMTT(30) DEF Terms
<1>10. Summable(EmittedConns)' /\ Summable(InvalidConns)' /\ Total(EmittedConns)' = d /\ Total(InvalidConns)' = c
  BY <1>2, <1>6 DEF AgentInv, Conserved, Terms
<1> QED BY <1>1, <1>5, <1>7, <1>8, <1>9, <1>10 DEF Conserved

\* A tick or the final flush takes the map.
LEMMA SwapAgent ==
  ASSUME AgentInv, Tick \/ FinalFlush
  PROVE  AgentInv'
<1>1. /\ FlushSwap /\ loopPc = "select" /\ loopPc' = "flush"
      /\ UNCHANGED <<vars, collPc, held, readerClosed, foreignEvents, exited, emitted>>
  BY DEF Tick, FinalFlush
<1>2. IInv'
  BY <1>1, PassiveKeeps DEF AgentInv
<1>3. AggInv'
  BY <1>1, SwapStep DEF AgentInv
<1>4. Known'
  BY <1>1, KnownSame DEF AgentInv
<1>5. Control'
  <2>1. flushPc' = "build" /\ final' \in BOOLEAN
    BY <1>1 DEF Tick, FinalFlush, FlushSwap, AgentInv, Control
  <2> QED BY <1>1, <2>1 DEF AgentInv, Control
<1>6. Conserved'
  BY <1>1, SwapConserves
<1>7. HandOver'
  <2>1. PICK n, f, c : n = Len(emitted) /\ f = flushed /\ c = aggCounters.BatchesFlushed
    OBVIOUS
  <2>2. n \in Nat /\ f \in Nat /\ c \in Nat /\ MaxFlushes \in Nat /\ final \in BOOLEAN
    BY <2>1, CountersNat
  <2>3. ~final /\ n = f + 0 /\ n + 0 <= c /\ c <= MaxFlushes + 0
    BY <1>1, <2>1, <2>2 DEF AgentInv, HandOver
  <2>4. aggCounters'.BatchesFlushed = c + 1
    <3>1. aggCounters \in [CounterNames -> Nat]
      BY DEF AgentInv, AggInv, AggShape
    <3> QED BY <1>1, <2>1, <3>1 DEF FlushSwap, CountFlushed, CounterNames
  <2>5. (c < MaxFlushes /\ final' = final) \/ final' = TRUE
    BY <2>1 DEF Tick, FinalFlush
  <2>6. n + 1 <= c + 1 /\ c + 1 <= MaxFlushes + (IF final' THEN 1 ELSE 0)
    BY <2>2, <2>3, <2>5, SMTT(30)
  <2>7. emitted' = emitted /\ flushed' = flushed
    BY <1>1 DEF vars
  <2> QED BY <1>1, <2>1, <2>3, <2>4, <2>6, <2>7 DEF HandOver
<1> QED BY <1>2, <1>3, <1>4, <1>5, <1>6, <1>7 DEF AgentInv

\* The batch is built: its connections pass Validate or are given up.
LEMMA BuildConserves ==
  ASSUME AgentInv, EmitBuild
  PROVE  Conserved'
<1>1. /\ taken' = NoEdges /\ UNCHANGED <<edges, log>>
      /\ batches' = IF DOMAIN taken = {} THEN batches ELSE Append(batches, taken)
      /\ emitted' = IF DOMAIN taken = {} \/ ~Validate(taken) THEN emitted ELSE Append(emitted, taken)
  BY DEF EmitBuild, FlushBuild
<1>2. PICK a, b, c, d : Terms(a, b, c, d)
  BY TermsOf DEF AgentInv
<1>3. Counted(NoEdges) /\ Connections(NoEdges) = 0
  BY NoEdgesMap, NoConns
<1>4. PICK m, s, t, e, u, n, p : /\ m = taken /\ s = batches /\ t = batches' /\ e = emitted /\ u = emitted'
                                 /\ n = Len(s) + 1 /\ p = Len(e) + 1
  OBVIOUS
<1>5. m \in EdgeMaps /\ Counted(m) /\ Connections(m) = b /\ s \in Seq(EdgeMaps) /\ e \in Seq(EdgeMaps)
  BY <1>2, <1>4 DEF AgentInv, AggInv, AggShape, Conserved, Terms
<1>6. PICK G, H, E, F : G = InvalidConns /\ H = InvalidConns' /\ E = EmittedConns /\ F = EmittedConns'
  OBVIOUS
<1>7. /\ DOMAIN G = DOMAIN s /\ \A i \in DOMAIN G : G[i] = IF Validate(s[i]) THEN 0 ELSE Connections(s[i])
      /\ DOMAIN H = DOMAIN t /\ \A i \in DOMAIN H : H[i] = IF Validate(t[i]) THEN 0 ELSE Connections(t[i])
  <2>1. /\ G = [i \in DOMAIN s |-> IF Validate(s[i]) THEN 0 ELSE Connections(s[i])]
        /\ H = [i \in DOMAIN t |-> IF Validate(t[i]) THEN 0 ELSE Connections(t[i])]
    BY <1>4, <1>6 DEF InvalidConns
  <2> QED BY <2>1
<1>8. /\ DOMAIN E = 1..Len(e) /\ \A i \in DOMAIN E : E[i] = Connections(e[i])
      /\ DOMAIN F = 1..Len(u) /\ \A i \in DOMAIN F : F[i] = Connections(u[i])
  BY <1>4, <1>6 DEF EmittedConns, Connections
<1>9. Summable(G) /\ Summable(E) /\ Total(G) = c /\ Total(E) = d /\ \A i \in 1..Len(e) : Counted(e[i])
  BY <1>2, <1>4, <1>6 DEF AgentInv, Conserved, Terms
<1>10. Connections(edges)' = a /\ Connections(taken)' = 0 /\ Counted(edges)' /\ Counted(taken)'
  <2>1. Connections(edges)' = Connections(edges) /\ Connections(taken)' = Connections(NoEdges)
    BY <1>1 DEF Connections
  <2>2. Counted(edges)' /\ Counted(taken)'
    BY <1>1, <1>3 DEF Counted, EdgeConns, AgentInv, Conserved
  <2> QED BY <1>2, <1>3, <2>1, <2>2 DEF Terms
<1>11. ASSUME t = s, u = e, b = 0
       PROVE  Conserved'
  <2>1. H = G /\ F = E
    BY <1>4, <1>6, <1>11 DEF EmittedConns, InvalidConns
  <2>2. (emitted \in Seq(EdgeMaps))' /\ (\A b1 \in 1..Len(emitted) : Counted(emitted[b1]))'
    BY <1>4, <1>5, <1>9, <1>11 DEF Counted, EdgeConns
  <2>3. a + 0 + c + d = Len(log)
    BY <1>2, <1>11 DEF Terms
  <2> QED BY <1>1, <1>6, <1>9, <1>10, <2>1, <2>2, <2>3 DEF Conserved
<1>12. CASE DOMAIN m = {}
  <2>1. t = s /\ u = e
    BY <1>1, <1>4, <1>12
  <2>2. b = 0
    BY <1>5, <1>12, NoConns
  <2> QED BY <1>11, <2>1, <2>2
<1>13. CASE DOMAIN m # {}
  <2>1. t = Append(s, m)
    <3>1. batches' = Append(batches, taken)
      BY <1>1, <1>4, <1>13
    <3> QED BY <1>4, <3>1
  <2>2. DOMAIN t = DOMAIN s \cup {n} /\ n \notin DOMAIN s /\ t[n] = m /\ \A i \in DOMAIN s : t[i] = s[i]
    <3>1. s \in Seq(EdgeMaps) /\ m \in EdgeMaps /\ n = Len(s) + 1
      BY <1>4, <1>5
    <3> QED BY <2>1, <3>1, SeqAppend, SMTT(30)
  <2>3. Adds(H, G, n) /\ H[n] = IF Validate(m) THEN 0 ELSE b
    BY <1>5, <1>7, <2>2 DEF Adds
  <2>4. a \in Nat /\ b \in Nat /\ c \in Nat /\ d \in Nat /\ a + b + c + d = Len(log) /\ 0 \in Nat
    BY <1>2, SMTT(30) DEF Terms
  <2>5. H[n] \in Nat
    BY <2>3, <2>4
  <2>6. Summable(H) /\ Total(H) = c + H[n]
    BY <1>9, <2>3, <2>5, TotalAdds
  <2>7. CASE ~Validate(m)
    <3>1. u = e
      BY <1>1, <1>4, <2>7
    <3>2. F = E
      BY <1>4, <1>6, <3>1 DEF EmittedConns
    <3>3. Total(H) = c + b
      BY <2>3, <2>6, <2>7
    <3>4. a + 0 + (c + b) + d = Len(log)
      BY <2>4, SMTT(30)
    <3>5. (emitted \in Seq(EdgeMaps))' /\ (\A b1 \in 1..Len(emitted) : Counted(emitted[b1]))'
      BY <1>4, <1>5, <1>9, <3>1 DEF Counted, EdgeConns
    <3> QED BY <1>1, <1>6, <1>9, <1>10, <2>6, <3>2, <3>3, <3>4, <3>5 DEF Conserved
  <2>8. CASE Validate(m)
    <3>1. u = Append(e, m)
      <4>1. emitted' = Append(emitted, taken)
        BY <1>1, <1>4, <1>13, <2>8
      <4> QED BY <1>4, <4>1
    <3>2. /\ u \in Seq(EdgeMaps) /\ 1..Len(u) = 1..Len(e) \cup {p} /\ p \notin 1..Len(e) /\ u[p] = m
          /\ \A i \in 1..Len(e) : u[i] = e[i]
      <4>1. e \in Seq(EdgeMaps) /\ m \in EdgeMaps /\ p = Len(e) + 1
        BY <1>4, <1>5
      <4> QED BY <3>1, <4>1, SeqAppend, SMTT(30)
    <3>3. Adds(F, E, p) /\ F[p] = b
      BY <1>5, <1>8, <3>2 DEF Adds
    <3>4. Summable(F) /\ Total(F) = d + b
      BY <1>9, <2>4, <3>3, TotalAdds
    <3>5. Total(H) = c + 0
      BY <2>3, <2>6, <2>8
    <3>6. a + 0 + (c + 0) + (d + b) = Len(log)
      BY <2>4, SMTT(30)
    <3>7. \A i \in 1..Len(u) : Counted(u[i])
      BY <1>5, <1>9, <3>2
    <3>8. (emitted \in Seq(EdgeMaps))' /\ (\A b1 \in 1..Len(emitted) : Counted(emitted[b1]))'
      BY <1>4, <3>2, <3>7 DEF Counted, EdgeConns
    <3> QED BY <1>1, <1>6, <1>10, <2>6, <3>4, <3>5, <3>6, <3>8 DEF Conserved
  <2> QED BY <2>7, <2>8
<1> QED BY <1>12, <1>13


\* emitBatch after the swap.
LEMMA BuildAgent ==
  ASSUME AgentInv, EmitBuild
  PROVE  AgentInv'
<1>1. /\ FlushBuild /\ loopPc = "flush" /\ flushPc' = "idle"
      /\ UNCHANGED <<vars, collPc, held, readerClosed, foreignEvents, final, exited>>
  BY DEF EmitBuild, FlushBuild
<1>2. IInv'
  BY <1>1, PassiveKeeps DEF AgentInv
<1>3. AggInv'
  BY <1>1, BuildStep DEF AgentInv
<1>4. Known'
  BY <1>1, KnownSame DEF AgentInv
<1>5. Control'
  <2>1. loopPc' \in {"select", "enqueue", "done"}
    BY DEF EmitBuild, AfterEmit
  <2> QED BY <1>1, <2>1 DEF AgentInv, Control
<1>6. Conserved'
  BY BuildConserves
<1>7. HandOver'
  <2>1. PICK n, f, c : n = Len(emitted) /\ f = flushed /\ c = aggCounters.BatchesFlushed
    OBVIOUS
  <2>2. n \in Nat /\ f \in Nat /\ c \in Nat
    BY <2>1, CountersNat
  <2>3. n = f + 0 /\ n + 1 <= c /\ c <= MaxFlushes + (IF final THEN 1 ELSE 0)
    BY <1>1, <2>1 DEF AgentInv, HandOver
  <2>4. aggCounters' = aggCounters /\ flushed' = flushed /\ final' = final
    BY <1>1 DEF FlushBuild, vars
  <2>5. CASE DOMAIN taken = {} \/ ~Validate(taken)
    <3>1. loopPc' = AfterEmit /\ emitted' = emitted
      BY <2>5 DEF EmitBuild
    <3>2. loopPc' \in {"select", "done"} /\ (final => loopPc' # "select")
      BY <3>1 DEF AfterEmit
    <3>3. n + 0 <= c
      BY <2>2, <2>3, SMTT(30)
    <3> QED BY <2>1, <2>3, <2>4, <3>1, <3>2, <3>3 DEF HandOver
  <2>6. CASE ~(DOMAIN taken = {} \/ ~Validate(taken))
    <3>1. loopPc' = "enqueue" /\ emitted' = Append(emitted, taken)
      BY <2>6 DEF EmitBuild
    <3>2. emitted \in Seq(EdgeMaps) /\ taken \in EdgeMaps
      BY DEF AgentInv, AggInv, AggShape, Conserved
    <3>3. Len(emitted') = n + 1
      BY <2>1, <3>1, <3>2, SMTT(30)
    <3>4. n + 1 = f + 1 /\ (n + 1) + 0 <= c
      BY <2>2, <2>3, SMTT(30)
    <3> QED BY <2>1, <2>3, <2>4, <3>1, <3>3, <3>4 DEF HandOver
  <2> QED BY <2>5, <2>6
<1> QED BY <1>2, <1>3, <1>4, <1>5, <1>6, <1>7 DEF AgentInv

\* emitBatch hands the batch to the delivery client.
LEMMA EnqueueAgent ==
  ASSUME AgentInv, EmitEnqueue
  PROVE  AgentInv'
<1>1. /\ loopPc = "enqueue" /\ UNCHANGED <<aggVars, collPc, held, readerClosed, foreignEvents, final, exited, emitted>>
      /\ \/ EnqueueEvict(flushed + 1) /\ UNCHANGED loopPc
         \/ EnqueueAppend(flushed + 1) /\ loopPc' = AfterEmit
  BY DEF EmitEnqueue
<1>2. IInv'
  BY <1>1, RoomForOne, EnqueueEvictKeeps, EnqueueAppendKeeps DEF AgentInv
<1>3. AggInv'
  BY <1>1, SameAgg DEF AgentInv
<1>4. Known'
  BY KnownEnqueue
<1>5. Control'
  <2>1. loopPc' \in {"select", "enqueue", "done"} /\ flushPc' = flushPc
    BY <1>1 DEF AfterEmit, aggVars
  <2> QED BY <1>1, <2>1 DEF AgentInv, Control
<1>6. Conserved'
  BY <1>1, ConservedSame DEF AgentInv, aggVars
<1>7. HandOver'
  <2>1. aggCounters' = aggCounters /\ emitted' = emitted /\ final' = final
    BY <1>1 DEF aggVars
  <2>2. CASE EnqueueEvict(flushed + 1) /\ UNCHANGED loopPc
    <3>1. flushed' = flushed
      BY <2>2 DEF EnqueueEvict
    <3> QED BY <2>1, <2>2, <3>1, HandOverSame DEF AgentInv
  <2>3. CASE EnqueueAppend(flushed + 1) /\ loopPc' = AfterEmit
    <3>1. flushed' = flushed + 1 /\ loopPc' \in {"select", "done"} /\ (final => loopPc' # "select")
      BY <2>3 DEF EnqueueAppend, AfterEmit
    <3>2. PICK n, f, c : n = Len(emitted) /\ f = flushed /\ c = aggCounters.BatchesFlushed
      OBVIOUS
    <3>3. n \in Nat /\ f \in Nat /\ c \in Nat
      BY <3>2, CountersNat
    <3>4. n = f + 1 /\ n + 0 <= c /\ c <= MaxFlushes + (IF final THEN 1 ELSE 0)
      BY <1>1, <3>2 DEF AgentInv, HandOver
    <3>5. n = (f + 1) + 0
      BY <3>3, <3>4, SMTT(30)
    <3> QED BY <2>1, <3>1, <3>2, <3>4, <3>5 DEF HandOver
  <2> QED BY <1>1, <2>2, <2>3
<1> QED BY <1>2, <1>3, <1>4, <1>5, <1>6, <1>7 DEF AgentInv

\* Delivery and the backend move no connection.
LEMMA DeliverAgent ==
  ASSUME AgentInv, Deliver \/ Surroundings
  PROVE  AgentInv'
<1>1. (Run \/ Environment) /\ UNCHANGED <<aggVars, agentVars>>
  BY DEF Deliver, Surroundings
<1>2. IInv'
  BY <1>1, NextIInv DEF AgentInv, Next
<1>3. AggInv'
  BY <1>1, SameAgg DEF AgentInv
<1>4. Known' /\ UNCHANGED flushed
  BY <1>1, KnownRun DEF AgentInv
<1>5. Control'
  BY <1>1 DEF AgentInv, Control, aggVars, agentVars
<1>6. Conserved'
  BY <1>1, ConservedSame DEF AgentInv, aggVars, agentVars
<1>7. HandOver'
  BY <1>1, <1>4, HandOverSame DEF AgentInv, aggVars, agentVars
<1> QED BY <1>2, <1>3, <1>4, <1>5, <1>6, <1>7 DEF AgentInv

\* Every step of the process keeps the invariant.
LEMMA AgentStep == AgentInv /\ [AgentNext]_allVars => AgentInv'
<1> SUFFICES ASSUME AgentInv, [AgentNext]_allVars
             PROVE  AgentInv'
  OBVIOUS
<1>1. CASE CollRead \/ HandleForeign \/ CollStop \/ CollFail \/ CloseReader \/ Exit
  BY <1>1, CollectStep
<1>2. CASE HandleAdd
  BY <1>2, HandleAddStep
<1>3. CASE Tick \/ FinalFlush
  BY <1>3, SwapAgent
<1>4. CASE EmitBuild
  BY <1>4, BuildAgent
<1>5. CASE EmitEnqueue
  BY <1>5, EnqueueAgent
<1>6. CASE Deliver \/ Surroundings
  BY <1>6, DeliverAgent
<1>7. CASE UNCHANGED allVars
  <2>1. UNCHANGED <<vars, aggVars, loopPc, final, emitted>>
    BY <1>7 DEF allVars, agentVars
  <2>2. Control'
    BY <1>7 DEF allVars, aggVars, agentVars, AgentInv, Control
  <2> QED BY <2>1, <2>2, ControlStep
<1> QED BY <1>1, <1>2, <1>3, <1>4, <1>5, <1>6, <1>7 DEF AgentNext, Collect, FlushLoop

-----------------------------------------------------------------------------
(* What the graph shows and what is on its way make up what was recorded.  *)

\* Stored and waiting batches are the queued ones, so the sums join up.
LEMMA ConservesFromInv == AgentInv => PipelineConserves
<1> SUFFICES ASSUME AgentInv
             PROVE  PipelineConserves
  OBVIOUS
<1>1. PICK a, b, c, d : Terms(a, b, c, d)
  BY TermsOf DEF AgentInv
<1>2. PICK hand, waiting : /\ hand = IF loopPc = "enqueue" THEN {flushed + 1} ELSE {}
                           /\ waiting = (Queued \cup droppedIds \cup rejectedIds) \ stored
  OBVIOUS
<1>3. flushed \in Nat /\ Len(emitted) \in Nat
  BY CountersNat
<1>4. Len(emitted) = flushed + (IF loopPc = "enqueue" THEN 1 ELSE 0)
  BY DEF AgentInv, HandOver
<1>5. 1..Len(emitted) = 1..flushed \cup hand /\ 1..flushed \cap hand = {}
  <2>1. CASE loopPc = "enqueue"
    <3>1. hand = {flushed + 1} /\ Len(emitted) = flushed + 1
      BY <1>2, <1>4, <2>1
    <3> QED BY <1>3, <3>1, SMTT(30)
  <2>2. CASE loopPc # "enqueue"
    <3>1. hand = {} /\ Len(emitted) = flushed + 0
      BY <1>2, <1>4, <2>2
    <3> QED BY <1>3, <3>1, SMTT(30)
  <2> QED BY <2>1, <2>2
<1>6. 1..flushed = stored \cup waiting /\ stored \cap waiting = {}
  <2>1. stored \subseteq 1..flushed /\ rejectedIds \subseteq 1..flushed /\ sentIds \subseteq stored
    BY DEF AgentInv, Known, IInv, SentIsStored
  <2>2. Queued \subseteq 1..flushed
    <3>1. pending \in Seq(BatchID) /\ \A i \in DOMAIN pending : pending[i] <= flushed
      BY DEF AgentInv, IInv, TypeOK, QueueBehindFlush
    <3>2. \A i \in DOMAIN pending : pending[i] \in BatchID
      BY <3>1, SMTT(30)
    <3>3. \A x \in BatchID : x <= flushed => x \in 1..flushed
      BY <1>3, SMTT(30) DEF BatchID
    <3> QED BY <3>1, <3>2, <3>3 DEF Queued
  <2>3. droppedIds \subseteq 1..flushed
    <3>1. droppedIds \subseteq BatchID /\ \A x \in droppedIds : x <= flushed
      BY DEF AgentInv, IInv, TypeOK, QueueBehindFlush
    <3>2. \A x \in BatchID : x <= flushed => x \in 1..flushed
      BY <1>3, SMTT(30) DEF BatchID
    <3> QED BY <3>1, <3>2
  <2>4. \A x \in 1..flushed : x \in Queued \cup sentIds \cup rejectedIds \cup droppedIds
    BY DEF AgentInv, IInv, NoUncountedLoss
  <2>5. \A x : x \in 1..flushed <=> x \in stored \cup waiting
    BY <1>2, <2>1, <2>2, <2>3, <2>4
  <2> QED BY <1>2, <2>5
<1>7. PICK h, f, g, s, w : /\ h = EmittedConns
                           /\ f = [x \in 1..flushed |-> Connections(emitted[x])]
                           /\ g = [x \in hand |-> Connections(emitted[x])]
                           /\ s = [x \in stored |-> Connections(emitted[x])]
                           /\ w = [x \in waiting |-> Connections(emitted[x])]
  OBVIOUS
<1>8. Joins(h, f, g)
  BY <1>5, <1>7 DEF Joins, EmittedConns
<1>9. Summable(h) /\ Total(h) = d
  BY <1>1, <1>7 DEF AgentInv, Conserved, Terms
<1>10. Summable(f) /\ Summable(g) /\ Total(h) = Total(f) + Total(g)
  BY <1>8, <1>9, TotalJoins
<1>11. Joins(f, s, w)
  BY <1>6, <1>7 DEF Joins
<1>12. Summable(s) /\ Summable(w) /\ Total(f) = Total(s) + Total(w)
  BY <1>10, <1>11, TotalJoins
<1>13. Shown = Total(s)
  <2>1. ASSUME NEW x \in stored
        PROVE  applied[x] * Connections(emitted[x]) = Connections(emitted[x])
    <3>1. x \in BatchID /\ x \in 1..Len(emitted)
      BY <1>5, <1>6 DEF AgentInv, IInv, TypeOK
    <3>2. applied[x] = 1
      BY <3>1 DEF AgentInv, IInv, MergedExactlyOnce
    <3>3. Connections(emitted[x]) \in Nat
      BY <3>1, ConnsTyped DEF AgentInv, Conserved
    <3>4. 1 * Connections(emitted[x]) = Connections(emitted[x])
      BY <3>3, SMTT(30)
    <3> QED BY <3>2, <3>4
  <2>2. [x \in stored |-> applied[x] * Connections(emitted[x])] = s
    BY <1>7, <2>1
  <2> QED BY <2>2 DEF Shown
<1>14. InBatches(hand) = Total(g) /\ InBatches(waiting) = Total(w) /\ Invalid = c
  BY <1>1, <1>7 DEF InBatches, Invalid, InvalidConns, Terms
<1>15. PICK p \in Nat, q \in Nat, r \in Nat : p = Total(s) /\ q = Total(g) /\ r = Total(w)
  BY <1>10, <1>12, TotalNat
<1>16. d = (p + r) + q
  BY <1>9, <1>10, <1>12, <1>15
<1>17. p + a + b + q + r + c = Len(log)
  BY <1>1, <1>16, SMTT(30) DEF Terms
<1>18. Connections(edges) = a /\ Connections(taken) = b
  BY <1>1 DEF Terms
<1>19. Shown + Connections(edges) + Connections(taken) + InBatches(hand) + InBatches(waiting) + Invalid = Len(log)
  BY <1>13, <1>14, <1>15, <1>17, <1>18
<1> QED BY <1>2, <1>19 DEF PipelineConserves

\* The invariant holds in every reachable state of the process.
LEMMA AgentAlways == AgentSpec => []AgentInv
BY AgentInitial, AgentStep, PTL DEF AgentSpec

\* For every queue size, number of flushes and set of observations: nothing the
\* agent records is shown twice or missing unaccounted, from Add to the buckets.
THEOREM Conserves == AgentSpec => []PipelineConserves
BY AgentAlways, ConservesFromInv, PTL

\* Every reachable state of the process is well typed.
THEOREM AgentTyped == AgentSpec => []AgentTypeOK
<1>1. AgentInv => AgentTypeOK
  <2> SUFFICES ASSUME AgentInv
               PROVE  AgentTypeOK
    OBVIOUS
  <2>1. TypeOK /\ Control
    BY DEF AgentInv, IInv
  <2>2. AggShape
    BY DEF AgentInv, AggInv
  <2>3. AggTypeOK
    <3>1. DOMAIN edges \subseteq Node \X Node \X Port /\ \A k \in DOMAIN edges : edges[k] \in Entry
      BY <2>2, EdgeMapIs DEF AggShape, EdgeKey
    <3>2. DOMAIN taken \subseteq Node \X Node \X Port /\ \A k \in DOMAIN taken : taken[k] \in Entry
      BY <2>2, EdgeMapIs DEF AggShape, EdgeKey
    <3> QED BY <2>2, <3>1, <3>2 DEF AggShape, AggTypeOK
  <2> QED BY <2>1, <2>3 DEF AgentTypeOK, Control
<1> QED BY <1>1, AgentAlways, PTL

\* The flush loop uses the delivery client as its specification has it used: every
\* behaviour of the process is one of Delivery, so Delivery's theorems apply to it.
THEOREM AgentDelivers == AgentSpec => Spec
<1>1. AgentInit => Init
  BY DEF AgentInit
<1>2. AgentInv /\ [AgentNext]_allVars => [Next]_vars
  BY AgentStepDelivers
<1> QED BY <1>1, <1>2, AgentAlways, PTL DEF AgentSpec, Spec

\* The aggregator's properties hold in the process too, where the final flush goes
\* past the bound on ticks.
THEOREM AgentCounts == AgentSpec => [](AggregatesExactly /\ SeenWindowExact)
<1>1. AgentInv => AggregatesExactly /\ SeenWindowExact
  BY ExactlyFromInv, WindowFromInv DEF AgentInv
<1> QED BY <1>1, AgentAlways, PTL
=============================================================================
