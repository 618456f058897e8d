--------------------------- MODULE DeliveryProofs ---------------------------
(***************************************************************************)
(* Proofs about the delivery client, for every queue size, every number of *)
(* batches and retries, and every set of refused batches.                  *)
(***************************************************************************)
EXTENDS Delivery, SequenceTheorems, FiniteSetTheorems, TLAPS

-----------------------------------------------------------------------------
(* The inductive invariant: TypeOK and the safety properties, strengthened *)
(* by what ties the queue, the batch in flight and the answer together.    *)

\* Enqueue between its two halves: the batch in hand is the next one, and the
\* place it made is still free.
EnqueuePending ==
  enq # 0 => enq = flushed + 1 /\ Len(pending) < MaxSize

\* What is queued was flushed, and what was evicted is older than all of it.
QueueBehindFlush ==
  /\ \A i \in DOMAIN pending : pending[i] <= flushed
  /\ \A d \in droppedIds : d <= flushed /\ \A i \in DOMAIN pending : d < pending[i]

\* An exchange is open only while Run posts, an accepted answer means the batch
\* is stored, and Run pops only what was settled.
ExchangeSound ==
  /\ wire # "idle" => pc \in {"post", "drainPost"}
  /\ pc \in {"post", "backoff", "pop", "drainPost", "drainPop"} => cur \in BatchID
  /\ Accepted(wire) => cur \in stored
  /\ pc \in {"pop", "drainPop"} => cur \in sentIds \cup rejectedIds

IInv ==
  /\ TypeOK
  /\ QueueBounded
  /\ OldestFirst
  /\ EnqueuePending
  /\ QueueBehindFlush
  /\ HoldsHeadOrEvicted
  /\ NoUncountedLoss
  /\ ExchangeSound
  /\ SentIsStored
  /\ MergedExactlyOnce

-----------------------------------------------------------------------------
(* Lemmas about the operators.                                             *)

\* A function on 1..n is a sequence of length n.
LEMMA FunctionIsSeq ==
  ASSUME NEW S, NEW n \in Nat, NEW f \in [1..n -> S]
  PROVE  f \in Seq(S) /\ Len(f) = n /\ DOMAIN f = 1..n
<1>1. f \in Seq(S)
  BY SeqDef
<1>2. DOMAIN f = 1..n
  OBVIOUS
<1>3. Len(f) \in Nat /\ DOMAIN f = 1..Len(f)
  BY <1>1, LenProperties
<1>4. Len(f) = n
  BY <1>2, <1>3, SMTT(30)
<1> QED BY <1>1, <1>2, <1>4

\* pop by id leaves a queue no longer than before whose entries are entries of
\* the old one, in the same order, and loses at most the batch it was asked for.
LEMMA PoppedFacts ==
  ASSUME NEW s \in Seq(BatchID), NEW b \in BatchID,
         \A i, j \in DOMAIN s : i < j => s[i] < s[j]
  PROVE  /\ Popped(s, b) \in Seq(BatchID)
         /\ Len(Popped(s, b)) <= Len(s)
         /\ \A i \in DOMAIN Popped(s, b) : \E j \in DOMAIN s : Popped(s, b)[i] = s[j]
         /\ \A i, j \in DOMAIN Popped(s, b) : i < j => Popped(s, b)[i] < Popped(s, b)[j]
         /\ \A j \in DOMAIN s : s[j] = b \/ \E i \in DOMAIN Popped(s, b) : Popped(s, b)[i] = s[j]
<1>1. CASE ~\E i \in DOMAIN s : s[i] = b
  BY <1>1 DEF Popped
<1>2. CASE \E i \in DOMAIN s : s[i] = b
  <2> DEFINE First(k) == k \in DOMAIN s /\ s[k] = b /\ \A j \in DOMAIN s : s[j] = b => k <= j
             i == CHOOSE k \in DOMAIN s : s[k] = b /\ \A j \in DOMAIN s : s[j] = b => k <= j
             r == [j \in 1..(Len(s) - 1) |-> IF j < i THEN s[j] ELSE s[j + 1]]
  <2>1. \E k : First(k)
    <3>1. PICK k \in DOMAIN s : s[k] = b
      BY <1>2
    <3>2. \A j \in DOMAIN s : s[j] = b => k <= j
      BY <3>1 DEF BatchID
    <3> QED BY <3>1, <3>2
  <2>2. First(i)
    BY <2>1
  <2>3. i \in 1..Len(s) /\ Len(s) \in Nat /\ Len(s) >= 1 /\ DOMAIN s = 1..Len(s)
    BY <2>2
  <2>4. Popped(s, b) = r
    BY <1>2 DEF Popped
  <2> HIDE DEF i
  <2>5. r \in Seq(BatchID) /\ Len(r) = Len(s) - 1 /\ DOMAIN r = 1..(Len(s) - 1)
    <3>1. \A j \in 1..(Len(s) - 1) : j \in 1..Len(s) /\ j + 1 \in 1..Len(s)
      BY <2>3
    <3>2. \A j \in 1..Len(s) : s[j] \in BatchID
      BY ElementOfSeq
    <3>3. r \in [1..(Len(s) - 1) -> BatchID]
      BY <3>1, <3>2
    <3>4. Len(s) - 1 \in Nat
      BY <2>3
    <3> HIDE DEF r
    <3> QED BY <3>3, <3>4, FunctionIsSeq
  <2>6. \A j \in DOMAIN r : r[j] = IF j < i THEN s[j] ELSE s[j + 1]
    BY <2>5
  <2> HIDE DEF r
  <2>7. \A j \in DOMAIN r : \E k \in DOMAIN s : r[j] = s[k]
    BY <2>3, <2>5, <2>6
  <2>8. \A j, k \in DOMAIN r : j < k => r[j] < r[k]
    <3> SUFFICES ASSUME NEW j \in DOMAIN r, NEW k \in DOMAIN r, j < k PROVE r[j] < r[k]
      OBVIOUS
    <3>1. /\ j \in DOMAIN s /\ j + 1 \in DOMAIN s /\ k \in DOMAIN s /\ k + 1 \in DOMAIN s
          /\ j \in Int /\ k \in Int /\ i \in Int
      BY <2>3, <2>5
    <3>2. s[j] < s[k] /\ s[j] < s[k + 1] /\ s[j + 1] < s[k + 1]
      BY <3>1
    <3> QED BY <3>1, <3>2, <2>6
  <2>9. ASSUME NEW j \in DOMAIN s, s[j] # b
        PROVE  \E k \in DOMAIN r : r[k] = s[j]
    <3>1. j # i
      BY <2>2, <2>9
    <3>2. CASE j < i
      BY <3>2, <2>3, <2>5, <2>6
    <3>3. CASE j > i
      <4>1. j - 1 \in DOMAIN r /\ r[j - 1] = s[j]
        BY <3>3, <2>3, <2>5, <2>6
      <4> QED BY <4>1
    <3> QED BY <3>1, <3>2, <3>3, <2>3
  <2> QED BY <2>3, <2>4, <2>5, <2>7, <2>8, <2>9
<1> QED BY <1>1, <1>2

-----------------------------------------------------------------------------
(* The invariant is inductive: initially true, and kept by every action.   *)

\* A client that has just been built by New satisfies the invariant.
LEMMA InitIInv == Init => IInv
<1> SUFFICES ASSUME Init PROVE IInv
  OBVIOUS
<1> USE MaxSizeAssumption, BoundsAssumption DEF Init
<1>1. TypeOK
  <2>1. pending \in Seq(BatchID)
    BY EmptySeq
  <2>2. applied \in [BatchID -> Nat]
    OBVIOUS
  <2>3. counters \in [Sent : Nat, Duplicate : Nat, Retried : Nat, Dropped : Nat,
                      Rejected : Nat, QueueHigh : Nat]
    OBVIOUS
  <2> QED BY <2>1, <2>2, <2>3, ZenonT(30) DEF TypeOK, PCs, Wires
<1>2. QueueBounded /\ OldestFirst /\ EnqueuePending /\ QueueBehindFlush
  BY DEF QueueBounded, OldestFirst, EnqueuePending, QueueBehindFlush
<1>3. HoldsHeadOrEvicted /\ ExchangeSound
  BY DEF HoldsHeadOrEvicted, ExchangeSound, Accepted
<1>4. NoUncountedLoss /\ SentIsStored /\ MergedExactlyOnce
  BY DEF NoUncountedLoss, SentIsStored, MergedExactlyOnce
<1> QED BY <1>1, <1>2, <1>3, <1>4 DEF IInv

\* The queue's part of the invariant survives a step that touches neither the
\* queue nor what it is compared with.
LEMMA QueueFrame ==
  ASSUME IInv, UNCHANGED <<pending, enq, flushed, droppedIds>>,
         counters'.QueueHigh = counters.QueueHigh
  PROVE  QueueBounded' /\ OldestFirst' /\ EnqueuePending' /\ QueueBehindFlush'
BY DEF IInv, QueueBounded, OldestFirst, EnqueuePending, QueueBehindFlush

\* A batch stays accounted for while the queue is untouched and the histories
\* only grow.
LEMMA LossFrame ==
  ASSUME IInv, UNCHANGED <<pending, flushed>>,
         sentIds \subseteq sentIds', rejectedIds \subseteq rejectedIds',
         droppedIds \subseteq droppedIds'
  PROVE  NoUncountedLoss'
BY DEF IInv, NoUncountedLoss, Queued

\* The backend's gate keeps exactly-once merging, and only adds to the store.
LEMMA IngestKeeps ==
  ASSUME IInv, NEW b \in BatchID, Ingest(b)
  PROVE  /\ stored' \subseteq BatchID
         /\ stored \subseteq stored'
         /\ b \in stored'
         /\ applied' \in [BatchID -> Nat]
         /\ MergedExactlyOnce'
BY DEF IInv, TypeOK, MergedExactlyOnce, Ingest

\* While the bound is not reached there is a next batch.
LEMMA NextBatch ==
  ASSUME IInv, flushed < MaxBatches
  PROVE  flushed + 1 \in BatchID /\ flushed \in Nat
<1>1. flushed \in {0} \cup BatchID
  BY DEF IInv, TypeOK
<1> QED BY <1>1, BoundsAssumption DEF BatchID

\* Enqueue on a full queue: the head leaves, and is older than the rest.
LEMMA EnqueueEvictKeeps ==
  ASSUME IInv, flushed < MaxBatches, EnqueueEvict(flushed + 1)
  PROVE  IInv'
<1> USE DEF IInv, EnqueueEvict
<1>1. flushed + 1 \in BatchID /\ flushed \in Nat
  BY NextBatch
<1>2. /\ Len(pending) = MaxSize /\ MaxSize >= 1
      /\ Len(pending') = Len(pending) - 1
      /\ DOMAIN pending = 1..Len(pending)
      /\ DOMAIN pending' = 1..(Len(pending) - 1)
      /\ \A i \in DOMAIN pending' : pending'[i] = pending[i + 1]
      /\ Head(pending) = pending[1]
      /\ Head(pending) \in BatchID
  BY MaxSizeAssumption DEF TypeOK, QueueBounded
<1>3. TypeOK'
  <2>1. pending' \in Seq(BatchID)
    BY <1>2 DEF TypeOK
  <2>2. counters' \in [Sent : Nat, Duplicate : Nat, Retried : Nat, Dropped : Nat,
                       Rejected : Nat, QueueHigh : Nat]
    BY DEF TypeOK
  <2> QED BY <1>1, <1>2, <2>1, <2>2, ZenonT(30) DEF TypeOK, backendVars
<1>4. QueueBounded' /\ EnqueuePending'
  <2>1. counters'.QueueHigh = counters.QueueHigh
    BY DEF TypeOK
  <2>2. enq' = flushed + 1 /\ enq' # 0 /\ flushed' = flushed
    BY <1>1
  <2> QED BY <1>2, <2>1, <2>2, MaxSizeAssumption DEF QueueBounded, EnqueuePending
<1>5. OldestFirst'
  BY <1>2 DEF OldestFirst
<1>6. QueueBehindFlush'
  BY <1>2 DEF QueueBehindFlush, OldestFirst
<1>7. HoldsHeadOrEvicted'
  BY DEF HoldsHeadOrEvicted
<1>8. NoUncountedLoss'
  <2>1. ASSUME NEW b \in Queued
        PROVE  b \in Queued' \/ b \in droppedIds'
    <3>1. PICK i \in DOMAIN pending : b = pending[i]
      BY DEF Queued
    <3>2. CASE i = 1
      BY <3>1, <3>2, <1>2
    <3>3. CASE i # 1
      <4>1. i - 1 \in DOMAIN pending' /\ pending'[i - 1] = b
        BY <3>1, <3>3, <1>2
      <4> QED BY <4>1 DEF Queued
    <3> QED BY <3>2, <3>3
  <2> QED BY <2>1 DEF NoUncountedLoss
<1>9. ExchangeSound' /\ SentIsStored' /\ MergedExactlyOnce'
  BY DEF ExchangeSound, SentIsStored, MergedExactlyOnce, backendVars
<1> QED BY <1>3, <1>4, <1>5, <1>6, <1>7, <1>8, <1>9

\* What appending to the queue leaves where it was.
LEMMA AppendFacts ==
  ASSUME NEW S, NEW s \in Seq(S), NEW e \in S
  PROVE  /\ Append(s, e) \in Seq(S)
         /\ Len(Append(s, e)) = Len(s) + 1
         /\ DOMAIN s = 1..Len(s)
         /\ DOMAIN Append(s, e) = 1..(Len(s) + 1)
         /\ \A i \in DOMAIN s : Append(s, e)[i] = s[i]
         /\ Append(s, e)[Len(s) + 1] = e
  OBVIOUS

\* Enqueue's append: the new batch is younger than all that is queued, and the
\* place for it is free.
LEMMA EnqueueAppendKeeps ==
  ASSUME IInv, flushed < MaxBatches, EnqueueAppend(flushed + 1)
  PROVE  IInv'
<1> USE DEF IInv, EnqueueAppend, Appended
<1>1. flushed + 1 \in BatchID /\ flushed \in Nat
  BY NextBatch
<1>2. Len(pending) < MaxSize
  BY <1>1 DEF Room, EnqueuePending
<1>3. /\ pending' \in Seq(BatchID)
      /\ Len(pending') = Len(pending) + 1
      /\ DOMAIN pending = 1..Len(pending)
      /\ DOMAIN pending' = 1..(Len(pending) + 1)
      /\ \A i \in DOMAIN pending : pending'[i] = pending[i]
      /\ pending'[Len(pending) + 1] = flushed + 1
  <2>1. pending \in Seq(BatchID)
    BY DEF TypeOK
  <2>2. pending' = Append(pending, flushed + 1)
    OBVIOUS
  <2> HIDE DEF IInv, EnqueueAppend
  <2> QED BY <1>1, <2>1, <2>2, AppendFacts
<1>4. TypeOK'
  <2>1. counters' \in [Sent : Nat, Duplicate : Nat, Retried : Nat, Dropped : Nat,
                       Rejected : Nat, QueueHigh : Nat]
    <3> DEFINE high == IF Len(pending) + 1 > counters.QueueHigh
                       THEN Len(pending) + 1 ELSE counters.QueueHigh
    <3>1. high \in Nat
      BY DEF TypeOK
    <3>2. counters' = [counters EXCEPT !.QueueHigh = high]
      BY DEF TypeOK
    <3> HIDE DEF high
    <3> QED BY <3>1, <3>2, ZenonT(30) DEF TypeOK
  <2> QED BY <1>1, <1>3, <2>1, ZenonT(30) DEF TypeOK, backendVars, historyVars
<1>5. QueueBounded' /\ EnqueuePending'
  BY <1>2, <1>3, MaxSizeAssumption DEF QueueBounded, EnqueuePending, TypeOK
<1>6. /\ \A i \in DOMAIN pending : pending[i] \in Int /\ pending[i] <= flushed
      /\ flushed' = flushed + 1
      /\ droppedIds' = droppedIds
      /\ \A d \in droppedIds : d \in Int /\ d <= flushed
  <2>1. \A i \in DOMAIN pending : pending[i] \in BatchID
    BY <1>3, ElementOfSeq DEF TypeOK
  <2>2. droppedIds' = droppedIds /\ droppedIds \subseteq BatchID
    BY DEF TypeOK, historyVars
  <2> QED BY <2>1, <2>2 DEF BatchID, QueueBehindFlush
<1>7. OldestFirst'
  BY <1>1, <1>3, <1>6 DEF OldestFirst
<1>8. QueueBehindFlush'
  <2>1. \A i \in DOMAIN pending' : pending'[i] <= flushed'
    BY <1>1, <1>3, <1>6
  <2>2. ASSUME NEW d \in droppedIds', NEW i \in DOMAIN pending'
        PROVE  d < pending'[i]
    BY <1>1, <1>3, <1>6 DEF QueueBehindFlush
  <2> QED BY <1>1, <1>6, <2>1, <2>2 DEF QueueBehindFlush
<1>9. HoldsHeadOrEvicted'
  <2>1. pending # <<>> => Head(pending') = Head(pending) /\ pending' # <<>>
    <3>1. pending \in Seq(BatchID)
      BY DEF TypeOK
    <3> HIDE DEF IInv, EnqueueAppend
    <3> QED BY <1>3, <3>1
  <2> QED BY <2>1, <1>6 DEF HoldsHeadOrEvicted
<1>10. NoUncountedLoss'
  BY <1>1, <1>3 DEF NoUncountedLoss, Queued, historyVars
<1>11. ExchangeSound' /\ SentIsStored' /\ MergedExactlyOnce'
  BY DEF ExchangeSound, SentIsStored, MergedExactlyOnce, backendVars, historyVars
<1> QED BY <1>4, <1>5, <1>7, <1>8, <1>9, <1>10, <1>11

\* Pop: what leaves is settled, and the order of the rest is kept.
LEMMA PopKeeps ==
  ASSUME IInv, Pop
  PROVE  IInv'
<1> USE DEF IInv, Pop
<1>1. cur \in BatchID /\ cur \in sentIds \cup rejectedIds
  BY DEF ExchangeSound
<1>2. /\ pending' \in Seq(BatchID)
      /\ Len(pending') <= Len(pending)
      /\ \A i \in DOMAIN pending' : \E j \in DOMAIN pending : pending'[i] = pending[j]
      /\ \A i, j \in DOMAIN pending' : i < j => pending'[i] < pending'[j]
      /\ \A j \in DOMAIN pending :
           pending[j] = cur \/ \E i \in DOMAIN pending' : pending'[i] = pending[j]
  BY <1>1, PoppedFacts DEF TypeOK, OldestFirst
<1>3. TypeOK'
  BY <1>2 DEF TypeOK, PCs, backendVars, historyVars
<1>4. QueueBounded' /\ EnqueuePending'
  <2>1. Len(pending) \in Nat /\ Len(pending') \in Nat
    BY <1>2 DEF TypeOK
  <2> QED BY <2>1, <1>2, MaxSizeAssumption DEF QueueBounded, EnqueuePending
<1>5. OldestFirst'
  BY <1>2 DEF OldestFirst
<1>6. QueueBehindFlush'
  BY <1>2 DEF QueueBehindFlush, historyVars
<1>7. NoUncountedLoss'
  <2>1. \A b \in Queued : b = cur \/ b \in Queued'
    BY <1>2 DEF Queued
  <2> QED BY <2>1, <1>1 DEF NoUncountedLoss, historyVars
<1>8. HoldsHeadOrEvicted' /\ ExchangeSound'
  BY DEF HoldsHeadOrEvicted, ExchangeSound, Accepted
<1>9. SentIsStored' /\ MergedExactlyOnce'
  BY DEF SentIsStored, MergedExactlyOnce, backendVars, historyVars
<1> QED BY <1>3, <1>4, <1>5, <1>6, <1>7, <1>8, <1>9

\* Peek and drain's peek take the head of the queue.
LEMMA PeekKeeps ==
  ASSUME IInv, Peek \/ DrainPeek
  PROVE  IInv'
<1> USE DEF Peek, DrainPeek, BeginPost, PeekOldest
<1>0. pending # <<>> => Head(pending) \in BatchID
  BY DEF IInv, TypeOK
<1>1. TypeOK'
  BY <1>0, SMTT(30) DEF IInv, TypeOK, PCs, Wires, backendVars, historyVars
<1>2. QueueBounded' /\ OldestFirst' /\ EnqueuePending' /\ QueueBehindFlush'
  BY QueueFrame DEF IInv, TypeOK, historyVars
<1>3. HoldsHeadOrEvicted'
  BY DEF IInv, HoldsHeadOrEvicted, historyVars
<1>4. NoUncountedLoss'
  BY LossFrame DEF historyVars
<1>5. ExchangeSound'
  BY <1>0 DEF IInv, ExchangeSound, Accepted, backendVars, historyVars
<1>6. SentIsStored' /\ MergedExactlyOnce'
  BY DEF IInv, SentIsStored, MergedExactlyOnce, backendVars, historyVars
<1> QED BY <1>1, <1>2, <1>3, <1>4, <1>5, <1>6 DEF IInv

\* The waits and the backoff only move Run, or repeat the post in hand.
LEMMA WaitKeeps ==
  ASSUME IInv, WaitWake \/ WaitCancelled \/ BackoffElapsed \/ BackoffCancelled
  PROVE  IInv'
<1> USE DEF WaitWake, WaitCancelled, BackoffElapsed, BackoffCancelled, BeginPost
<1>1. TypeOK'
  BY ZenonT(30) DEF IInv, TypeOK, PCs, Wires, backendVars, historyVars
<1>2. QueueBounded' /\ OldestFirst' /\ EnqueuePending' /\ QueueBehindFlush'
  BY QueueFrame, ZenonT(30) DEF IInv, TypeOK, historyVars
<1>3. HoldsHeadOrEvicted'
  <2>1. CASE BackoffElapsed
    BY <2>1 DEF IInv, HoldsHeadOrEvicted, historyVars
  <2>2. CASE WaitWake \/ WaitCancelled \/ BackoffCancelled
    BY <2>2, ZenonT(30) DEF HoldsHeadOrEvicted
  <2> QED BY <2>1, <2>2, ZenonT(30)
<1>4. NoUncountedLoss'
  BY LossFrame, ZenonT(30) DEF historyVars
<1>5. ExchangeSound'
  BY ZenonT(30) DEF IInv, ExchangeSound, Accepted, backendVars, historyVars
<1>6. SentIsStored' /\ MergedExactlyOnce'
  BY ZenonT(30) DEF IInv, SentIsStored, MergedExactlyOnce, backendVars, historyVars
<1> QED BY <1>1, <1>2, <1>3, <1>4, <1>5, <1>6 DEF IInv

\* An accepted answer, in the loop or in the drain: the batch is stored.
LEMMA AcceptedKeeps ==
  ASSUME IInv, ReceiveAccepted \/ DrainReceiveAccepted
  PROVE  IInv'
<1> USE DEF ReceiveAccepted, DrainReceiveAccepted, CountSent
<1>0. cur \in BatchID /\ cur \in stored
  BY DEF IInv, ExchangeSound
<1>1. TypeOK'
  <2>1. counters' \in [Sent : Nat, Duplicate : Nat, Retried : Nat, Dropped : Nat,
                       Rejected : Nat, QueueHigh : Nat]
    <3> DEFINE dup == IF wire = "200" THEN counters.Duplicate + 1 ELSE counters.Duplicate
    <3>1. dup \in Nat /\ counters.Sent + 1 \in Nat
      BY DEF IInv, TypeOK
    <3>2. CASE ReceiveAccepted
      <4>1. counters' = [counters EXCEPT !.Sent = counters.Sent + 1, !.Duplicate = dup]
        BY <3>2 DEF IInv, TypeOK
      <4> HIDE DEF dup, ReceiveAccepted, DrainReceiveAccepted
      <4> QED BY <3>1, <4>1, ZenonT(30) DEF IInv, TypeOK
    <3>3. CASE DrainReceiveAccepted
      <4>1. counters' = [counters EXCEPT !.Sent = counters.Sent + 1]
        BY <3>3
      <4> HIDE DEF dup, ReceiveAccepted, DrainReceiveAccepted
      <4> QED BY <3>1, <4>1, SMTT(30) DEF IInv, TypeOK
    <3> QED BY <3>2, <3>3
  <2> QED BY <1>0, <2>1, ZenonT(30) DEF IInv, TypeOK, PCs, Wires, backendVars
<1>2. QueueBounded' /\ OldestFirst' /\ EnqueuePending' /\ QueueBehindFlush'
  BY QueueFrame, ZenonT(30) DEF IInv, TypeOK, historyVars
<1>3. HoldsHeadOrEvicted'
  BY DEF IInv, HoldsHeadOrEvicted, historyVars
<1>4. NoUncountedLoss'
  BY LossFrame DEF historyVars
<1>5. ExchangeSound'
  BY DEF IInv, ExchangeSound, Accepted, backendVars, historyVars
<1>6. SentIsStored' /\ MergedExactlyOnce'
  BY <1>0 DEF IInv, SentIsStored, MergedExactlyOnce, backendVars
<1> QED BY <1>1, <1>2, <1>3, <1>4, <1>5, <1>6 DEF IInv

\* A refusal, a failure or the end of the drain: the exchange is closed.
LEMMA FailedKeeps ==
  ASSUME IInv, ReceivePermanent \/ ReceiveRetryable \/ DrainFailed
  PROVE  IInv'
<1> USE DEF ReceivePermanent, ReceiveRetryable, DrainFailed, Abandon
<1>0. cur \in BatchID
  BY DEF IInv, ExchangeSound
<1>1. TypeOK'
  <2>1. counters' \in [Sent : Nat, Duplicate : Nat, Retried : Nat, Dropped : Nat,
                       Rejected : Nat, QueueHigh : Nat]
    <3>1. \/ counters' = [counters EXCEPT !.Rejected = counters.Rejected + 1]
          \/ counters' = [counters EXCEPT !.Retried = counters.Retried + 1]
          \/ counters' = counters
      OBVIOUS
    <3>2. counters \in [Sent : Nat, Duplicate : Nat, Retried : Nat, Dropped : Nat,
                        Rejected : Nat, QueueHigh : Nat]
      BY DEF IInv, TypeOK
    <3> HIDE DEF ReceivePermanent, ReceiveRetryable, DrainFailed
    <3> QED BY <3>1, <3>2
  <2>2. late' \subseteq BatchID
    BY <1>0 DEF IInv, TypeOK, backendVars
  <2> QED BY <1>0, <2>1, <2>2, ZenonT(30) DEF IInv, TypeOK, PCs, Wires, backendVars, historyVars
<1>2. QueueBounded' /\ OldestFirst' /\ EnqueuePending' /\ QueueBehindFlush'
  BY QueueFrame DEF IInv, TypeOK, historyVars
<1>3. HoldsHeadOrEvicted'
  BY DEF IInv, HoldsHeadOrEvicted, historyVars
<1>4. NoUncountedLoss'
  BY LossFrame DEF historyVars
<1>5. ExchangeSound'
  BY DEF IInv, ExchangeSound, Accepted, backendVars, historyVars
<1>6. SentIsStored' /\ MergedExactlyOnce'
  BY DEF IInv, SentIsStored, MergedExactlyOnce, backendVars, historyVars
<1> QED BY <1>1, <1>2, <1>3, <1>4, <1>5, <1>6 DEF IInv

\* The backend answers the request in hand; an ingest goes through the gate.
LEMMA ServerAnswerKeeps ==
  ASSUME IInv, ServerAnswer
  PROVE  IInv'
<1> USE DEF ServerAnswer
<1>0. /\ cur \in BatchID /\ cur' = cur /\ pc' = pc
      /\ wire' \in {"202", "200", "4xx", "5xx"}
      /\ Accepted(wire') => Ingest(cur)
      /\ Ingest(cur) \/ UNCHANGED <<stored, applied>>
  BY DEF IInv, ExchangeSound, Accepted
<1>a. /\ stored' \subseteq BatchID /\ stored \subseteq stored'
      /\ applied' \in [BatchID -> Nat] /\ MergedExactlyOnce'
      /\ Ingest(cur) => cur \in stored'
  BY <1>0, IngestKeeps, ZenonT(30) DEF IInv, TypeOK, MergedExactlyOnce
<1>1. TypeOK'
  BY <1>0, <1>a, ZenonT(30) DEF IInv, TypeOK, Wires, historyVars
<1>2. QueueBounded' /\ OldestFirst' /\ EnqueuePending' /\ QueueBehindFlush'
  BY QueueFrame DEF IInv, TypeOK, historyVars
<1>3. HoldsHeadOrEvicted'
  BY DEF IInv, HoldsHeadOrEvicted, historyVars
<1>4. NoUncountedLoss'
  BY LossFrame DEF historyVars
<1>5. ExchangeSound'
  BY <1>0, <1>a DEF IInv, ExchangeSound, historyVars
<1>6. SentIsStored' /\ MergedExactlyOnce'
  BY <1>a DEF IInv, SentIsStored, historyVars
<1> QED BY <1>1, <1>2, <1>3, <1>4, <1>5, <1>6 DEF IInv

\* A late request goes through the same gate.
LEMMA LateRequestKeeps ==
  ASSUME IInv, LateRequest
  PROVE  IInv'
<1> USE DEF LateRequest
<1>0. PICK b \in late : Ingest(b) \/ UNCHANGED <<stored, applied>>
  OBVIOUS
<1>a. /\ stored' \subseteq BatchID /\ stored \subseteq stored'
      /\ applied' \in [BatchID -> Nat] /\ MergedExactlyOnce'
  BY <1>0, IngestKeeps, ZenonT(30) DEF IInv, TypeOK, MergedExactlyOnce
<1>b. UNCHANGED <<clientVars, historyVars, drainTried, cancelled, flushed, enq>>
  OBVIOUS
<1>c. late' \subseteq late
  OBVIOUS
<1>1. TypeOK'
  BY <1>a, <1>b, <1>c DEF IInv, TypeOK, clientVars, historyVars
<1>2. QueueBounded' /\ OldestFirst' /\ EnqueuePending' /\ QueueBehindFlush'
  BY <1>b, QueueFrame DEF clientVars, historyVars
<1>3. HoldsHeadOrEvicted'
  BY <1>b DEF IInv, HoldsHeadOrEvicted, clientVars, historyVars
<1>4. NoUncountedLoss'
  BY <1>b, LossFrame DEF clientVars, historyVars
<1>5. ExchangeSound'
  BY <1>a, <1>b DEF IInv, ExchangeSound, Accepted, clientVars, historyVars
<1>6. SentIsStored' /\ MergedExactlyOnce'
  BY <1>a, <1>b DEF IInv, SentIsStored, historyVars
<1> QED BY <1>1, <1>2, <1>3, <1>4, <1>5, <1>6 DEF IInv

\* The end of ctx, drain's deadline and a stutter change no queue or exchange.
LEMMA PassiveKeeps ==
  ASSUME IInv, Cancel \/ DrainDeadline \/ UNCHANGED vars
  PROVE  IInv'
<1> USE DEF Cancel, DrainDeadline, vars, clientVars, backendVars, historyVars
<1>1. TypeOK'
  <2>1. /\ cancelled' \in BOOLEAN /\ drainOver' \in BOOLEAN
        /\ UNCHANGED <<pending, signal, counters, pc, cur, wire, late, stored, applied,
                       sentIds, rejectedIds, droppedIds, drainTried, flushed, enq>>
    BY ZenonT(30) DEF IInv, TypeOK
  <2> HIDE DEF Cancel, DrainDeadline, vars
  <2> QED BY <2>1 DEF IInv, TypeOK
<1>2. QueueBounded' /\ OldestFirst' /\ EnqueuePending' /\ QueueBehindFlush'
  BY QueueFrame DEF IInv, TypeOK, historyVars
<1>3. HoldsHeadOrEvicted'
  BY DEF IInv, HoldsHeadOrEvicted, historyVars
<1>4. NoUncountedLoss'
  BY LossFrame DEF historyVars
<1>5. ExchangeSound'
  BY DEF IInv, ExchangeSound, Accepted, backendVars, historyVars
<1>6. SentIsStored' /\ MergedExactlyOnce'
  BY DEF IInv, SentIsStored, MergedExactlyOnce, backendVars, historyVars
<1> QED BY <1>1, <1>2, <1>3, <1>4, <1>5, <1>6, SMTT(30) DEF IInv

-----------------------------------------------------------------------------
(* The theorems.                                                           *)

\* Every step of the client, the flush loop and the backend keeps the invariant.
LEMMA NextIInv == IInv /\ [Next]_vars => IInv'
<1> SUFFICES ASSUME IInv, [Next]_vars PROVE IInv'
  OBVIOUS
<1>1. CASE Enqueue
  BY <1>1, EnqueueEvictKeeps, EnqueueAppendKeeps DEF Enqueue
<1>2. CASE Run
  BY <1>2, PeekKeeps, WaitKeeps, AcceptedKeeps, FailedKeeps, PopKeeps DEF Run
<1>3. CASE Environment
  BY <1>3, ServerAnswerKeeps, LateRequestKeeps, PassiveKeeps DEF Environment
<1>4. CASE UNCHANGED vars
  BY <1>4, PassiveKeeps
<1> QED BY <1>1, <1>2, <1>3, <1>4 DEF Next, Returned

\* The invariant holds in every reachable state.
THEOREM Invariance == Spec => []IInv
BY InitIInv, NextIInv, PTL DEF Spec

\* Every reachable state of the client and the backend is well typed.
THEOREM TypeCorrect == Spec => []TypeOK
<1>1. IInv => TypeOK
  BY DEF IInv
<1> QED BY <1>1, Invariance, PTL

\* For every AGENT_MAX_PENDING_BATCHES, the queue stays within it, also between
\* the two critical sections of Enqueue.
THEOREM QueueIsBounded == Spec => []QueueBounded
<1>1. IInv => QueueBounded
  BY DEF IInv
<1> QED BY <1>1, Invariance, PTL

\* The queue is in flush order, and Run's copy is its head or was counted as
\* dropped, so eviction under a running attempt loses no other batch.
THEOREM HeadOrEvicted == Spec => [](OldestFirst /\ HoldsHeadOrEvicted)
<1>1. IInv => OldestFirst /\ HoldsHeadOrEvicted
  BY DEF IInv
<1> QED BY <1>1, Invariance, PTL

\* No batch handed to Enqueue disappears without being acknowledged or counted.
THEOREM NothingLostUncounted == Spec => []NoUncountedLoss
<1>1. IInv => NoUncountedLoss
  BY DEF IInv
<1> QED BY <1>1, Invariance, PTL

\* A batch the client counts as sent is in the backend's store.
THEOREM SentBatchesStored == Spec => []SentIsStored
<1>1. IInv => SentIsStored
  BY DEF IInv
<1> QED BY <1>1, Invariance, PTL

\* Retries, late requests and the drain never make the backend merge a batch
\* twice.
THEOREM ExactlyOnce == Spec => []MergedExactlyOnce
<1>1. IInv => MergedExactlyOnce
  BY DEF IInv
<1> QED BY <1>1, Invariance, PTL

\* One step takes out of the queue at most its head, and only when the head is
\* settled or evicted.
LEMMA StepLeavesOnlySettled ==
  ASSUME IInv, [Next]_vars
  PROVE  [\A b \in Queued \ Queued' :
            /\ b = Head(pending)
            /\ b \in droppedIds' \cup sentIds \cup rejectedIds]_vars
<1> SUFFICES ASSUME NEW b \in Queued, b \notin Queued'
             PROVE  b = Head(pending) /\ b \in droppedIds' \cup sentIds \cup rejectedIds
  OBVIOUS
<1>0. PICK k \in DOMAIN pending : b = pending[k]
  BY DEF Queued
<1>a. /\ pending \in Seq(BatchID) /\ Len(pending) \in Nat
      /\ DOMAIN pending = 1..Len(pending) /\ Len(pending) >= 1
      /\ Head(pending) = pending[1]
  BY <1>0, SMTT(30) DEF IInv, TypeOK
<1>1. CASE UNCHANGED pending
  BY <1>1 DEF Queued
<1>2. CASE EnqueueEvict(flushed + 1)
  <2>1. \A i \in 2..Len(pending) : i - 1 \in DOMAIN pending' /\ pending'[i - 1] = pending[i]
    BY <1>2, <1>a DEF EnqueueEvict
  <2>2. k = 1
    BY <2>1, <1>0, <1>a DEF Queued
  <2> QED BY <1>2, <2>2, <1>0, <1>a DEF EnqueueEvict
<1>3. CASE EnqueueAppend(flushed + 1)
  <2>1. flushed + 1 \in Int
    BY DEF IInv, TypeOK, BatchID
  <2>2. k \in DOMAIN pending' /\ pending'[k] = pending[k]
    BY <1>3, <1>0, <1>a, <2>1 DEF EnqueueAppend, Appended
  <2> QED BY <2>2, <1>0 DEF Queued
<1>4. CASE Pop
  <2>1. cur \in BatchID /\ cur \in sentIds \cup rejectedIds
    BY <1>4 DEF IInv, ExchangeSound, Pop
  <2>2. b = cur
    <3>1. \A i, j \in DOMAIN pending : i < j => pending[i] < pending[j]
      BY DEF IInv, OldestFirst
    <3>2. pending[k] = cur \/ \E i \in DOMAIN Popped(pending, cur) :
                                Popped(pending, cur)[i] = pending[k]
      BY <1>0, <1>a, <2>1, <3>1, PoppedFacts, SMTT(30)
    <3>3. pending' = Popped(pending, cur)
      BY <1>4 DEF Pop
    <3> QED BY <1>0, <3>2, <3>3 DEF Queued
  <2>3. b \notin droppedIds
    <3>1. \A d \in droppedIds : d < b
      BY <1>0 DEF IInv, QueueBehindFlush
    <3>2. b \in Int
      BY <2>1, <2>2, SMTT(30) DEF BatchID
    <3> QED BY <3>1, <3>2
  <2>4. b = Head(pending)
    BY <1>4, <2>2, <2>3 DEF IInv, HoldsHeadOrEvicted, Pop
  <2> QED BY <2>1, <2>2, <2>4
<1> QED
  BY <1>1, <1>2, <1>3, <1>4, ZenonT(30)
  DEF Next, Enqueue, Run, Environment, Returned, vars, clientVars, Peek, WaitWake,
      WaitCancelled, ReceiveAccepted, ReceivePermanent, ReceiveRetryable, BackoffElapsed,
      BackoffCancelled, DrainPeek, DrainReceiveAccepted, DrainFailed, DrainDeadline,
      ServerAnswer, LateRequest, Cancel

\* A batch leaves the queue only from the front, and only when it was evicted
\* and counted, acknowledged or refused.
THEOREM LeavesSettled == Spec => LeavesOnlySettled
BY Invariance, StepLeavesOnlySettled, PTL DEF Spec, LeavesOnlySettled

=============================================================================
