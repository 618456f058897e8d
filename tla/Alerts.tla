------------------------------- MODULE Alerts -------------------------------
(***************************************************************************)
(* Chat alerts and their two triggers: canary contacts found by ingest     *)
(* (api/routes.py, _count_canary_contacts) and the periodic evaluator      *)
(* (app/main.py, evaluate_once and _anomaly_loop).  Both put messages on a *)
(* bounded queue that one dispatcher task empties (alerts/dispatch.py).    *)
(*                                                                         *)
(* All of it runs on one event loop: a step is what happens between two    *)
(* awaits.  An anomaly is a number, in the order of the response.  The     *)
(* ghosts only serve the properties.                                       *)
(***************************************************************************)
EXTENDS Integers, Sequences, FiniteSets, Functions

CONSTANTS
  AlertBatch,     \* ids of the batches agents post
  Contacts,       \* per batch, the <<source, canary, port>> keys of its canary edges, in order
  Anomaly,        \* anomalies that can stand
  IsCanary,       \* those of type CANARY_CONTACT
  SeverityRank,   \* SEVERITY_RANK of each
  Floor,          \* SEVERITY_RANK of ALERT_MIN_SEVERITY
  MaxAnomalies,   \* GRAPH_MAX_EDGES, which caps the response too
  Channels,       \* the configured channels, in order
  QueueCapacity,  \* QUEUE_CAPACITY
  MaxAttempts,    \* ATTEMPTS
  Cooldown,       \* ALERT_CANARY_COOLDOWN_SECONDS
  TableLimit,     \* COOLDOWN_TABLE_LIMIT
  MaxStimuli      \* bound: batches posted, evaluator passes, seconds, and changes of anomalies

CanaryKey == UNION {Range(Contacts[b]) : b \in AlertBatch}

ASSUME AlertsAssumption ==
  /\ QueueCapacity \in Nat \ {0} /\ MaxAttempts \in Nat \ {0} /\ Cooldown \in Nat
  /\ TableLimit \in Nat \ {0} /\ MaxAnomalies \in Nat \ {0}
  /\ Channels # <<>> /\ Channels \in Seq(Range(Channels)) /\ IsInjective(Channels)
  /\ \A b \in AlertBatch : Contacts[b] \in Seq(CanaryKey)
  /\ Anomaly \subseteq Nat /\ IsCanary \subseteq Anomaly

VARIABLES
  stored,       \* batches the repository has taken
  committed,    \* batches whose handler still awaits the repository's outcome
  contacts,     \* record_canary_contact calls per batch
  canarySent,   \* _canary_sent: time of the last message per key
  monotonic,    \* the monotonic clock
  standing,     \* anomalies that hold now
  active,       \* _anomaly_loop's active, or NotYet
  found,        \* the response a pass has read and not used yet, or NotYet
  queue,        \* _queue
  job,          \* the message being delivered, or Idle
  alerts,       \* record_alert counters per channel
  cancelled,    \* the lifespan has ended
  stimuli,      \* see MaxStimuli
  alertsTaken,  \* ghost: messages submitted
  tried,        \* ghost: times of the messages about each key
  told,         \* ghost: anomalies announced by the latest pass
  seen          \* ghost: anomalies standing since start-up or since a pass saw them

ingestVars == <<stored, committed, contacts, canarySent, tried>>
evalVars == <<active, found, told, seen>>
queueVars == <<queue, alerts, alertsTaken>>
alertVars == <<ingestVars, evalVars, queueVars, job, standing, monotonic, cancelled, stimuli>>

Stimulus == stimuli < MaxStimuli /\ stimuli' = stimuli + 1

NotYet == <<>>
Some(x) == <<x>>
Idle == [message |-> 0]

-----------------------------------------------------------------------------
(* alerts/dispatch.py: triggers.                                           *)

\* Mutant: a full queue is counted for the first channel only.
CountDroppedOnce(a) == [a EXCEPT ![Channels[1]].dropped = @ + 1]

CountDropped(a) == [c \in DOMAIN a |-> [a[c] EXCEPT !.dropped = @ + 1]]

Counter == [sent |-> 0, failed |-> 0, dropped |-> 0]
Queues == [queue |-> queue, alerts |-> alerts, taken |-> alertsTaken]

\* Mutant: one message too many.
HasRoomForOneMore(q) == Len(q) <= QueueCapacity

HasRoom(q) == Len(q) < QueueCapacity

\* submit, on the queue q.  Messages are numbered in the order of submission.
Submit(q) ==
  IF HasRoom(q.queue)
  THEN [q EXCEPT !.queue = Append(@, q.taken + 1), !.taken = @ + 1]
  ELSE [q EXCEPT !.alerts = CountDropped(@), !.taken = @ + 1]

SetQueues(q) == queue' = q.queue /\ alerts' = q.alerts /\ alertsTaken' = q.taken

\* Mutant: the full table is emptied.
FreshNone(table) == <<>>

\* The entries still in their cooldown.
Fresh(table) ==
  [k \in {x \in DOMAIN table : monotonic - table[x] < Cooldown} |-> table[k]]

Stamp(table, key) ==
  [k \in DOMAIN table \cup {key} |-> IF k = key THEN monotonic ELSE table[k]]

\* A contact within the cooldown changes nothing.
Suppressed(s, key) == s

\* notify_canary; the table is only looked through when it is full.
NotifyCanary(s, key) ==
  LET table == IF Cardinality(DOMAIN s.table) >= TableLimit THEN Fresh(s.table) ELSE s.table
  IN  IF key \in DOMAIN s.table /\ monotonic - s.table[key] < Cooldown THEN Suppressed(s, key)
      ELSE [table |-> Stamp(table, key),
            queues |-> Submit(s.queues),
            tried |-> [s.tried EXCEPT ![key] = Append(@, monotonic)]]

\* One key after the other, from s on.
NotifyEach(s, keys) ==
  LET after[n \in 0..Len(keys)] == IF n = 0 THEN s ELSE NotifyCanary(after[n - 1], keys[n])
  IN  after[Len(keys)]

\* _count_canary_contacts, without an await.
CountCanaryContacts(b) ==
  LET s == NotifyEach([table |-> canarySent, queues |-> Queues, tried |-> tried], Contacts[b])
  IN  /\ canarySent' = s.table
      /\ tried' = s.tried
      /\ SetQueues(s.queues)
      /\ contacts' = [contacts EXCEPT ![b] = @ + 1]

-----------------------------------------------------------------------------
(* api/routes.py: ingest_batch, from the repository's outcome on.          *)

\* The repository takes the batch; it takes every id once.
IngestCommits(b) ==
  /\ ~cancelled /\ b \notin stored
  /\ Stimulus
  /\ stored' = stored \cup {b}
  /\ committed' = committed \cup {b}
  /\ UNCHANGED <<contacts, canarySent, tried, evalVars, queueVars, job, standing, monotonic,
                 cancelled>>

\* Only a newly stored batch is counted.
Counts(duplicate) == ~duplicate

\* The handler goes on with INGESTED.
IngestAnswers(b) ==
  /\ ~cancelled /\ b \in committed
  /\ committed' = committed \ {b}
  /\ CountCanaryContacts(b)
  /\ UNCHANGED <<stored, evalVars, job, standing, monotonic, cancelled, stimuli>>

\* An agent posts the batch again; the repository answers ALREADY_INGESTED.
IngestAgain(b) ==
  /\ ~cancelled /\ b \in stored \ committed
  /\ IF Counts(TRUE) THEN CountCanaryContacts(b)
     ELSE UNCHANGED <<contacts, canarySent, tried, queueVars>>
  /\ UNCHANGED <<stored, committed, evalVars, job, standing, monotonic, cancelled, stimuli>>

\* The commit's acknowledgement is lost: the handler fails, the retry is a duplicate,
\* and nobody counts the batch.
IngestAbandoned(b) ==
  /\ ~cancelled /\ b \in committed
  /\ committed' = committed \ {b}
  /\ UNCHANGED <<stored, contacts, canarySent, tried, evalVars, queueVars, job, standing,
                 monotonic, cancelled, stimuli>>

-----------------------------------------------------------------------------
(* app/main.py: the evaluator.                                             *)

\* The first of them, up to the cap.
Response(S) == {a \in S : Cardinality({x \in S : x < a}) < MaxAnomalies}

\* evaluate_once awaits the response to the recent window.
EvaluateRead ==
  /\ ~cancelled /\ found = NotYet
  /\ Stimulus
  /\ found' = Some(Response(standing))
  /\ UNCHANGED <<ingestVars, active, told, seen, queueVars, job, standing, monotonic, cancelled>>

\* notify_anomalies announces those of the right kind and severity.
Announced(new) == {a \in new \ IsCanary : SeverityRank[a] >= Floor}

\* Mutant: the first pass compares with nothing.
NewOnPassFromEmpty(result) == IF active = NotYet THEN result ELSE result \ active[1]

\* What evaluate_once hands to the alerts: nothing on the first pass.
NewOnPass(result) == IF active = NotYet THEN {} ELSE result \ active[1]

\* The rest of evaluate_once, without an await.
EvaluateUse ==
  /\ ~cancelled /\ found # NotYet
  /\ told' = Announced(NewOnPass(found[1]))
  /\ SetQueues(IF told' # {} THEN Submit(Queues) ELSE Queues)
  /\ active' = found
  /\ found' = NotYet
  /\ seen' = found[1] \cap standing
  /\ UNCHANGED <<ingestVars, job, standing, monotonic, cancelled, stimuli>>

\* A failed pass leaves active alone.
ActiveAfterFailure == active

EvaluateFails ==
  /\ ~cancelled /\ found # NotYet
  /\ active' = ActiveAfterFailure
  /\ found' = NotYet
  /\ UNCHANGED <<ingestVars, told, seen, queueVars, job, standing, monotonic, cancelled,
                 stimuli>>

\* The cluster: an anomaly appears or clears.
Shift(a) ==
  /\ ~cancelled
  /\ Stimulus
  /\ standing' = IF a \in standing THEN standing \ {a} ELSE standing \cup {a}
  /\ seen' = seen \ {a}
  /\ UNCHANGED <<ingestVars, active, found, told, queueVars, job, monotonic, cancelled>>

Second ==
  /\ ~cancelled
  /\ Stimulus
  /\ monotonic' = monotonic + 1
  /\ UNCHANGED <<ingestVars, evalVars, queueVars, job, standing, cancelled>>

-----------------------------------------------------------------------------
(* alerts/dispatch.py: the dispatcher task.                                *)

\* run takes the next message, for the first channel.
Take ==
  /\ ~cancelled /\ job = Idle /\ queue # <<>>
  /\ job' = [message |-> Head(queue), channel |-> 1, attempt |-> 1, step |-> "post"]
  /\ queue' = Tail(queue)
  /\ UNCHANGED <<ingestVars, evalVars, alerts, alertsTaken, standing, monotonic, cancelled, stimuli>>

\* The channel is done with the message; then the next channel's turn.
Settle(result) ==
  /\ alerts' = [alerts EXCEPT ![Channels[job.channel]][result] = @ + 1]
  /\ job' = IF job.channel = Len(Channels) THEN Idle
            ELSE [job EXCEPT !.channel = @ + 1, !.attempt = 1, !.step = "post"]

NextAttempt(n) == n + 1

\* deliver: 2xx is sent; no answer, 429 and 5xx are retried after a sleep; anything
\* else, and an exception, is a failure.
Reply(kind) ==
  /\ ~cancelled /\ job # Idle /\ job.step = "post"
  /\ CASE kind = "success" -> Settle("sent")
       [] kind = "retryable" /\ job.attempt < MaxAttempts ->
            job' = [job EXCEPT !.step = "sleep"] /\ UNCHANGED alerts
       [] OTHER -> Settle("failed")
  /\ UNCHANGED <<ingestVars, evalVars, queue, alertsTaken, standing, monotonic, cancelled, stimuli>>

Retry ==
  /\ ~cancelled /\ job # Idle /\ job.step = "sleep"
  /\ job' = [job EXCEPT !.step = "post", !.attempt = NextAttempt(@)]
  /\ UNCHANGED <<ingestVars, evalVars, queueVars, standing, monotonic, cancelled, stimuli>>

\* The lifespan ends and cancels the tasks; nothing is persisted.
Cancel ==
  /\ ~cancelled
  /\ cancelled' = TRUE
  /\ UNCHANGED <<ingestVars, evalVars, queueVars, job, standing, monotonic, stimuli>>

-----------------------------------------------------------------------------
AlertsInit ==
  /\ stored = {} /\ committed = {}
  /\ contacts = [b \in AlertBatch |-> 0]
  /\ canarySent = <<>>
  /\ monotonic = 0
  /\ standing \in SUBSET Anomaly
  /\ active = NotYet /\ found = NotYet
  /\ queue = <<>> /\ job = Idle
  /\ alerts = [c \in Range(Channels) |-> Counter]
  /\ cancelled = FALSE
  /\ stimuli = 0
  /\ alertsTaken = 0
  /\ tried = [k \in CanaryKey |-> <<>>]
  /\ told = {} /\ seen = standing

Dispatch == Take \/ Retry \/ \E kind \in {"success", "retryable", "rejected"} : Reply(kind)

AlertsNext ==
  \/ \E b \in AlertBatch : IngestCommits(b) \/ IngestAnswers(b) \/ IngestAgain(b) \/ IngestAbandoned(b)
  \/ EvaluateRead \/ EvaluateUse \/ EvaluateFails
  \/ \E a \in Anomaly : Shift(a)
  \/ Second
  \/ Dispatch
  \/ Cancel

\* The dispatcher task always goes on: every post has a timeout and every sleep
\* ends.  Nothing is assumed of the replies.
AlertsFairness == WF_alertVars(Dispatch)

AlertsSpec == AlertsInit /\ [][AlertsNext]_alertVars /\ AlertsFairness

-----------------------------------------------------------------------------
(* Properties.                                                             *)

\* Type invariant.  The queue never exceeds its capacity, nor a job its attempts.
AlertsTypeOK ==
  /\ committed \subseteq stored /\ stored \subseteq AlertBatch
  /\ DOMAIN canarySent \subseteq CanaryKey
  /\ active = NotYet \/ active[1] \subseteq Anomaly
  /\ Len(queue) <= QueueCapacity
  /\ job = Idle \/ (job.channel \in 1..Len(Channels) /\ job.attempt \in 1..MaxAttempts)

\* No alert disappears unaccounted: for every channel, the messages submitted are
\* those sent, failed, dropped, queued or in delivery.  A channel that fails or a
\* delivery that raises does not lose the other channel's copy.
AlertsAccounted ==
  \A i \in 1..Len(Channels) :
    LET a == alerts[Channels[i]] IN
      alertsTaken = a.sent + a.failed + a.dropped + Len(queue)
                    + (IF job # Idle /\ job.channel <= i THEN 1 ELSE 0)

Latest(times) == times[Len(times)]

\* notify_canary: "Once per (source, canary, port) per cooldown".  Not oftener, also
\* when the full table was cleaned up in between; and not more rarely: when a batch is
\* counted, each of its contacts has had a message within the cooldown (with a
\* cooldown of 0, at this moment).
CooldownKept ==
  /\ [](\A k \in CanaryKey : \A i \in 1..(Len(tried[k]) - 1) :
          tried[k][i + 1] - tried[k][i] >= Cooldown)
  /\ [][\A b \in AlertBatch : contacts'[b] # contacts[b] =>
          \A k \in Range(Contacts[b]) :
            /\ tried'[k] # <<>>
            /\ Latest(tried'[k]) = monotonic \/ monotonic - Latest(tried'[k]) < Cooldown]_alertVars

\* evaluate_once's docstring: a standing anomaly is announced once, and "what is
\* active [at start-up] is logged but not sent".  What has stood since start-up or
\* since a pass saw it is not announced, also not after a failed pass.  (An anomaly
\* that the response cap hid from a pass counts as gone.)
StandingNotRepeated == [][told' = told \/ told' \cap seen = {}]_alertVars
=============================================================================
