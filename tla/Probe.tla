------------------------------- MODULE Probe -------------------------------
(***************************************************************************)
(* The connection probe: trace_inet_sock_set_state of tcp_connect.bpf.c    *)
(* with its start table, counters and ring buffer, and the collector that  *)
(* drains the ring (collector.go: Read, decode, wallTime).  A call of the  *)
(* program reads the clock when it begins (hit) and does the rest in one   *)
(* step, so calls for different sockets overlap.                           *)
(*                                                                         *)
(* Of a record the outcome, the timing and the clock reading are kept;     *)
(* addresses, ports and pid are copied through.  conn, syn and at are      *)
(* history: which connection it was, when it left for SYN_SENT, and the    *)
(* wall time of the call.                                                  *)
(***************************************************************************)
EXTENDS Sockets

CONSTANTS
  StartsSize,  \* max_entries of starts
  RingSize,    \* records that fit in the ring buffer
  Micro        \* clock units per microsecond (1000 in the code)

ASSUME ProbeAssumption == StartsSize \in Nat \ {0} /\ RingSize \in Nat \ {0} /\ Micro \in Nat \ {0}

Stat == {"EVENTS_SUBMITTED", "RINGBUF_DROPPED", "FILTERED_FAMILY", "FILTERED_PROTOCOL",
         "FILTERED_TRANSITION", "TRACKING_MISSED", "TRACKING_FAILED"}

Absent == -1

Event == [outcome : 0..1, durationKnown : 0..1, durationUs : Nat, timestamp : Nat,
          conn : Nat, syn : Nat, at : Nat]

VARIABLES
  starts,    \* starts[s]: when s entered SYN_SENT, or Absent
  stats,     \* the counters
  ring,      \* events, oldest first
  decoding,  \* the record Run decodes and its reading of CLOCK_MONOTONIC
  handled,   \* history: the events passed to handle, with their timestamps
  runFailed, \* Run has returned an error
  settled    \* history: connections whose outcome the program has seen

probeVars == <<starts, stats, ring, decoding, handled, runFailed, settled>>

Tracked == {s \in Sock : starts[s] # Absent}

-----------------------------------------------------------------------------
(* The BPF program.                                                        *)

StatInc(i) == stats' = [stats EXCEPT ![i] = @ + 1]

FilterFamily(s) ==
  /\ hit[s] # {}
  /\ kind[s] = "tcp6"
  /\ StatInc("FILTERED_FAMILY")
  /\ CallEnds(s)
  /\ UNCHANGED <<starts, ring, decoding, handled, runFailed, settled>>

FilterProtocol(s) ==
  /\ hit[s] # {}
  /\ kind[s] = "other"
  /\ StatInc("FILTERED_PROTOCOL")
  /\ CallEnds(s)
  /\ UNCHANGED <<starts, ring, decoding, handled, runFailed, settled>>

\* bpf_map_update_elem: the entry is written, possibly evicting another, or the
\* kernel finds no room and leaves the table as it was.
Track(s, now) ==
  \E kept \in AfterInsert(Tracked, s, StartsSize) :
    starts' = [r \in Sock |-> IF r = s THEN now ELSE IF r \in kept THEN starts[r] ELSE Absent]

EnterSynSent(s) ==
  /\ kind[s] = "tcp4"
  /\ \E h \in hit[s] :
       /\ h.new = "SYN_SENT"
       /\ \/ Track(s, h.now) /\ UNCHANGED stats
          \/ StatInc("TRACKING_FAILED") /\ UNCHANGED starts
  /\ CallEnds(s)
  /\ UNCHANGED <<ring, decoding, handled, runFailed, settled>>

IsOutcome(h) == h.old = "SYN_SENT" /\ h.new \in {"ESTABLISHED", "CLOSE"}

\* Mutant: the entry is left to eviction.
UntrackNever(s) == UNCHANGED starts

Untrack(s) == starts' = [starts EXCEPT ![s] = Absent]

\* A socket that leaves SYN_SENT without an outcome, or closes, is forgotten.
Forget(s, h) ==
  IF h.old = "SYN_SENT" \/ h.new = "CLOSE" THEN Untrack(s) ELSE UNCHANGED starts

FilterTransition(s) ==
  /\ kind[s] = "tcp4"
  /\ \E h \in hit[s] :
       /\ h.new # "SYN_SENT" /\ ~IsOutcome(h)
       /\ Forget(s, h)
  /\ StatInc("FILTERED_TRANSITION")
  /\ CallEnds(s)
  /\ UNCHANGED <<ring, decoding, handled, runFailed, settled>>

\* Only an established connection has a duration.
Timed(s, h) == starts[s] # Absent /\ h.new = "ESTABLISHED" /\ h.now >= starts[s]

Filled(s, h) ==
  [outcome |-> IF h.new = "CLOSE" THEN 1 ELSE 0,
   durationKnown |-> IF Timed(s, h) THEN 1 ELSE 0,
   durationUs |-> IF Timed(s, h) THEN (h.now - starts[s]) \div Micro ELSE 0,
   timestamp |-> h.now, conn |-> conn[s], syn |-> syn[s], at |-> h.wall]

Bump(c, i, yes) == IF yes THEN [c EXCEPT ![i] = @ + 1] ELSE c

\* The counters after the lookup.
Missed(s) == Bump(stats, "TRACKING_MISSED", starts[s] = Absent)

\* Mutant: a full ring is not counted.
ReserveUncounted(s, e) ==
  IF Len(ring) < RingSize
  THEN ring' = Append(ring, e) /\ stats' = Bump(Missed(s), "EVENTS_SUBMITTED", TRUE)
  ELSE UNCHANGED ring /\ stats' = Missed(s)

\* bpf_ringbuf_reserve, then submit or drop.
Reserve(s, e) ==
  IF Len(ring) < RingSize
  THEN ring' = Append(ring, e) /\ stats' = Bump(Missed(s), "EVENTS_SUBMITTED", TRUE)
  ELSE UNCHANGED ring /\ stats' = Bump(Missed(s), "RINGBUF_DROPPED", TRUE)

\* An active open has succeeded or failed.
Outcome(s) ==
  /\ kind[s] = "tcp4"
  /\ \E h \in hit[s] :
       /\ h.new # "SYN_SENT" /\ IsOutcome(h)
       /\ Reserve(s, Filled(s, h))
  /\ Untrack(s)
  /\ settled' = settled \cup {conn[s]}
  /\ CallEnds(s)
  /\ UNCHANGED <<decoding, handled, runFailed>>

-----------------------------------------------------------------------------
(* The collector.                                                          *)

\* decode's checks of outcome and timing flags.
Decodes(e) ==
  /\ ~(e.outcome = 1 /\ e.durationKnown # 0)
  /\ ~(e.durationKnown = 0 /\ e.durationUs # 0)

\* Read and decode, up to systemClock's reading of the monotonic clock.
Read ==
  /\ ring # <<>> /\ decoding = {} /\ ~runFailed
  /\ ring' = Tail(ring)
  /\ IF Decodes(Head(ring))
     THEN decoding' = {[event |-> Head(ring), mono |-> mono]} /\ UNCHANGED runFailed
     ELSE runFailed' = TRUE /\ UNCHANGED decoding
  /\ UNCHANGED <<sockVars, starts, stats, handled, settled>>

\* wallTime: the wall clock is read after the monotonic one.
WallTime(d) == wall + (d.event.timestamp - d.mono)

Handle ==
  /\ \E d \in decoding :
       handled' = Append(handled, [event |-> d.event, timestamp |-> WallTime(d), read |-> wall])
  /\ decoding' = {}
  /\ UNCHANGED <<sockVars, starts, stats, ring, runFailed, settled>>

-----------------------------------------------------------------------------
ProbeInit ==
  /\ SocketsInit
  /\ starts = [s \in Sock |-> Absent]
  /\ stats = [i \in Stat |-> 0]
  /\ ring = <<>>
  /\ decoding = {}
  /\ handled = <<>>
  /\ runFailed = FALSE
  /\ settled = {}

Program(s) ==
  FilterFamily(s) \/ FilterProtocol(s) \/ EnterSynSent(s) \/ FilterTransition(s) \/ Outcome(s)

ProbeNext ==
  \/ \E s \in Sock : Program(s)
  \/ Read \/ Handle
  \/ Kernel /\ UNCHANGED probeVars

ProbeSpec == ProbeInit /\ [][ProbeNext]_<<sockVars, probeVars>>

-----------------------------------------------------------------------------
(* Properties.                                                             *)

Events == {ring[i] : i \in 1..Len(ring)} \cup {d.event : d \in decoding}
            \cup {handled[i].event : i \in 1..Len(handled)}

\* Type invariant.
ProbeTypeOK ==
  /\ SocketsTypeOK
  /\ starts \in [Sock -> Int]
  /\ stats \in [Stat -> Nat]
  /\ ring \in Seq(Event) /\ Len(ring) <= RingSize
  /\ decoding \subseteq [event : Event, mono : Nat] /\ Cardinality(decoding) <= 1
  /\ handled \in Seq([event : Event, timestamp : Int, read : Nat])
  /\ runFailed \in BOOLEAN
  /\ settled \subseteq 1..conns

\* The times of an event are its own connection's.  A duration is the time since this
\* very connection entered SYN_SENT, whatever was evicted, whichever update failed and
\* whoever used the socket address before ("never invents a sample"); and the wall
\* time is no earlier than the event and no later than its reading, also across a
\* suspend between the call and the read or between the two clock readings.
TimesAreOwn ==
  /\ \A e \in Events :
       e.durationKnown = 1 => e.durationUs = (e.timestamp - e.syn) \div Micro
  /\ \A i \in 1..Len(handled) :
       handled[i].event.at <= handled[i].timestamp /\ handled[i].timestamp <= handled[i].read

Wrote == [i \in 1..(Len(ring) + Cardinality(decoding) + Len(handled)) |->
            IF i <= Len(handled) THEN handled[i].event.conn
            ELSE IF i <= Len(handled) + Cardinality(decoding)
                 THEN (CHOOSE d \in decoding : TRUE).event.conn
                 ELSE ring[i - Len(handled) - Cardinality(decoding)].conn]

\* An active open the program saw end is reported once or counted as dropped:
\* no connection has two events, and those without one are RINGBUF_DROPPED.  A success
\* reported without a duration shows in TRACKING_MISSED.
OneEventPerOutcome ==
  /\ \A i, j \in DOMAIN Wrote : Wrote[i] = Wrote[j] => i = j
  /\ Cardinality(settled) = Len(Wrote) + stats["RINGBUF_DROPPED"]
  /\ stats["EVENTS_SUBMITTED"] = Len(Wrote)
  /\ Cardinality({e \in Events : e.outcome = 0 /\ e.durationKnown = 0}) <= stats["TRACKING_MISSED"]
=============================================================================
