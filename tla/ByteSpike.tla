----------------------------- MODULE ByteSpike -----------------------------
(***************************************************************************)
(* The byte-accounting spike (agent/bpf/tcp_bytes_spike.bpf.c): two        *)
(* programs on the tracepoint of Sockets.  trace_establish notes active    *)
(* opens in an LRU table; trace_close reads the byte counters of a socket  *)
(* that enters CLOSE and reports them if it was an active open.  Both run  *)
(* at every state change and never both act on the same one, so their      *)
(* order does not matter, and neither reads a clock.  The object is built  *)
(* and measured apart from the collector; only its tests read closes.      *)
(***************************************************************************)
EXTENDS Sockets

CONSTANTS
  OpensSize,   \* max_entries of active_opens
  ClosesSize,  \* records that fit in the closes ring buffer
  Bytes        \* values of bytes_sent and bytes_received

ASSUME SpikeAssumption ==
  OpensSize \in Nat \ {0} /\ ClosesSize \in Nat \ {0} /\ Bytes \subseteq Nat

VARIABLES
  activeOpens,  \* active_opens: sockets seen as active opens
  spikeStats,   \* spike_stats
  closes,       \* the closes ring buffer, oldest first
  opened,       \* history: connections counted as ESTABLISHED
  evicted,      \* history: of those, the ones whose entry was lost
  reported      \* history: connections whose totals were counted, and the totals

spikeVars == <<activeOpens, spikeStats, closes, opened, evicted, reported>>

SpikeStat == {"ESTABLISHED", "CLOSED", "BYTES_TOTAL", "CLOSED_ZERO", "UNMATCHED"}

\* The filters both programs begin with, and the early return for a transition
\* neither acts on.
SpikeIgnores(s) ==
  /\ \E h \in hit[s] :
       \/ kind[s] # "tcp4"
       \/ h.new # "CLOSE" /\ ~(h.old = "SYN_SENT" /\ h.new = "ESTABLISHED")
  /\ CallEnds(s)
  /\ UNCHANGED spikeVars

\* trace_establish: the result of the table update is not looked at.
TraceEstablish(s) ==
  /\ kind[s] = "tcp4"
  /\ \E h \in hit[s] : h.old = "SYN_SENT" /\ h.new = "ESTABLISHED"
  /\ spikeStats' = [spikeStats EXCEPT !["ESTABLISHED"] = @ + 1]
  /\ activeOpens' \in AfterInsert(activeOpens, s, OpensSize) \cup {activeOpens}
  /\ opened' = opened \cup {conn[s]}
  /\ evicted' = evicted \cup {conn[r] : r \in (activeOpens \cup {s}) \ activeOpens'}
  /\ CallEnds(s)
  /\ UNCHANGED <<closes, reported>>

CloseHit(s) == kind[s] = "tcp4" /\ \E h \in hit[s] : h.new = "CLOSE"

\* trace_close of a socket that is not, or no longer, in the table.
TraceCloseUnmatched(s) ==
  /\ CloseHit(s)
  /\ s \notin activeOpens
  /\ spikeStats' = [spikeStats EXCEPT !["UNMATCHED"] = @ + 1]
  /\ CallEnds(s)
  /\ UNCHANGED <<activeOpens, closes, opened, evicted, reported>>

\* Mutant: the entry outlives the connection.
AfterCloseKept(s) == activeOpens

AfterClose(s) == activeOpens \ {s}

\* trace_close of an active open, which has carried sent and received bytes.
TraceClose(s, sent, received) ==
  /\ CloseHit(s)
  /\ s \in activeOpens
  /\ activeOpens' = AfterClose(s)
  /\ reported' = Append(reported, [conn |-> conn[s], total |-> sent + received])
  /\ IF sent = 0 /\ received = 0
     THEN /\ spikeStats' = [spikeStats EXCEPT !["CLOSED_ZERO"] = @ + 1]
          /\ UNCHANGED closes
     ELSE /\ spikeStats' = [spikeStats EXCEPT !["CLOSED"] = @ + 1,
                                              !["BYTES_TOTAL"] = @ + sent + received]
          /\ closes' = IF Len(closes) < ClosesSize THEN Append(closes, conn[s]) ELSE closes
  /\ CallEnds(s)
  /\ UNCHANGED <<opened, evicted>>

SpikeInit ==
  /\ SocketsInit
  /\ activeOpens = {}
  /\ spikeStats = [i \in SpikeStat |-> 0]
  /\ closes = <<>>
  /\ opened = {}
  /\ evicted = {}
  /\ reported = <<>>

SpikePrograms(s) ==
  \/ SpikeIgnores(s) \/ TraceEstablish(s) \/ TraceCloseUnmatched(s)
  \/ \E sent, received \in Bytes : TraceClose(s, sent, received)

SpikeNext ==
  \/ \E s \in Sock : SpikePrograms(s)
  \/ StateChange /\ UNCHANGED spikeVars

SpikeSpec == SpikeInit /\ [][SpikeNext]_<<sockVars, spikeVars>>

-----------------------------------------------------------------------------
(* Properties.                                                             *)

Reports(c) == {i \in 1..Len(reported) : reported[i].conn = c}

ReportedBytes ==
  LET sum[n \in 0..Len(reported)] == IF n = 0 THEN 0 ELSE sum[n - 1] + reported[n].total
  IN  sum[Len(reported)]

\* trace_close's comment: each connection reports its totals exactly once.  An
\* active open that has closed is reported once, or its entry was evicted and it
\* is UNMATCHED; the server side of a connection, or a socket that reuses the
\* address of an active open, is never reported.  The counters are those of the
\* reports.
TotalsOnce ==
  /\ \A i \in 1..Len(reported) : reported[i].conn \in opened \ evicted
  /\ \A c \in opened \ evicted :
       Cardinality(Reports(c)) + Cardinality({s \in activeOpens : conn[s] = c}) = 1
  /\ spikeStats["ESTABLISHED"]
       = spikeStats["CLOSED"] + spikeStats["CLOSED_ZERO"]
           + Cardinality(activeOpens) + Cardinality(evicted)
  /\ spikeStats["BYTES_TOTAL"] = ReportedBytes
=============================================================================
