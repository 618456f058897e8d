---------------------------- MODULE KernelProofs ----------------------------
(***************************************************************************)
(* Proofs about the BPF programs on a kernel that changes the states of    *)
(* several sockets at once, reuses their addresses and may be suspended.   *)
(***************************************************************************)
EXTENDS Probe, ByteSpike, FiniteSetTheorems, WellFoundedInduction, TLAPS

-----------------------------------------------------------------------------
(* The kernel.                                                             *)

\* The call h of the program, for a socket in state t whose connection entered
\* SYN_SENT at y, at the clock readings m and m + z.
CallOK(h, t, y, m, z) ==
  /\ h \in Hit /\ h.new = t /\ <<h.old, h.new>> \in TcpSteps
  /\ y <= h.now /\ h.now <= m /\ h.wall <= h.now + z
  /\ h.new = "SYN_SENT" => h.now = y /\ h.old = "CLOSE"

KernelInv ==
  /\ SocketsTypeOK
  /\ \A s \in Sock : syn[s] <= mono /\ \A h \in hit[s] : CallOK(h, st[s], syn[s], mono, slept)
  /\ \A s \in Sock : conn[s] \in 1..conns
  /\ \A r, s \in Sock : conn[r] = conn[s] => r = s

\* Most leaves are first-order; those about numbers, sequences or records name SMT.
USE ZenonT(30)

LEMMA KernelTyped ==
  ASSUME KernelInv
  PROVE  /\ mono \in Nat /\ slept \in Nat /\ conns \in Nat /\ changes \in Nat
         /\ \A s \in Sock : /\ st[s] \in TcpState /\ kind[s] \in Kind /\ conn[s] \in Nat /\ syn[s] \in Nat
                            /\ hit[s] \subseteq Hit
         /\ DOMAIN st = Sock /\ DOMAIN conn = Sock /\ DOMAIN syn = Sock /\ DOMAIN hit = Sock
BY DEF KernelInv, SocketsTypeOK

LEMMA StepsTyped ==
  ASSUME NEW a, NEW b, <<a, b>> \in TcpSteps
  PROVE  a \in TcpState /\ b \in TcpState /\ (b = "SYN_SENT" => a = "CLOSE")
BY SMTT(30) DEF TcpSteps, TcpState

LEMMA CallEndsKeeps ==
  ASSUME KernelInv, NEW s \in Sock, CallEnds(s)
  PROVE  /\ KernelInv'
         /\ hit'[s] = {} /\ \A r \in Sock : r # s => hit'[r] = hit[r]
<1>1. hit' = [hit EXCEPT ![s] = {}] /\ UNCHANGED <<st, kind, conn, syn, conns, changes, mono, slept>>
  BY DEF CallEnds
<1>2. hit \in [Sock -> SUBSET Hit]
  BY DEF KernelInv, SocketsTypeOK
<1>3. /\ hit' \in [Sock -> SUBSET Hit]
      /\ hit'[s] = {} /\ \A r \in Sock : r # s => hit'[r] = hit[r]
  BY <1>1, <1>2
<1>4. SocketsTypeOK'
  BY <1>1, <1>3 DEF KernelInv, SocketsTypeOK
<1>5. \A r \in Sock : hit'[r] \subseteq hit[r]
  BY <1>3
<1> QED BY <1>1, <1>3, <1>4, <1>5 DEF KernelInv

\* Time only adds to what the clocks may read.
LEMMA CallLater ==
  ASSUME NEW h, NEW t, NEW y \in Nat, NEW m \in Nat, NEW z \in Nat, CallOK(h, t, y, m, z),
         NEW dm \in Nat, NEW dz \in Nat
  PROVE  CallOK(h, t, y, m + dm, z + dz)
<1>1. h \in Hit
  BY DEF CallOK
<1>2. PICK n \in Nat, w \in Nat : n = h.now /\ w = h.wall
  BY <1>1 DEF Hit
<1>3. y <= n /\ n <= m /\ w <= n + z
  BY <1>2 DEF CallOK
<1>4. n <= m + dm /\ w <= n + (z + dz)
  BY <1>3, SMTT(30)
<1> QED BY <1>2, <1>4 DEF CallOK

LEMMA ClocksKeep ==
  ASSUME KernelInv, ClockTick \/ Suspend
  PROVE  /\ KernelInv' /\ UNCHANGED <<st, kind, conn, syn, conns, changes, hit>>
         /\ mono' \in Nat /\ slept' \in Nat /\ mono <= mono' /\ slept <= slept'
<1>1. mono \in Nat /\ slept \in Nat /\ TickSize \in Nat /\ 0 \in Nat
  BY KernelTyped, SocketsAssumption, SMTT(30)
<1>2. UNCHANGED <<st, kind, conn, syn, conns, changes, hit>>
  BY DEF ClockTick, Suspend
<1>3. PICK dm \in Nat, dz \in Nat : mono' = mono + dm /\ slept' = slept + dz
  <2>1. mono + 0 = mono /\ slept + 0 = slept
    BY <1>1, SMTT(30)
  <2> QED BY <1>1, <2>1 DEF ClockTick, Suspend
<1>4. PICK m \in Nat, z \in Nat : m = mono /\ z = slept
  BY <1>1
<1>5. m + dm \in Nat /\ z + dz \in Nat /\ m <= m + dm /\ z <= z + dz
  BY SMTT(30)
<1>6. SocketsTypeOK'
  BY <1>2, <1>3, <1>4, <1>5 DEF KernelInv, SocketsTypeOK
<1>7. ASSUME NEW s \in Sock
      PROVE  syn'[s] <= mono' /\ \A h \in hit'[s] : CallOK(h, st'[s], syn'[s], mono', slept')
  <2>1. PICK y \in Nat : y = syn[s]
    BY KernelTyped
  <2>2. y <= m /\ \A h \in hit[s] : CallOK(h, st[s], y, m, z)
    BY <1>4, <2>1 DEF KernelInv
  <2>3. y <= m + dm
    BY <2>2, SMTT(30)
  <2>4. \A h \in hit[s] : CallOK(h, st[s], y, m + dm, z + dz)
    BY <2>2, CallLater
  <2> QED BY <1>2, <1>3, <1>4, <2>1, <2>3, <2>4
<1> QED BY <1>2, <1>3, <1>4, <1>5, <1>6, <1>7 DEF KernelInv

\* What SetState does to s: the connection goes on, or a new one begins.
Moved(s, new) ==
  /\ hit[s] = {} /\ st'[s] = new
  /\ \E h : hit'[s] = {h} /\ h.old = st[s] /\ h.new = new
  /\ \/ conn'[s] = conn[s] /\ syn'[s] = syn[s] /\ conns' = conns /\ new # "SYN_SENT"
     \/ conn'[s] = conns + 1 /\ conns' = conns + 1 /\ st[s] \in {"CLOSE", "LISTEN"}
  /\ \A r \in Sock : r # s => /\ st'[r] = st[r] /\ hit'[r] = hit[r]
                              /\ conn'[r] = conn[r] /\ syn'[r] = syn[r]
  /\ UNCHANGED <<kind, mono, slept>>

LEMMA SetStateMoves ==
  ASSUME KernelInv, NEW s \in Sock, NEW new \in TcpState, SetState(s, new)
  PROVE  KernelInv' /\ Moved(s, new)
<1> DEFINE begins == st[s] \in {"CLOSE", "LISTEN"} /\ new \in {"SYN_SENT", "SYN_RECV"}
<1>1. /\ hit[s] = {} /\ <<st[s], new>> \in TcpSteps
      /\ st' = [st EXCEPT ![s] = new]
      /\ hit' = [hit EXCEPT ![s] = {[old |-> st[s], new |-> new, now |-> mono, wall |-> wall]}]
      /\ changes' = changes + 1
      /\ UNCHANGED <<kind, mono, slept>>
  BY DEF SetState
<1>2. IF begins
      THEN /\ conns' = conns + 1
           /\ conn' = [conn EXCEPT ![s] = conns + 1]
           /\ syn' = [syn EXCEPT ![s] = mono]
      ELSE UNCHANGED <<conns, conn, syn>>
  BY DEF SetState
<1>3. PICK h : h = [old |-> st[s], new |-> new, now |-> mono, wall |-> mono + slept]
  OBVIOUS
<1>4. /\ mono \in Nat /\ slept \in Nat /\ conns \in Nat /\ changes \in Nat /\ st[s] \in TcpState
      /\ syn[s] \in Nat /\ syn[s] <= mono
  BY KernelTyped DEF KernelInv
<1>5. mono + slept \in Nat /\ mono <= mono /\ mono + slept <= mono + slept
      /\ conns + 1 \in Nat /\ changes + 1 \in Nat
  BY <1>4, SMTT(30)
<1>6. h \in Hit /\ h.old = st[s] /\ h.new = new /\ h.now = mono /\ h.wall = mono + slept
  BY <1>3, <1>4, <1>5 DEF Hit
<1>7. new = "SYN_SENT" => st[s] = "CLOSE"
  BY <1>1, StepsTyped
<1>8. /\ hit \in [Sock -> SUBSET Hit] /\ st \in [Sock -> TcpState]
      /\ conn \in [Sock -> Nat] /\ syn \in [Sock -> Nat]
  BY DEF KernelInv, SocketsTypeOK
<1>9. /\ hit' = [hit EXCEPT ![s] = {h}] /\ {h} \in SUBSET Hit
  BY <1>1, <1>3, <1>6 DEF wall
<1>10. /\ hit' \in [Sock -> SUBSET Hit] /\ hit'[s] = {h} /\ \A r \in Sock : r # s => hit'[r] = hit[r]
       /\ st' \in [Sock -> TcpState] /\ st'[s] = new /\ \A r \in Sock : r # s => st'[r] = st[r]
  BY <1>1, <1>8, <1>9
<1>11. /\ conn' \in [Sock -> Nat] /\ \A r \in Sock : r # s => conn'[r] = conn[r]
       /\ syn' \in [Sock -> Nat] /\ \A r \in Sock : r # s => syn'[r] = syn[r]
       /\ \/ ~begins /\ conn'[s] = conn[s] /\ syn'[s] = syn[s] /\ conns' = conns
          \/ begins /\ conn'[s] = conns + 1 /\ syn'[s] = mono /\ conns' = conns + 1
  <2>1. CASE begins
    BY <1>2, <1>4, <1>5, <1>8, <2>1
  <2>2. CASE ~begins
    BY <1>2, <1>8, <2>2
  <2> QED BY <2>1, <2>2
<1>12. begins => st[s] # "SYN_SENT"
  OBVIOUS
<1>13. ~begins => new # "SYN_SENT"
  BY <1>7
<1>14. Moved(s, new)
  BY <1>1, <1>6, <1>10, <1>11, <1>12, <1>13 DEF Moved
<1>15. SocketsTypeOK'
  BY <1>1, <1>5, <1>10, <1>11 DEF KernelInv, SocketsTypeOK
<1>16. ASSUME NEW r \in Sock
       PROVE  syn'[r] <= mono' /\ \A g \in hit'[r] : CallOK(g, st'[r], syn'[r], mono', slept')
  <2>1. CASE r # s
    BY <1>1, <1>10, <1>11, <2>1 DEF KernelInv
  <2>2. CASE r = s
    <3>1. syn'[s] <= mono /\ (new = "SYN_SENT" => syn'[s] = mono)
      BY <1>4, <1>5, <1>11, <1>13
    <3>2. <<h.old, h.new>> \in TcpSteps
      BY <1>1, <1>6
    <3>3. CallOK(h, new, syn'[s], mono, slept)
      BY <1>5, <1>6, <1>7, <3>1, <3>2 DEF CallOK
    <3> QED BY <1>1, <1>10, <2>2, <3>1, <3>3
  <2> QED BY <2>1, <2>2
<1>17. ASSUME NEW r \in Sock
       PROVE  conn'[r] \in 1..conns'
  <2>1. conn[r] \in 1..conns
    BY DEF KernelInv
  <2>2. conns + 1 \in 1..(conns + 1) /\ (conn[r] \in 1..(conns + 1))
    BY <1>4, <2>1, SMTT(30)
  <2> QED BY <1>11, <2>1, <2>2
<1>18. ASSUME NEW q \in Sock, NEW r \in Sock, conn'[q] = conn'[r]
       PROVE  q = r
  <2>1. conn[q] # conns + 1 /\ conn[r] # conns + 1
    <3>1. conn[q] \in 1..conns /\ conn[r] \in 1..conns
      BY DEF KernelInv
    <3> QED BY <1>4, <3>1, SMTT(30)
  <2>2. conn[q] = conn[r] => q = r
    BY DEF KernelInv
  <2> QED BY <1>11, <1>18, <2>1, <2>2
<1> QED BY <1>14, <1>15, <1>16, <1>17, <1>18 DEF KernelInv

LEMMA KernelInvInit == SocketsInit => KernelInv
<1>1. SUFFICES ASSUME SocketsInit
               PROVE  KernelInv
  OBVIOUS
<1>2. \A s \in Sock : s \in Nat /\ s \in 1..NumSocks
  BY SocketsAssumption, SMTT(30) DEF Sock
<1>3. 0 \in Nat /\ 0 <= 0 /\ NumSocks \in Nat
  BY SocketsAssumption, SMTT(30)
<1>4. {"CLOSE", "SYN_SENT", "ESTABLISHED"} \subseteq TcpState
  BY DEF TcpState
<1>5. SocketsTypeOK
  BY <1>1, <1>2, <1>3, <1>4 DEF SocketsInit, SocketsTypeOK
<1>6. \A s \in Sock : conn[s] = s /\ syn[s] = 0 /\ hit[s] = {}
  BY <1>1 DEF SocketsInit
<1> QED BY <1>1, <1>2, <1>3, <1>5, <1>6 DEF SocketsInit, KernelInv

-----------------------------------------------------------------------------
(* The probe: the start table and the times of the events.                 *)

\* With calls H and state t: an active open whose end the program has still to see.
Dialing(H, t) == (H = {} => t = "SYN_SENT") /\ \A h \in H : h.old = "SYN_SENT"

\* A start x that is in the table is that of the connection the socket now has.
Tracking(x, y, H, t, k) == x # Absent => x = y /\ k = "tcp4" /\ Dialing(H, t)

TableInv ==
  /\ starts \in [Sock -> Int]
  /\ \A s \in Sock : Tracking(starts[s], syn[s], hit[s], st[s], kind[s])

\* An event with its own connection's duration, which the collector accepts.
Own(e) ==
  /\ e.durationKnown = 1 => e.durationUs = (e.timestamp - e.syn) \div Micro
  /\ Decodes(e)

\* It is no later than the reading m, and was made when at most z had been slept.
Stamped(e, m, z) == e.timestamp <= m /\ e.at <= e.timestamp + z

Decoding == [event : Event, mono : Nat]
Handled == [event : Event, timestamp : Int, read : Nat]

FlowInv ==
  /\ ring \in Seq(Event) /\ Len(ring) <= RingSize
  /\ \A i \in 1..Len(ring) : Own(ring[i]) /\ Stamped(ring[i], mono, slept)
  /\ decoding \subseteq Decoding /\ \A c, d \in decoding : c = d
  /\ \A d \in decoding : Own(d.event) /\ Stamped(d.event, d.mono, slept) /\ d.mono <= mono
  /\ handled \in Seq(Handled)
  /\ \A i \in 1..Len(handled) :
       /\ Own(handled[i].event)
       /\ handled[i].event.at <= handled[i].timestamp /\ handled[i].timestamp <= handled[i].read
  /\ runFailed = FALSE

\* What a call of the program leaves in the table: the others' starts or less, and for
\* s nothing, or the start of the connection that has just begun.
LEMMA CallTracks ==
  ASSUME KernelInv, TableInv, NEW s \in Sock, CallEnds(s), starts' \in [Sock -> Int],
         \A r \in Sock : r # s => starts'[r] = starts[r] \/ starts'[r] = Absent,
         starts'[s] = Absent \/ (starts'[s] = syn[s] /\ kind[s] = "tcp4" /\ st[s] = "SYN_SENT")
  PROVE  TableInv'
<1>1. hit'[s] = {} /\ \A r \in Sock : r # s => hit'[r] = hit[r]
  BY CallEndsKeeps
<1>2. UNCHANGED <<st, kind, syn>>
  BY DEF CallEnds
<1>3. ASSUME NEW r \in Sock
      PROVE  Tracking(starts'[r], syn[r], hit'[r], st[r], kind[r])
  <2>1. CASE r = s
    BY <1>1, <2>1 DEF Tracking, Dialing
  <2>2. CASE r # s
    <3>1. Tracking(starts[r], syn[r], hit[r], st[r], kind[r])
      BY DEF TableInv
    <3> QED BY <1>1, <2>2, <3>1 DEF Tracking
  <2> QED BY <2>1, <2>2
<1> QED BY <1>2, <1>3 DEF TableInv

\* A call that is not about the end of an active open finds nothing in the table.
LEMMA NotTracked ==
  ASSUME TableInv, NEW s \in Sock,
         kind[s] # "tcp4" \/ \E h \in hit[s] : h.old # "SYN_SENT"
  PROVE  starts[s] = Absent
BY DEF TableInv, Tracking, Dialing

LEMMA UntrackTyped ==
  ASSUME TableInv, NEW s \in Sock, Untrack(s)
  PROVE  /\ starts' \in [Sock -> Int] /\ starts'[s] = Absent
         /\ \A r \in Sock : r # s => starts'[r] = starts[r]
<1>1. Absent \in Int
  BY SMTT(30) DEF Absent
<1> QED BY <1>1 DEF TableInv, Untrack

LEMMA KernelTracks ==
  ASSUME KernelInv, TableInv, Kernel, UNCHANGED starts
  PROVE  TableInv'
<1>1. CASE ClockTick \/ Suspend
  <2>1. UNCHANGED <<st, kind, syn, hit>>
    BY <1>1, ClocksKeep
  <2> QED BY <2>1 DEF TableInv
<1>2. ASSUME NEW s \in Sock, NEW new \in TcpState, SetState(s, new)
      PROVE  TableInv'
  <2>1. Moved(s, new)
    BY <1>2, SetStateMoves
  <2>2. ASSUME NEW r \in Sock
        PROVE  Tracking(starts[r], syn'[r], hit'[r], st'[r], kind[r])
    <3>1. Tracking(starts[r], syn[r], hit[r], st[r], kind[r])
      BY DEF TableInv
    <3>2. CASE r # s
      BY <2>1, <3>1, <3>2 DEF Moved
    <3>3. CASE r = s
      <4>1. CASE starts[s] = Absent
        BY <3>3, <4>1 DEF Tracking
      <4>2. CASE starts[s] # Absent
        <5>1. starts[s] = syn[s] /\ kind[s] = "tcp4" /\ st[s] = "SYN_SENT"
          BY <2>1, <3>1, <3>3, <4>2 DEF Tracking, Dialing, Moved
        <5>2. syn'[s] = syn[s]
          BY <2>1, <5>1 DEF Moved
        <5>3. PICK h : hit'[s] = {h} /\ h.old = st[s]
          BY <2>1 DEF Moved
        <5>4. Dialing(hit'[s], st'[s])
          BY <5>1, <5>3 DEF Dialing
        <5> QED BY <3>3, <5>1, <5>2, <5>4 DEF Tracking
      <4> QED BY <4>1, <4>2
    <3> QED BY <3>2, <3>3
  <2>3. kind' = kind
    BY <2>1 DEF Moved
  <2> QED BY <2>2, <2>3 DEF TableInv
<1> QED BY <1>1, <1>2 DEF Kernel, StateChange

LEMMA ProgramTracks ==
  ASSUME KernelInv, TableInv, NEW s \in Sock, Program(s)
  PROVE  KernelInv' /\ TableInv'
<1>1. CallEnds(s)
  BY DEF Program, FilterFamily, FilterProtocol, EnterSynSent, FilterTransition, Outcome
<1>2. KernelInv'
  BY <1>1, CallEndsKeeps
<1>3. starts \in [Sock -> Int]
  BY DEF TableInv
<1>4. starts' = starts /\ starts[s] = Absent => TableInv'
  BY <1>1, <1>3, CallTracks
<1>5. CASE FilterFamily(s) \/ FilterProtocol(s)
  <2>1. starts' = starts /\ kind[s] # "tcp4"
    BY <1>5 DEF FilterFamily, FilterProtocol
  <2> QED BY <1>2, <1>4, <2>1, NotTracked
<1>6. CASE EnterSynSent(s)
  <2>1. PICK h \in hit[s] : /\ h.new = "SYN_SENT"
                            /\ Track(s, h.now) \/ UNCHANGED starts
    BY <1>6 DEF EnterSynSent
  <2>2. CallOK(h, st[s], syn[s], mono, slept)
    BY <2>1 DEF KernelInv
  <2>3. h.now = syn[s] /\ h.old # "SYN_SENT" /\ st[s] = "SYN_SENT" /\ kind[s] = "tcp4"
    BY <1>6, <2>1, <2>2 DEF CallOK, EnterSynSent
  <2>4. CASE UNCHANGED starts
    BY <1>2, <1>4, <2>3, <2>4, NotTracked
  <2>5. CASE Track(s, h.now)
    <3>1. PICK kept : starts' = [r \in Sock |-> IF r = s THEN h.now ELSE IF r \in kept THEN starts[r] ELSE Absent]
      BY <2>5 DEF Track
    <3>2. syn[s] \in Int /\ Absent \in Int
      <4>1. syn[s] \in Nat
        BY KernelTyped
      <4> QED BY <4>1, SMTT(30) DEF Absent
    <3>3. starts' \in [Sock -> Int]
      BY <1>3, <2>3, <3>1, <3>2
    <3>4. starts'[s] = syn[s] /\ \A r \in Sock : r # s => starts'[r] = starts[r] \/ starts'[r] = Absent
      BY <2>3, <3>1
    <3> QED BY <1>1, <1>2, <2>3, <3>3, <3>4, CallTracks
  <2> QED BY <2>1, <2>4, <2>5
<1>7. CASE FilterTransition(s)
  <2>1. PICK h \in hit[s] : Forget(s, h)
    BY <1>7 DEF FilterTransition
  <2>2. CASE Untrack(s)
    BY <1>1, <1>2, <2>2, UntrackTyped, CallTracks
  <2>3. CASE starts' = starts /\ h.old # "SYN_SENT"
    BY <1>2, <1>4, <2>1, <2>3, NotTracked
  <2> QED BY <2>1, <2>2, <2>3 DEF Forget
<1>8. CASE Outcome(s)
  <2>1. Untrack(s)
    BY <1>8 DEF Outcome
  <2> QED BY <1>1, <1>2, <2>1, UntrackTyped, CallTracks
<1> QED BY <1>5, <1>6, <1>7, <1>8 DEF Program

\* The record of an outcome.
LEMMA FilledOwn ==
  ASSUME KernelInv, TableInv, NEW s \in Sock, NEW h \in hit[s], IsOutcome(h), NEW e, e = Filled(s, h)
  PROVE  /\ e \in Event /\ Own(e) /\ Stamped(e, mono, slept) /\ e.conn = conn[s]
         /\ e.outcome = 0 /\ e.durationKnown = 0 => starts[s] = Absent
<1>1. CallOK(h, st[s], syn[s], mono, slept) /\ Tracking(starts[s], syn[s], hit[s], st[s], kind[s])
  BY DEF KernelInv, TableInv
<1>2. h.now \in Nat /\ h.wall \in Nat /\ syn[s] \in Nat /\ conn[s] \in Nat /\ Micro \in Nat \ {0}
  BY <1>1, KernelTyped, ProbeAssumption DEF CallOK, Hit
<1>3. syn[s] <= h.now /\ h.now <= mono /\ h.wall <= h.now + slept
  BY <1>1 DEF CallOK
<1>4. starts[s] # Absent => starts[s] = syn[s]
  BY <1>1 DEF Tracking
<1>5. PICK us : us = IF Timed(s, h) THEN (h.now - starts[s]) \div Micro ELSE 0
  OBVIOUS
<1>6. PICK out, known : /\ out = IF h.new = "CLOSE" THEN 1 ELSE 0
                        /\ known = IF Timed(s, h) THEN 1 ELSE 0
  OBVIOUS
<1>7. e = [outcome |-> out, durationKnown |-> known, durationUs |-> us,
           timestamp |-> h.now, conn |-> conn[s], syn |-> syn[s], at |-> h.wall]
  BY <1>5, <1>6 DEF Filled
<1>8. /\ e.outcome = out /\ e.durationKnown = known /\ e.durationUs = us
      /\ e.timestamp = h.now /\ e.conn = conn[s] /\ e.syn = syn[s] /\ e.at = h.wall
  BY <1>7, SMTT(30)
<1>9. Timed(s, h) => starts[s] = syn[s] /\ us = (h.now - syn[s]) \div Micro /\ h.new # "CLOSE"
  BY <1>4, <1>5 DEF Timed
<1>10. us \in Nat
  <2>1. (h.now - syn[s]) \div Micro \in Nat /\ 0 \in Nat
    BY <1>2, <1>3, SMTT(30)
  <2> QED BY <1>5, <1>9, <2>1
<1>11. out \in 0..1 /\ known \in 0..1 /\ 1 # 0
  BY <1>6, SMTT(30)
<1>12. e \in Event
  BY <1>2, <1>7, <1>10, <1>11, SMTT(30) DEF Event
<1>13. Own(e)
  BY <1>5, <1>6, <1>8, <1>9, <1>11 DEF Own, Decodes
<1>14. Stamped(e, mono, slept)
  BY <1>3, <1>8 DEF Stamped
<1>15. ASSUME out = 0, known = 0
       PROVE  starts[s] = Absent
  <2>1. h.new = "ESTABLISHED" /\ ~Timed(s, h)
    BY <1>6, <1>11, <1>15 DEF IsOutcome
  <2>2. syn[s] <= h.now => h.now >= syn[s]
    BY <1>2, SMTT(30)
  <2> QED BY <1>3, <1>4, <2>1, <2>2 DEF Timed
<1> QED BY <1>8, <1>12, <1>13, <1>14, <1>15

LEMMA StampedLater ==
  ASSUME NEW e \in Event, NEW m \in Nat, NEW z \in Nat, Stamped(e, m, z),
         NEW m2 \in Nat, NEW z2 \in Nat, m <= m2, z <= z2
  PROVE  Stamped(e, m2, z2)
<1>1. PICK t \in Nat, a \in Nat : t = e.timestamp /\ a = e.at
  BY DEF Event
<1>2. t <= m /\ a <= t + z
  BY <1>1 DEF Stamped
<1>3. t <= m2 /\ a <= t + z2
  BY <1>2, SMTT(30)
<1> QED BY <1>1, <1>3 DEF Stamped

LEMMA FlowTyped ==
  ASSUME FlowInv
  PROVE  /\ ring \in Seq(Event) /\ Len(ring) \in Nat /\ \A i \in 1..Len(ring) : ring[i] \in Event
         /\ handled \in Seq(Handled) /\ Len(handled) \in Nat
         /\ \A i \in 1..Len(handled) : handled[i] \in Handled
         /\ \A d \in decoding : d \in Decoding /\ d.event \in Event /\ d.mono \in Nat
<1>1. ring \in Seq(Event) /\ handled \in Seq(Handled)
  BY DEF FlowInv
<1>2. /\ Len(ring) \in Nat /\ \A i \in 1..Len(ring) : ring[i] \in Event
      /\ Len(handled) \in Nat /\ \A i \in 1..Len(handled) : handled[i] \in Handled
  BY <1>1, SMTT(30)
<1>3. \A d \in decoding : d \in Decoding /\ d.event \in Event /\ d.mono \in Nat
  BY DEF FlowInv, Decoding
<1> QED BY <1>1, <1>2, <1>3

LEMMA KernelFlows ==
  ASSUME KernelInv, FlowInv, Kernel, UNCHANGED probeVars
  PROVE  FlowInv'
<1>1. mono \in Nat /\ slept \in Nat /\ mono' \in Nat /\ slept' \in Nat /\ mono <= mono' /\ slept <= slept'
  <2>1. CASE ClockTick \/ Suspend
    BY <2>1, KernelTyped, ClocksKeep
  <2>2. ASSUME NEW s \in Sock, NEW new \in TcpState, SetState(s, new)
        PROVE  mono' = mono /\ slept' = slept
    BY <2>2, SetStateMoves DEF Moved
  <2>3. mono \in Nat /\ slept \in Nat
    BY KernelTyped
  <2>4. mono <= mono /\ slept <= slept
    BY <2>3, SMTT(30)
  <2> QED BY <2>1, <2>2, <2>3, <2>4 DEF Kernel, StateChange
<1>2. ring' = ring /\ decoding' = decoding /\ handled' = handled /\ runFailed' = runFailed
  BY DEF probeVars
<1>3. \A i \in 1..Len(ring) : Stamped(ring[i], mono', slept')
  BY <1>1, FlowTyped, StampedLater DEF FlowInv
<1>4. ASSUME NEW d \in decoding
      PROVE  Stamped(d.event, d.mono, slept') /\ d.mono <= mono'
  <2>1. d.event \in Event /\ d.mono \in Nat /\ Stamped(d.event, d.mono, slept) /\ d.mono <= mono
    BY FlowTyped DEF FlowInv
  <2>2. d.mono <= d.mono /\ d.mono <= mono'
    BY <1>1, <2>1, SMTT(30)
  <2> QED BY <1>1, <2>1, <2>2, StampedLater
<1> QED BY <1>2, <1>3, <1>4 DEF FlowInv

LEMMA ProgramFlows ==
  ASSUME KernelInv, TableInv, FlowInv, NEW s \in Sock, Program(s)
  PROVE  FlowInv'
<1>1. CallEnds(s) /\ UNCHANGED <<decoding, handled, runFailed>>
  BY DEF Program, FilterFamily, FilterProtocol, EnterSynSent, FilterTransition, Outcome
<1>2. mono' = mono /\ slept' = slept
  BY <1>1 DEF CallEnds
<1>3. CASE ring' = ring
  BY <1>1, <1>2, <1>3 DEF FlowInv
<1>4. ASSUME NEW h \in hit[s], IsOutcome(h), Reserve(s, Filled(s, h)), ring' # ring
      PROVE  FlowInv'
  <2>1. PICK e : e = Filled(s, h)
    OBVIOUS
  <2>2. e \in Event /\ Own(e) /\ Stamped(e, mono, slept)
    BY <1>4, <2>1, FilledOwn
  <2>3. Len(ring) < RingSize /\ ring' = Append(ring, e)
    BY <1>4, <2>1 DEF Reserve
  <2>4. PICK new : new = Append(ring, e)
    OBVIOUS
  <2>5. /\ new \in Seq(Event) /\ Len(new) <= RingSize
        /\ \A i \in 1..Len(new) : (i \in 1..Len(ring) /\ new[i] = ring[i]) \/ new[i] = e
    BY <2>2, <2>3, <2>4, FlowTyped, ProbeAssumption, SMTT(30)
  <2>6. \A i \in 1..Len(new) : Own(new[i]) /\ Stamped(new[i], mono, slept)
    BY <2>2, <2>5 DEF FlowInv
  <2> QED BY <1>1, <1>2, <2>3, <2>4, <2>5, <2>6 DEF FlowInv
<1>5. ring' = ring \/ \E h \in hit[s] : IsOutcome(h) /\ Reserve(s, Filled(s, h))
  BY DEF Program, FilterFamily, FilterProtocol, EnterSynSent, FilterTransition, Outcome
<1> QED BY <1>3, <1>4, <1>5

LEMMA ReadFlows ==
  ASSUME KernelInv, FlowInv, Read
  PROVE  /\ FlowInv' /\ ring # <<>> /\ decoding = {} /\ ring' = Tail(ring)
         /\ decoding' = {[event |-> Head(ring), mono |-> mono]}
<1>1. /\ ring # <<>> /\ decoding = {} /\ ring' = Tail(ring)
      /\ UNCHANGED <<sockVars, handled>>
  BY DEF Read
<1>2. PICK e, rest : e = Head(ring) /\ rest = Tail(ring)
  OBVIOUS
<1>3. /\ 1 \in 1..Len(ring) /\ e = ring[1]
      /\ rest \in Seq(Event) /\ Len(rest) <= RingSize
      /\ \A i \in 1..Len(rest) : i + 1 \in 1..Len(ring) /\ rest[i] = ring[i + 1]
  <2>1. Len(ring) <= RingSize /\ RingSize \in Nat
    BY ProbeAssumption DEF FlowInv
  <2>2. ring \in Seq(Event)
    BY FlowTyped
  <2> QED BY <1>1, <1>2, <2>1, <2>2, SMTT(30)
<1>4. e \in Event /\ Own(e) /\ Stamped(e, mono, slept)
  BY <1>3, FlowTyped DEF FlowInv
<1>5. Decodes(e)
  BY <1>4 DEF Own
<1>6. PICK d : d = [event |-> e, mono |-> mono]
  OBVIOUS
<1>7. decoding' = {d} /\ runFailed' = runFailed
  BY <1>2, <1>5, <1>6 DEF Read
<1>8. mono \in Nat /\ mono' = mono /\ slept' = slept
  BY <1>1, KernelTyped DEF sockVars
<1>9. d \in Decoding /\ d.event = e /\ d.mono = mono /\ mono <= mono
  <2>1. mono <= mono
    BY <1>8, SMTT(30)
  <2> QED BY <1>4, <1>6, <1>8, <2>1 DEF Decoding
<1>10. FlowInv'
  BY <1>1, <1>2, <1>3, <1>4, <1>7, <1>8, <1>9 DEF FlowInv
<1> QED BY <1>1, <1>2, <1>6, <1>7, <1>10

LEMMA HandleFlows ==
  ASSUME KernelInv, FlowInv, Handle
  PROVE  /\ FlowInv' /\ decoding' = {}
         /\ \E d, x : decoding = {d} /\ handled' = Append(handled, x) /\ x.event = d.event
<1>1. decoding' = {} /\ UNCHANGED <<sockVars, ring, runFailed>>
  BY DEF Handle
<1>2. PICK d \in decoding :
        handled' = Append(handled, [event |-> d.event, timestamp |-> WallTime(d), read |-> wall])
  BY DEF Handle
<1>3. decoding = {d}
  BY <1>2 DEF FlowInv
<1>4. /\ d.event \in Event /\ d.mono \in Nat
      /\ Own(d.event) /\ Stamped(d.event, d.mono, slept) /\ d.mono <= mono
  BY <1>2, FlowTyped DEF FlowInv
<1>5. PICK t \in Nat, a \in Nat, dm \in Nat, m \in Nat, z \in Nat :
        t = d.event.timestamp /\ a = d.event.at /\ dm = d.mono /\ m = mono /\ z = slept
  BY <1>4, KernelTyped DEF Event
<1>6. t <= dm /\ a <= t + z /\ dm <= m
  BY <1>4, <1>5 DEF Stamped
<1>7. PICK w : w = (m + z) + (t - dm)
  OBVIOUS
<1>8. w \in Int /\ m + z \in Nat /\ a <= w /\ w <= m + z
  BY <1>6, <1>7, SMTT(30)
<1>9. PICK x : x = [event |-> d.event, timestamp |-> w, read |-> m + z]
  OBVIOUS
<1>10. handled' = Append(handled, x)
  BY <1>2, <1>5, <1>7, <1>9 DEF WallTime, wall
<1>11. x \in Handled /\ x.event = d.event /\ x.timestamp = w /\ x.read = m + z
  BY <1>4, <1>8, <1>9 DEF Handled
<1>12. PICK new : new = Append(handled, x)
  OBVIOUS
<1>13. /\ new \in Seq(Handled)
       /\ \A i \in 1..Len(new) : (i \in 1..Len(handled) /\ new[i] = handled[i]) \/ new[i] = x
  BY <1>11, <1>12, FlowTyped, SMTT(30)
<1>14. ASSUME NEW i \in 1..Len(new)
       PROVE  Own(new[i].event) /\ new[i].event.at <= new[i].timestamp /\ new[i].timestamp <= new[i].read
  <2>1. CASE i \in 1..Len(handled) /\ new[i] = handled[i]
    BY <2>1 DEF FlowInv
  <2>2. CASE new[i] = x
    BY <1>4, <1>5, <1>8, <1>11, <2>2
  <2> QED BY <1>13, <2>1, <2>2
<1>15. mono' = mono /\ slept' = slept
  BY <1>1 DEF sockVars
<1>16. FlowInv'
  BY <1>1, <1>10, <1>12, <1>13, <1>14, <1>15 DEF FlowInv
<1> QED BY <1>1, <1>3, <1>10, <1>11, <1>16

-----------------------------------------------------------------------------
(* The probe: one event per outcome.                                       *)

\* With calls H and state t: not an active open, or its end has been seen.
Over(H, t) == (H = {} => t # "SYN_SENT") /\ \A h \in H : h.old # "SYN_SENT" /\ h.new # "SYN_SENT"

Ended(S) == S \subseteq 1..conns /\ \A s \in Sock : conn[s] \in S => Over(hit[s], st[s])

\* Wrote and Events, of the ring r, the record D in decoding and the handled h.
WroteOf(r, D, h) ==
  [i \in 1..(Len(r) + Cardinality(D) + Len(h)) |->
     IF i <= Len(h) THEN h[i].event.conn
     ELSE IF i <= Len(h) + Cardinality(D) THEN (CHOOSE d \in D : TRUE).event.conn
          ELSE r[i - Len(h) - Cardinality(D)].conn]

EventsOf(r, D, h) ==
  {r[i] : i \in 1..Len(r)} \cup {d.event : d \in D} \cup {h[i].event : i \in 1..Len(h)}

\* The connections W with an event against those that ended, S.
Counted(W, S, submitted, dropped) ==
  /\ \A i, j \in DOMAIN W : W[i] = W[j] => i = j
  /\ \A i \in DOMAIN W : W[i] \in S
  /\ IsFiniteSet(S) /\ Len(W) \in Nat /\ DOMAIN W = 1..Len(W)
  /\ Cardinality(S) = Len(W) + dropped
  /\ submitted = Len(W)

Untimed(E) == {e \in E : e.outcome = 0 /\ e.durationKnown = 0}

Noticed(E, missed) == IsFiniteSet(E) /\ Cardinality(Untimed(E)) <= missed

CountInv ==
  /\ stats \in [Stat -> Nat]
  /\ Ended(settled)
  /\ Counted(Wrote, settled, stats["EVENTS_SUBMITTED"], stats["RINGBUF_DROPPED"])
  /\ Noticed(Events, stats["TRACKING_MISSED"])

LEMMA OneOrNone ==
  /\ Cardinality({}) = 0
  /\ \A d : Cardinality({d}) = 1 /\ (CHOOSE x \in {d} : TRUE) = d
<1>1. Cardinality({}) = 0
  BY FS_EmptySet
<1>2. ASSUME NEW d
      PROVE  Cardinality({d}) = 1 /\ (CHOOSE x \in {d} : TRUE) = d
  <2>1. Cardinality({d}) = 1
    BY FS_Singleton
  <2> QED BY <2>1
<1> QED BY <1>1, <1>2

\* The shape of Wrote: a handled events, c in decoding, l in the ring.
Shape(W, r, l, x, c, h, a) ==
  /\ Len(W) = l + c + a /\ DOMAIN W = 1..(l + c + a) /\ W = [i \in DOMAIN W |-> W[i]]
  /\ \A i \in 1..(l + c + a) :
       W[i] = IF i <= a THEN h[i].event.conn
              ELSE IF i <= a + c THEN x.event.conn ELSE r[i - a - c].conn

LEMMA WroteShape ==
  ASSUME NEW r, NEW D, NEW h, Len(r) \in Nat, Len(h) \in Nat, Cardinality(D) \in Nat
  PROVE  Shape(WroteOf(r, D, h), r, Len(r), CHOOSE d \in D : TRUE, Cardinality(D), h, Len(h))
<1>1. PICK W : W = WroteOf(r, D, h)
  OBVIOUS
<1>2. PICK n \in Nat : n = Len(r) + Cardinality(D) + Len(h)
  <2>1. Len(r) + Cardinality(D) + Len(h) \in Nat
    BY SMTT(30)
  <2> QED BY <2>1
<1>3. DOMAIN W = 1..n /\ W = [i \in DOMAIN W |-> W[i]]
  <2>1. DOMAIN W = 1..n
    BY <1>1, <1>2 DEF WroteOf
  <2>2. W = [i \in DOMAIN W |-> W[i]]
    BY <1>1, SMTT(30) DEF WroteOf
  <2> QED BY <2>1, <2>2
<1>4. Len(W) = n
  BY <1>3, SMTT(30)
<1>5. \A i \in 1..n : W[i] = IF i <= Len(h) THEN h[i].event.conn
                             ELSE IF i <= Len(h) + Cardinality(D) THEN (CHOOSE d \in D : TRUE).event.conn
                                  ELSE r[i - Len(h) - Cardinality(D)].conn
  BY <1>1, <1>2 DEF WroteOf
<1> QED BY <1>1, <1>2, <1>3, <1>4, <1>5 DEF Shape

LEMMA SameShape ==
  ASSUME NEW V, NEW W, NEW n, DOMAIN V = 1..n, DOMAIN W = 1..n, \A i \in 1..n : V[i] = W[i],
         V = [i \in DOMAIN V |-> V[i]], W = [i \in DOMAIN W |-> W[i]]
  PROVE  V = W
<1>1. V = [i \in 1..n |-> V[i]] /\ W = [i \in 1..n |-> W[i]]
  OBVIOUS
<1>2. [i \in 1..n |-> V[i]] = [i \in 1..n |-> W[i]]
  BY SMTT(30)
<1> QED BY <1>1, <1>2

\* V is W and one more, c.
Longer(V, W, c) ==
  Len(V) = Len(W) + 1 /\ DOMAIN V = 1..Len(V) /\ V[Len(V)] = c /\ \A i \in 1..Len(W) : V[i] = W[i]

\* Submitting appends; reading and handling move an event on and change nothing.
LEMMA WroteGrows ==
  ASSUME NEW r \in Seq(Event), NEW e \in Event, NEW D, NEW h, Len(h) \in Nat, Cardinality(D) \in Nat,
         NEW W, W = WroteOf(r, D, h), NEW V, V = WroteOf(Append(r, e), D, h)
  PROVE  Longer(V, W, e.conn)
<1>1. PICK q, x : q = Append(r, e) /\ x = CHOOSE d \in D : TRUE
  OBVIOUS
<1>2. /\ Len(r) \in Nat /\ Len(q) \in Nat /\ Len(q) = Len(r) + 1 /\ q[Len(r) + 1] = e
      /\ \A i \in 1..Len(r) : q[i] = r[i]
  BY <1>1, SMTT(30)
<1>3. PICK a \in Nat, c \in Nat, l \in Nat : a = Len(h) /\ c = Cardinality(D) /\ l = Len(r)
  BY <1>2
<1>4. Shape(W, r, l, x, c, h, a)
  BY <1>1, <1>2, <1>3, WroteShape, SMTT(30)
<1>5. Shape(V, q, l + 1, x, c, h, a)
  BY <1>1, <1>2, <1>3, WroteShape
<1>6. /\ (l + 1) + c + a = (l + c + a) + 1 /\ (l + 1) + c + a \in 1..((l + 1) + c + a)
      /\ ~((l + 1) + c + a <= a) /\ ~((l + 1) + c + a <= a + c)
      /\ ((l + 1) + c + a) - a - c = l + 1
  BY SMTT(30)
<1>7. V[Len(V)] = e.conn
  <2>1. PICK n : n = (l + 1) + c + a
    OBVIOUS
  <2>2. Len(V) = n /\ n \in 1..n /\ ~(n <= a) /\ ~(n <= a + c) /\ n - a - c = l + 1
    BY <1>5, <1>6, <2>1 DEF Shape
  <2>3. V[n] = IF n <= a THEN h[n].event.conn
               ELSE IF n <= a + c THEN x.event.conn ELSE q[n - a - c].conn
    BY <1>5, <2>1, <2>2 DEF Shape
  <2>4. q[l + 1] = e
    BY <1>2, <1>3
  <2> QED BY <2>2, <2>3, <2>4
<1>8. ASSUME NEW i \in 1..(l + c + a)
      PROVE  V[i] = W[i]
  <2>1. i \in 1..((l + 1) + c + a) /\ (i <= a \/ i <= a + c \/ i - a - c \in 1..l)
    BY SMTT(30)
  <2>2. /\ W[i] = IF i <= a THEN h[i].event.conn
                  ELSE IF i <= a + c THEN x.event.conn ELSE r[i - a - c].conn
        /\ V[i] = IF i <= a THEN h[i].event.conn
                  ELSE IF i <= a + c THEN x.event.conn ELSE q[i - a - c].conn
    BY <1>4, <1>5, <2>1 DEF Shape
  <2>3. i - a - c \in 1..l => q[i - a - c] = r[i - a - c]
    BY <1>2, <1>3
  <2> QED BY <2>1, <2>2, <2>3
<1>9. Len(W) = l + c + a /\ Len(V) = (l + 1) + c + a /\ DOMAIN V = 1..Len(V)
  BY <1>4, <1>5 DEF Shape
<1> QED BY <1>6, <1>7, <1>8, <1>9 DEF Longer

LEMMA WroteRead ==
  ASSUME NEW r \in Seq(Event), r # <<>>, NEW h, Len(h) \in Nat, NEW d, d.event = Head(r)
  PROVE  WroteOf(Tail(r), {d}, h) = WroteOf(r, {}, h)
<1>1. PICK q, V, W, x : /\ q = Tail(r) /\ x = CHOOSE y \in {} : TRUE
                        /\ V = WroteOf(q, {d}, h) /\ W = WroteOf(r, {}, h)
  OBVIOUS
<1>2. /\ Len(r) \in Nat /\ Len(q) \in Nat /\ Len(r) = Len(q) + 1
      /\ Head(r) = r[1] /\ \A i \in 1..Len(q) : q[i] = r[i + 1]
  BY <1>1, SMTT(30)
<1>3. PICK a \in Nat, l \in Nat : a = Len(h) /\ l = Len(q)
  BY <1>2
<1>4. 0 \in Nat /\ 1 \in Nat
  BY SMTT(30)
<1>5. Shape(W, r, l + 1, x, 0, h, a)
  BY <1>1, <1>2, <1>3, <1>4, OneOrNone, WroteShape, SMTT(30)
<1>6. Shape(V, q, l, d, 1, h, a)
  <2>1. Cardinality({d}) = 1 /\ (CHOOSE z \in {d} : TRUE) = d
    BY OneOrNone
  <2>2. Shape(V, q, Len(q), CHOOSE z \in {d} : TRUE, Cardinality({d}), h, Len(h))
    BY <1>1, <1>2, <1>4, <2>1, WroteShape
  <2> QED BY <1>3, <2>1, <2>2
<1>7. PICK n : n = l + 1 + a
  OBVIOUS
<1>8. (l + 1) + 0 + a = n
  BY <1>7, SMTT(30)
<1>9. ASSUME NEW i \in 1..n
      PROVE  V[i] = W[i]
  <2>1. /\ V[i] = IF i <= a THEN h[i].event.conn
                  ELSE IF i <= a + 1 THEN d.event.conn ELSE q[i - a - 1].conn
        /\ W[i] = IF i <= a THEN h[i].event.conn
                  ELSE IF i <= a + 0 THEN x.event.conn ELSE r[i - a - 0].conn
    BY <1>5, <1>6, <1>7, <1>8 DEF Shape
  <2>2. CASE i <= a
    BY <2>1, <2>2
  <2>3. CASE i = a + 1
    <3>1. ~(i <= a) /\ ~(i <= a + 0) /\ i <= a + 1 /\ i - a - 0 = 1
      BY <2>3, SMTT(30)
    <3> QED BY <1>2, <2>1, <3>1
  <2>4. CASE ~(i <= a + 1)
    <3>1. /\ ~(i <= a) /\ ~(i <= a + 0)
          /\ i - a - 1 \in 1..l /\ (i - a - 1) + 1 = i - a - 0
      BY <1>7, <2>4, SMTT(30)
    <3> QED BY <1>2, <1>3, <2>1, <2>4, <3>1
  <2>5. i <= a \/ i = a + 1 \/ ~(i <= a + 1)
    BY <1>7, SMTT(30)
  <2> QED BY <2>2, <2>3, <2>4, <2>5
<1>10. V = W
  <2>1. DOMAIN V = 1..n /\ V = [i \in DOMAIN V |-> V[i]]
    BY <1>5, <1>6, <1>7, <1>8 DEF Shape
  <2>2. DOMAIN W = 1..n /\ W = [i \in DOMAIN W |-> W[i]]
    BY <1>5, <1>6, <1>7, <1>8 DEF Shape
  <2> QED BY <1>9, <2>1, <2>2, SameShape
<1> QED BY <1>1, <1>10

LEMMA WroteHandle ==
  ASSUME NEW r, Len(r) \in Nat, NEW h \in Seq(Handled), NEW d, NEW x \in Handled, x.event = d.event
  PROVE  WroteOf(r, {}, Append(h, x)) = WroteOf(r, {d}, h)
<1>1. PICK g, V, W, y : /\ g = Append(h, x) /\ y = CHOOSE z \in {} : TRUE
                        /\ V = WroteOf(r, {}, g) /\ W = WroteOf(r, {d}, h)
  OBVIOUS
<1>2. /\ Len(h) \in Nat /\ Len(g) \in Nat /\ Len(g) = Len(h) + 1
      /\ g[Len(h) + 1] = x /\ \A i \in 1..Len(h) : g[i] = h[i]
  BY <1>1, SMTT(30)
<1>3. PICK a \in Nat, l \in Nat : a = Len(h) /\ l = Len(r)
  BY <1>2
<1>4. 0 \in Nat /\ 1 \in Nat
  BY SMTT(30)
<1>5. Shape(V, r, l, y, 0, g, a + 1)
  <2>1. Cardinality({}) = 0 /\ Len(g) = a + 1 /\ a + 1 \in Nat
    BY <1>2, <1>3, OneOrNone
  <2> QED BY <1>1, <1>3, <1>4, <2>1, WroteShape
<1>6. Shape(W, r, l, d, 1, h, a)
  <2>1. Cardinality({d}) = 1 /\ (CHOOSE z \in {d} : TRUE) = d
    BY OneOrNone
  <2>2. Shape(W, r, Len(r), CHOOSE z \in {d} : TRUE, Cardinality({d}), h, Len(h))
    BY <1>1, <1>2, <1>4, <2>1, WroteShape
  <2> QED BY <1>3, <2>1, <2>2
<1>7. PICK n : n = l + 1 + a
  OBVIOUS
<1>8. l + 0 + (a + 1) = n
  BY <1>7, SMTT(30)
<1>9. ASSUME NEW i \in 1..n
      PROVE  V[i] = W[i]
  <2>1. /\ W[i] = IF i <= a THEN h[i].event.conn
                  ELSE IF i <= a + 1 THEN d.event.conn ELSE r[i - a - 1].conn
        /\ V[i] = IF i <= a + 1 THEN g[i].event.conn
                  ELSE IF i <= (a + 1) + 0 THEN y.event.conn ELSE r[i - (a + 1) - 0].conn
    BY <1>5, <1>6, <1>7, <1>8 DEF Shape
  <2>2. CASE i <= a
    <3>1. i <= a + 1 /\ i \in 1..a
      BY <1>7, <2>2, SMTT(30)
    <3> QED BY <1>2, <1>3, <2>1, <2>2, <3>1
  <2>3. CASE i = a + 1
    <3>1. ~(i <= a) /\ i <= a + 1
      BY <2>3, SMTT(30)
    <3> QED BY <1>2, <1>3, <2>1, <2>3, <3>1
  <2>4. CASE ~(i <= a + 1)
    <3>1. ~(i <= a) /\ ~(i <= (a + 1) + 0) /\ i - (a + 1) - 0 = i - a - 1
      BY <1>7, <2>4, SMTT(30)
    <3> QED BY <2>1, <2>4, <3>1
  <2>5. i <= a \/ i = a + 1 \/ ~(i <= a + 1)
    BY <1>7, SMTT(30)
  <2> QED BY <2>2, <2>3, <2>4, <2>5
<1>10. V = W
  <2>1. DOMAIN V = 1..n /\ V = [i \in DOMAIN V |-> V[i]]
    BY <1>5, <1>6, <1>7, <1>8 DEF Shape
  <2>2. DOMAIN W = 1..n /\ W = [i \in DOMAIN W |-> W[i]]
    BY <1>5, <1>6, <1>7, <1>8 DEF Shape
  <2> QED BY <1>9, <2>1, <2>2, SameShape
<1> QED BY <1>1, <1>10

LEMMA EventsGrow ==
  ASSUME NEW r \in Seq(Event), NEW e \in Event, NEW D, NEW h
  PROVE  EventsOf(Append(r, e), D, h) = EventsOf(r, D, h) \cup {e}
<1>1. PICK q : q = Append(r, e)
  OBVIOUS
<1>2. /\ Len(r) \in Nat /\ Len(q) = Len(r) + 1 /\ q[Len(r) + 1] = e /\ Len(r) + 1 \in 1..Len(q)
      /\ \A i \in 1..Len(r) : q[i] = r[i] /\ i \in 1..Len(q)
      /\ \A i \in 1..Len(q) : i = Len(r) + 1 \/ i \in 1..Len(r)
  BY <1>1, SMTT(30)
<1>3. {q[i] : i \in 1..Len(q)} = {r[i] : i \in 1..Len(r)} \cup {e}
  <2>1. ASSUME NEW i \in 1..Len(q)
        PROVE  q[i] = e \/ \E k \in 1..Len(r) : q[i] = r[k]
    BY <1>2
  <2>2. ASSUME NEW i \in 1..Len(r)
        PROVE  \E k \in 1..Len(q) : r[i] = q[k]
    BY <1>2
  <2>3. \E k \in 1..Len(q) : e = q[k]
    BY <1>2
  <2>4. ASSUME NEW x
        PROVE  x \in {q[i] : i \in 1..Len(q)} <=> x \in {r[i] : i \in 1..Len(r)} \cup {e}
    <3>1. (\E i \in 1..Len(q) : x = q[i]) <=> (x = e \/ \E i \in 1..Len(r) : x = r[i])
      <4>1. ASSUME NEW i \in 1..Len(q), x = q[i]
            PROVE  x = e \/ \E k \in 1..Len(r) : x = r[k]
        BY <2>1, <4>1
      <4>2. ASSUME NEW i \in 1..Len(r), x = r[i]
            PROVE  \E k \in 1..Len(q) : x = q[k]
        BY <2>2, <4>2
      <4> QED BY <2>3, <4>1, <4>2
    <3> QED BY <3>1
  <2> QED BY <2>4
<1> QED BY <1>1, <1>3, SMTT(30) DEF EventsOf

LEMMA EventsRead ==
  ASSUME NEW r \in Seq(Event), r # <<>>, NEW h, NEW d, d.event = Head(r)
  PROVE  EventsOf(Tail(r), {d}, h) = EventsOf(r, {}, h)
<1>1. PICK q : q = Tail(r)
  OBVIOUS
<1>2. /\ Head(r) = r[1] /\ 1 \in 1..Len(r)
      /\ \A i \in 1..Len(q) : q[i] = r[i + 1] /\ i + 1 \in 1..Len(r)
      /\ \A i \in 1..Len(r) : i = 1 \/ (i - 1 \in 1..Len(q) /\ q[i - 1] = r[i])
  BY <1>1, SMTT(30)
<1>3. {q[i] : i \in 1..Len(q)} \cup {d.event} = {r[i] : i \in 1..Len(r)}
  <2>1. ASSUME NEW i \in 1..Len(q)
        PROVE  \E k \in 1..Len(r) : q[i] = r[k]
    BY <1>2
  <2>2. ASSUME NEW i \in 1..Len(r)
        PROVE  r[i] = d.event \/ \E k \in 1..Len(q) : r[i] = q[k]
    BY <1>2
  <2>3. \E k \in 1..Len(r) : d.event = r[k]
    BY <1>2
  <2> QED BY <2>1, <2>2, <2>3, SMTT(30)
<1>4. {x.event : x \in {d}} = {d.event} /\ {x.event : x \in {}} = {}
  OBVIOUS
<1>5. /\ EventsOf(q, {d}, h) = {q[i] : i \in 1..Len(q)} \cup {d.event} \cup {h[i].event : i \in 1..Len(h)}
      /\ EventsOf(r, {}, h) = {r[i] : i \in 1..Len(r)} \cup {} \cup {h[i].event : i \in 1..Len(h)}
  BY <1>4 DEF EventsOf
<1>6. \A A : A \cup {} = A
  OBVIOUS
<1> QED BY <1>1, <1>3, <1>5, <1>6

LEMMA EventsHandle ==
  ASSUME NEW r, NEW h \in Seq(Handled), NEW d, NEW x \in Handled, x.event = d.event
  PROVE  EventsOf(r, {}, Append(h, x)) = EventsOf(r, {d}, h)
<1>1. PICK g : g = Append(h, x)
  OBVIOUS
<1>2. /\ Len(h) \in Nat /\ Len(g) = Len(h) + 1 /\ g[Len(h) + 1] = x /\ Len(h) + 1 \in 1..Len(g)
      /\ \A i \in 1..Len(h) : g[i] = h[i] /\ i \in 1..Len(g)
      /\ \A i \in 1..Len(g) : i = Len(h) + 1 \/ i \in 1..Len(h)
  BY <1>1, SMTT(30)
<1>3. {g[i].event : i \in 1..Len(g)} = {h[i].event : i \in 1..Len(h)} \cup {d.event}
  <2>1. ASSUME NEW i \in 1..Len(g)
        PROVE  g[i].event = d.event \/ \E k \in 1..Len(h) : g[i].event = h[k].event
    BY <1>2
  <2>2. ASSUME NEW i \in 1..Len(h)
        PROVE  \E k \in 1..Len(g) : h[i].event = g[k].event
    BY <1>2
  <2>3. \E k \in 1..Len(g) : d.event = g[k].event
    BY <1>2
  <2>4. ASSUME NEW y
        PROVE  y \in {g[i].event : i \in 1..Len(g)}
                 <=> y \in {h[i].event : i \in 1..Len(h)} \cup {d.event}
    <3>1. (\E i \in 1..Len(g) : y = g[i].event)
            <=> (y = d.event \/ \E i \in 1..Len(h) : y = h[i].event)
      <4>1. ASSUME NEW i \in 1..Len(g), y = g[i].event
            PROVE  y = d.event \/ \E k \in 1..Len(h) : y = h[k].event
        BY <2>1, <4>1
      <4>2. ASSUME NEW i \in 1..Len(h), y = h[i].event
            PROVE  \E k \in 1..Len(g) : y = g[k].event
        BY <2>2, <4>2
      <4> QED BY <2>3, <4>1, <4>2
    <3> QED BY <3>1
  <2> QED BY <2>4
<1>4. {y.event : y \in {d}} = {d.event} /\ {y.event : y \in {}} = {}
  OBVIOUS
<1> QED BY <1>1, <1>3, <1>4, SMTT(30) DEF EventsOf

\* The counters.
LEMMA StatIncTyped ==
  ASSUME stats \in [Stat -> Nat], NEW i \in Stat, StatInc(i)
  PROVE  stats' \in [Stat -> Nat] /\ \A j \in Stat : j # i => stats'[j] = stats[j]
<1>1. stats[i] + 1 \in Nat
  BY SMTT(30)
<1> QED BY <1>1 DEF StatInc

\* What ended stays ended.
LEMMA KernelSettles ==
  ASSUME KernelInv, Kernel, NEW S, Ended(S)
  PROVE  Ended(S)'
<1>1. conns \in Nat /\ S \subseteq 1..conns
  BY KernelTyped DEF Ended
<1>2. CASE ClockTick \/ Suspend
  <2>1. UNCHANGED <<st, conn, conns, hit>>
    BY <1>2, ClocksKeep
  <2> QED BY <2>1 DEF Ended
<1>3. ASSUME NEW s \in Sock, NEW new \in TcpState, SetState(s, new)
      PROVE  Ended(S)'
  <2>1. Moved(s, new)
    BY <1>3, SetStateMoves
  <2>2. 1..conns \subseteq 1..(conns + 1) /\ conns + 1 \notin 1..conns
    BY <1>1, SMTT(30)
  <2>3. S \subseteq 1..conns'
    BY <1>1, <2>1, <2>2 DEF Moved
  <2>4. ASSUME NEW r \in Sock, conn'[r] \in S
        PROVE  Over(hit'[r], st'[r])
    <3>1. CASE r # s
      <4>1. conn[r] \in S /\ hit'[r] = hit[r] /\ st'[r] = st[r]
        BY <2>1, <2>4, <3>1 DEF Moved
      <4> QED BY <4>1 DEF Ended
    <3>2. CASE r = s
      <4>1. conn'[s] = conn[s] /\ new # "SYN_SENT"
        BY <1>1, <2>1, <2>2, <2>4, <3>2 DEF Moved
      <4>2. st[s] # "SYN_SENT"
        BY <2>1, <2>4, <3>2, <4>1 DEF Moved, Ended, Over
      <4>3. PICK h : hit'[s] = {h} /\ h.old = st[s] /\ h.new = new
        BY <2>1 DEF Moved
      <4> QED BY <3>2, <4>1, <4>2, <4>3 DEF Over
    <3> QED BY <3>1, <3>2
  <2> QED BY <2>3, <2>4 DEF Ended
<1> QED BY <1>2, <1>3 DEF Kernel, StateChange

LEMMA CallSettles ==
  ASSUME KernelInv, NEW s \in Sock, CallEnds(s), NEW h \in hit[s], NEW S, Ended(S),
         NEW T, T = S \/ (T = S \cup {conn[s]} /\ h.new # "SYN_SENT")
  PROVE  Ended(T)'
<1>1. /\ hit'[s] = {} /\ \A r \in Sock : r # s => hit'[r] = hit[r]
      /\ UNCHANGED <<st, conn, conns>>
  BY CallEndsKeeps DEF CallEnds
<1>2. st[s] = h.new /\ conn[s] \in 1..conns
  BY DEF KernelInv, CallOK
<1>3. T \subseteq 1..conns
  BY <1>2 DEF Ended
<1>4. ASSUME NEW r \in Sock, conn[r] \in T
      PROVE  Over(hit'[r], st[r])
  <2>1. CASE r # s
    <3>1. conn[r] # conn[s]
      BY <2>1 DEF KernelInv
    <3>2. conn[r] \in S
      BY <1>4, <3>1
    <3> QED BY <1>1, <2>1, <3>2 DEF Ended
  <2>2. CASE r = s
    <3>1. st[s] # "SYN_SENT"
      BY <1>2, <1>4, <2>2 DEF Ended, Over
    <3> QED BY <1>1, <2>2, <3>1 DEF Over
  <2> QED BY <2>1, <2>2
<1> QED BY <1>1, <1>3, <1>4 DEF Ended

\* A connection that ends is counted: with an event, or as dropped.
LEMMA EventCounted ==
  ASSUME NEW W, NEW S, NEW submitted, NEW dropped \in Nat, Counted(W, S, submitted, dropped),
         NEW c, c \notin S, NEW V, Longer(V, W, c)
  PROVE  Counted(V, S \cup {c}, submitted + 1, dropped)
<1>1. PICK n \in Nat : n = Len(W)
  BY DEF Counted
<1>2. /\ \A i, j \in 1..n : W[i] = W[j] => i = j
      /\ \A i \in 1..n : W[i] \in S
      /\ IsFiniteSet(S) /\ Cardinality(S) = n + dropped /\ submitted = n
  BY <1>1 DEF Counted
<1>3. Len(V) = n + 1 /\ DOMAIN V = 1..(n + 1) /\ V[n + 1] = c /\ \A i \in 1..n : V[i] = W[i]
  BY <1>1 DEF Longer
<1>4. /\ n + 1 \in Nat /\ (n + dropped) + 1 = (n + 1) + dropped
      /\ \A i \in 1..(n + 1) : i \in 1..n \/ i = n + 1
  BY SMTT(30)
<1>5. \A i \in 1..n : V[i] \in S
  BY <1>2, <1>3
<1>6. ASSUME NEW i \in 1..(n + 1), NEW j \in 1..(n + 1), V[i] = V[j]
      PROVE  i = j
  <2>1. CASE i \in 1..n /\ j \in 1..n
    BY <1>2, <1>3, <1>6, <2>1
  <2>2. CASE i \in 1..n /\ j = n + 1
    BY <1>3, <1>5, <1>6, <2>2
  <2>3. CASE i = n + 1 /\ j \in 1..n
    BY <1>3, <1>5, <1>6, <2>3
  <2> QED BY <1>4, <2>1, <2>2, <2>3
<1>7. \A i \in 1..(n + 1) : V[i] \in S \cup {c}
  BY <1>3, <1>4, <1>5
<1>8. IsFiniteSet(S \cup {c}) /\ Cardinality(S \cup {c}) = Cardinality(S) + 1
  BY <1>2, FS_AddElement
<1> QED BY <1>2, <1>3, <1>4, <1>6, <1>7, <1>8 DEF Counted

LEMMA DropCounted ==
  ASSUME NEW W, NEW S, NEW submitted, NEW dropped \in Nat, Counted(W, S, submitted, dropped),
         NEW c, c \notin S
  PROVE  Counted(W, S \cup {c}, submitted, dropped + 1)
<1>1. PICK n \in Nat : n = Len(W)
  BY DEF Counted
<1>2. IsFiniteSet(S) /\ Cardinality(S) = n + dropped
  BY <1>1 DEF Counted
<1>3. IsFiniteSet(S \cup {c}) /\ Cardinality(S \cup {c}) = Cardinality(S) + 1
  BY <1>2, FS_AddElement
<1>4. (n + dropped) + 1 = n + (dropped + 1)
  BY SMTT(30)
<1> QED BY <1>1, <1>2, <1>3, <1>4 DEF Counted

\* A success without a duration is noticed.
LEMMA EventNoticed ==
  ASSUME NEW E, NEW m \in Nat, Noticed(E, m), NEW e, NEW k \in Nat, m <= k,
         e.outcome = 0 /\ e.durationKnown = 0 => k = m + 1
  PROVE  Noticed(E \cup {e}, k)
<1>1. IsFiniteSet(E) /\ Cardinality(Untimed(E)) <= m
  BY DEF Noticed
<1>2. IsFiniteSet(E \cup {e})
  BY <1>1, FS_AddElement
<1>3. PICK U : U = Untimed(E)
  OBVIOUS
<1>4. U \subseteq E
  BY <1>3 DEF Untimed
<1>5. IsFiniteSet(U)
  BY <1>1, <1>4, FS_Subset
<1>6. Cardinality(U) \in Nat
  BY <1>5, FS_CardinalityType
<1>7. CASE e.outcome = 0 /\ e.durationKnown = 0
  <2>1. Untimed(E \cup {e}) = U \cup {e}
    BY <1>3, <1>7 DEF Untimed
  <2>2. CASE e \in U
    <3>1. U \cup {e} = U
      BY <2>2
    <3>2. Cardinality(U) <= m + 1
      BY <1>1, <1>3, <1>6, SMTT(30)
    <3> QED BY <1>2, <1>7, <2>1, <3>1, <3>2 DEF Noticed
  <2>3. CASE e \notin U
    <3>1. Cardinality(U \cup {e}) = Cardinality(U) + 1
      BY <1>5, <2>3, FS_AddElement
    <3>2. Cardinality(U) + 1 <= m + 1
      BY <1>1, <1>3, <1>6, SMTT(30)
    <3> QED BY <1>2, <1>7, <2>1, <3>1, <3>2 DEF Noticed
  <2> QED BY <2>2, <2>3
<1>8. CASE ~(e.outcome = 0 /\ e.durationKnown = 0)
  <2>1. Untimed(E \cup {e}) = U
    BY <1>3, <1>8 DEF Untimed
  <2>2. Cardinality(U) <= k
    BY <1>1, <1>3, <1>6, SMTT(30)
  <2> QED BY <1>2, <2>1, <2>2 DEF Noticed
<1> QED BY <1>7, <1>8

LEMMA StillNoticed ==
  ASSUME NEW E, NEW m \in Nat, Noticed(E, m), NEW k \in Nat, m <= k
  PROVE  Noticed(E, k)
<1>1. Untimed(E) \subseteq E
  BY DEF Untimed
<1>2. Cardinality(Untimed(E)) \in Nat
  BY <1>1, FS_Subset, FS_CardinalityType DEF Noticed
<1>3. Cardinality(Untimed(E)) <= k
  BY <1>2, SMTT(30) DEF Noticed
<1> QED BY <1>3 DEF Noticed

LEMMA CountTyped ==
  ASSUME CountInv
  PROVE  /\ stats["EVENTS_SUBMITTED"] \in Nat /\ stats["RINGBUF_DROPPED"] \in Nat
         /\ stats["TRACKING_MISSED"] \in Nat
BY DEF CountInv, Stat

LEMMA AsOf ==
  /\ Wrote = WroteOf(ring, decoding, handled) /\ Wrote' = WroteOf(ring', decoding', handled')
  /\ Events = EventsOf(ring, decoding, handled) /\ Events' = EventsOf(ring', decoding', handled')
BY DEF Wrote, WroteOf, Events, EventsOf

\* Calls that see no end of an active open.
LEMMA OtherCallCounts ==
  ASSUME KernelInv, CountInv, NEW s \in Sock,
         FilterFamily(s) \/ FilterProtocol(s) \/ EnterSynSent(s) \/ FilterTransition(s)
  PROVE  CountInv'
<1>1. CallEnds(s) /\ hit[s] # {} /\ UNCHANGED <<ring, decoding, handled, settled>>
  BY DEF FilterFamily, FilterProtocol, EnterSynSent, FilterTransition
<1>2. stats' = stats \/ \E i \in {"FILTERED_FAMILY", "FILTERED_PROTOCOL", "FILTERED_TRANSITION",
                                  "TRACKING_FAILED"} : StatInc(i)
  BY DEF FilterFamily, FilterProtocol, EnterSynSent, FilterTransition
<1>3. /\ stats' \in [Stat -> Nat]
      /\ \A j \in {"EVENTS_SUBMITTED", "RINGBUF_DROPPED", "TRACKING_MISSED"} : stats'[j] = stats[j]
  <2>1. stats \in [Stat -> Nat]
    BY DEF CountInv
  <2>2. ASSUME NEW i \in {"FILTERED_FAMILY", "FILTERED_PROTOCOL", "FILTERED_TRANSITION",
                          "TRACKING_FAILED"}, StatInc(i)
        PROVE  /\ stats' \in [Stat -> Nat]
               /\ \A j \in {"EVENTS_SUBMITTED", "RINGBUF_DROPPED", "TRACKING_MISSED"} :
                    stats'[j] = stats[j]
    <3>1. /\ i \in Stat
          /\ \A j \in {"EVENTS_SUBMITTED", "RINGBUF_DROPPED", "TRACKING_MISSED"} : j \in Stat /\ j # i
      BY DEF Stat
    <3> QED BY <2>1, <2>2, <3>1, StatIncTyped
  <2> QED BY <1>2, <2>1, <2>2
<1>4. Ended(settled)'
  <2>1. PICK h \in hit[s] : TRUE
    BY <1>1
  <2> QED BY <1>1, <2>1, CallSettles DEF CountInv
<1>5. Wrote' = Wrote /\ Events' = Events
  BY <1>1, AsOf
<1> QED BY <1>1, <1>3, <1>4, <1>5 DEF CountInv

\* The counters after an outcome, for a table that has or has not the start.
LEMMA CountersMove ==
  ASSUME CountInv, NEW s \in Sock, NEW i \in {"EVENTS_SUBMITTED", "RINGBUF_DROPPED"},
         stats' = Bump(Missed(s), i, TRUE)
  PROVE  /\ stats' \in [Stat -> Nat] /\ stats'[i] = stats[i] + 1
         /\ \A j \in {"EVENTS_SUBMITTED", "RINGBUF_DROPPED"} : j # i => stats'[j] = stats[j]
         /\ stats["TRACKING_MISSED"] <= stats'["TRACKING_MISSED"]
         /\ starts[s] = Absent => stats'["TRACKING_MISSED"] = stats["TRACKING_MISSED"] + 1
<1>1. stats \in [Stat -> Nat] /\ "TRACKING_MISSED" \in Stat /\ i \in Stat /\ i # "TRACKING_MISSED"
  BY DEF CountInv, Stat
<1>2. \A j \in {"EVENTS_SUBMITTED", "RINGBUF_DROPPED"} : j \in Stat /\ j # "TRACKING_MISSED"
  BY DEF Stat
<1>3. PICK m : m = Missed(s)
  OBVIOUS
<1>5. /\ m \in [Stat -> Nat] /\ \A j \in Stat : j # "TRACKING_MISSED" => m[j] = stats[j]
      /\ starts[s] = Absent => m["TRACKING_MISSED"] = stats["TRACKING_MISSED"] + 1
      /\ ~(starts[s] = Absent) => m["TRACKING_MISSED"] = stats["TRACKING_MISSED"]
  <2>1. m = Bump(stats, "TRACKING_MISSED", starts[s] = Absent)
    BY <1>3 DEF Missed
  <2>2. stats["TRACKING_MISSED"] + 1 \in Nat
    BY <1>1, SMTT(30)
  <2>3. CASE starts[s] = Absent
    <3>1. m = [stats EXCEPT !["TRACKING_MISSED"] = stats["TRACKING_MISSED"] + 1]
      BY <2>1, <2>3 DEF Bump
    <3> QED BY <1>1, <2>2, <2>3, <3>1
  <2>4. CASE ~(starts[s] = Absent)
    <3>1. m = stats
      BY <2>1, <2>4 DEF Bump
    <3> QED BY <1>1, <2>4, <3>1
  <2> QED BY <2>3, <2>4
<1>6. /\ stats' \in [Stat -> Nat] /\ \A j \in Stat : j # i => stats'[j] = m[j]
      /\ stats'[i] = m[i] + 1
  <2>1. m[i] + 1 \in Nat
    BY <1>1, <1>5, SMTT(30)
  <2>2. stats' = [m EXCEPT ![i] = m[i] + 1]
    BY <1>3 DEF Bump
  <2> QED BY <1>1, <1>5, <2>1, <2>2
<1>7. \A n \in Nat : n <= n + 1 /\ n <= n
  BY SMTT(30)
<1>8. stats["TRACKING_MISSED"] \in Nat
  BY <1>1
<1> QED BY <1>1, <1>2, <1>5, <1>6, <1>7, <1>8

LEMMA OutcomeCounts ==
  ASSUME KernelInv, TableInv, FlowInv, CountInv, NEW s \in Sock, Outcome(s)
  PROVE  CountInv'
<1>1. /\ CallEnds(s) /\ settled' = settled \cup {conn[s]}
      /\ UNCHANGED <<decoding, handled>>
  BY DEF Outcome
<1>2. PICK h \in hit[s] : IsOutcome(h) /\ h.new # "SYN_SENT" /\ Reserve(s, Filled(s, h))
  BY DEF Outcome
<1>3. Ended(settled)'
  BY <1>1, <1>2, CallSettles DEF CountInv
<1>4. conn[s] \notin settled
  BY <1>2 DEF CountInv, Ended, Over, IsOutcome
<1>5. PICK e : e = Filled(s, h)
  OBVIOUS
<1>6. e \in Event /\ e.conn = conn[s] /\ (e.outcome = 0 /\ e.durationKnown = 0 => starts[s] = Absent)
  BY <1>2, <1>5, FilledOwn
<1>7a. PICK E, W : E = Events /\ W = Wrote
  OBVIOUS
<1>7b. PICK n \in Nat, d \in Nat, m \in Nat :
         n = stats["EVENTS_SUBMITTED"] /\ d = stats["RINGBUF_DROPPED"] /\ m = stats["TRACKING_MISSED"]
  BY CountTyped
<1>7. /\ E = Events /\ W = Wrote /\ n = stats["EVENTS_SUBMITTED"]
      /\ d = stats["RINGBUF_DROPPED"] /\ m = stats["TRACKING_MISSED"]
  BY <1>7a, <1>7b
<1>8. Counted(W, settled, n, d) /\ Noticed(E, m)
  BY <1>7 DEF CountInv
<1>9. CASE Len(ring) < RingSize
  <2>1. ring' = Append(ring, e) /\ stats' = Bump(Missed(s), "EVENTS_SUBMITTED", TRUE)
    BY <1>2, <1>5, <1>9 DEF Reserve
  <2>2. /\ stats' \in [Stat -> Nat] /\ stats'["EVENTS_SUBMITTED"] = n + 1 /\ stats'["RINGBUF_DROPPED"] = d
        /\ m <= stats'["TRACKING_MISSED"]
        /\ starts[s] = Absent => stats'["TRACKING_MISSED"] = m + 1
    BY <1>7, <2>1, CountersMove
  <2>3. Longer(Wrote', W, conn[s])
    <3>1. Cardinality(decoding) \in Nat /\ Len(handled) \in Nat /\ ring \in Seq(Event)
      <4>1. ASSUME NEW x \in decoding
            PROVE  decoding = {x}
        BY DEF FlowInv
      <4>2. 0 \in Nat /\ 1 \in Nat
        BY SMTT(30)
      <4> QED BY <4>1, <4>2, OneOrNone, FlowTyped
    <3>2. Wrote' = WroteOf(Append(ring, e), decoding, handled) /\ W = WroteOf(ring, decoding, handled)
      BY <1>1, <1>7, <2>1, AsOf
    <3>3. Longer(Wrote', W, e.conn)
      BY <1>6, <3>1, <3>2, WroteGrows
    <3> QED BY <1>6, <3>3
  <2>4. Counted(Wrote', settled', n + 1, d)
    <3>1. Counted(Wrote', settled \cup {conn[s]}, n + 1, d)
      BY <1>4, <1>8, <2>3, EventCounted
    <3> QED BY <1>1, <3>1
  <2>5. Events' = E \cup {e}
    <3>1. Events' = EventsOf(Append(ring, e), decoding, handled) /\ E = EventsOf(ring, decoding, handled)
      BY <1>1, <1>7, <2>1, AsOf
    <3>2. ring \in Seq(Event)
      BY FlowTyped
    <3>3. EventsOf(Append(ring, e), decoding, handled) = EventsOf(ring, decoding, handled) \cup {e}
      BY <1>6, <3>2, EventsGrow, SMTT(30)
    <3> QED BY <3>1, <3>3
  <2>6. PICK k \in Nat : k = stats'["TRACKING_MISSED"]
    BY <2>2 DEF Stat
  <2>7. Noticed(E \cup {e}, k)
    BY <1>6, <1>8, <2>2, <2>6, EventNoticed
  <2> QED BY <1>3, <2>2, <2>4, <2>5, <2>6, <2>7 DEF CountInv
<1>10. CASE ~(Len(ring) < RingSize)
  <2>1. ring' = ring /\ stats' = Bump(Missed(s), "RINGBUF_DROPPED", TRUE)
    BY <1>2, <1>5, <1>10 DEF Reserve
  <2>2. /\ stats' \in [Stat -> Nat] /\ stats'["RINGBUF_DROPPED"] = d + 1 /\ stats'["EVENTS_SUBMITTED"] = n
        /\ m <= stats'["TRACKING_MISSED"]
    BY <1>7, <2>1, CountersMove
  <2>3. Wrote' = W /\ Events' = E
    BY <1>1, <1>7, <2>1, AsOf
  <2>4. Counted(W, settled \cup {conn[s]}, n, d + 1)
    BY <1>4, <1>8, DropCounted
  <2>5. PICK k \in Nat : k = stats'["TRACKING_MISSED"]
    BY <2>2 DEF Stat
  <2>6. Noticed(E, k)
    BY <1>8, <2>2, <2>5, StillNoticed
  <2> QED BY <1>1, <1>3, <2>2, <2>3, <2>4, <2>5, <2>6 DEF CountInv
<1> QED BY <1>9, <1>10

LEMMA CollectorCounts ==
  ASSUME KernelInv, FlowInv, CountInv, Read \/ Handle
  PROVE  CountInv'
<1>1. UNCHANGED <<sockVars, stats, settled>>
  BY DEF Read, Handle
<1>2. Ended(settled)' = Ended(settled)
  BY <1>1 DEF Ended, sockVars
<1>3. Wrote' = Wrote /\ Events' = Events
  <2>1. CASE Read
    <3>1. PICK d : d = [event |-> Head(ring), mono |-> mono]
      OBVIOUS
    <3>2. ring # <<>> /\ decoding = {} /\ ring' = Tail(ring) /\ decoding' = {d}
      BY <2>1, <3>1, ReadFlows
    <3>3. d.event = Head(ring) /\ handled' = handled
      BY <2>1, <3>1 DEF Read
    <3>4. WroteOf(Tail(ring), {d}, handled) = WroteOf(ring, {}, handled)
      BY <3>2, <3>3, FlowTyped, WroteRead
    <3>5. EventsOf(Tail(ring), {d}, handled) = EventsOf(ring, {}, handled)
      BY <3>2, <3>3, FlowTyped, EventsRead
    <3> QED BY <3>2, <3>3, <3>4, <3>5, AsOf
  <2>2. CASE Handle
    <3>1. decoding' = {} /\ ring' = ring /\ FlowInv'
      BY <2>2, HandleFlows DEF Handle
    <3>2. PICK d, x : decoding = {d} /\ handled' = Append(handled, x) /\ x.event = d.event
      BY <2>2, HandleFlows
    <3>3. x \in Handled
      <4>1. handled' \in Seq(Handled) /\ handled \in Seq(Handled)
        BY <3>1, FlowTyped DEF FlowInv
      <4> QED BY <3>2, <4>1, SMTT(30)
    <3>4. WroteOf(ring, {}, Append(handled, x)) = WroteOf(ring, {d}, handled)
      BY <3>2, <3>3, FlowTyped, WroteHandle
    <3>5. EventsOf(ring, {}, Append(handled, x)) = EventsOf(ring, {d}, handled)
      BY <3>2, <3>3, FlowTyped, EventsHandle
    <3> QED BY <3>1, <3>2, <3>4, <3>5, AsOf
  <2> QED BY <2>1, <2>2
<1> QED BY <1>1, <1>2, <1>3 DEF CountInv

-----------------------------------------------------------------------------
(* The theorems.                                                           *)

ProbeInv == KernelInv /\ TableInv /\ FlowInv /\ CountInv

LEMMA ProbeInvInit == ProbeInit => ProbeInv
<1> SUFFICES ASSUME ProbeInit
             PROVE  ProbeInv
  OBVIOUS
<1>1. KernelInv
  BY KernelInvInit DEF ProbeInit
<1>2. TableInv
  <2>1. Absent \in Int
    BY SMTT(30) DEF Absent
  <2> QED BY <2>1 DEF ProbeInit, TableInv, Tracking
<1>3. ring = <<>> /\ decoding = {} /\ handled = <<>> /\ runFailed = FALSE /\ settled = {}
  BY DEF ProbeInit
<1>4. /\ \A S : <<>> \in Seq(S)
      /\ Len(<<>>) = 0 /\ 0 <= RingSize /\ 0 \in Nat /\ 0 = 0 + 0 /\ 0 <= 0 /\ 1..0 = {}
  BY ProbeAssumption, SMTT(30)
<1>5. FlowInv
  BY <1>3, <1>4 DEF FlowInv
<1>6. Ended(settled)
  BY <1>3 DEF Ended
<1>7. stats \in [Stat -> Nat] /\ \A i \in Stat : stats[i] = 0
  BY <1>4 DEF ProbeInit
<1>8. Counted(Wrote, settled, 0, 0)
  <2>1. Shape(Wrote, ring, 0, CHOOSE d \in {} : TRUE, 0, handled, 0)
    BY <1>3, <1>4, AsOf, OneOrNone, WroteShape
  <2>2. Len(Wrote) = 0 /\ DOMAIN Wrote = {}
    <3>1. 0 + 0 + 0 = 0
      BY SMTT(30)
    <3> QED BY <1>4, <2>1, <3>1 DEF Shape
  <2>3. IsFiniteSet(settled) /\ Cardinality(settled) = 0
    BY <1>3, FS_EmptySet
  <2> QED BY <1>4, <2>2, <2>3 DEF Counted
<1>9. Noticed(Events, 0)
  <2>1. Events = {} /\ Untimed({}) = {}
    BY <1>3, <1>4 DEF Events, Untimed
  <2>2. IsFiniteSet({}) /\ Cardinality({}) = 0
    BY FS_EmptySet
  <2> QED BY <1>4, <2>1, <2>2 DEF Noticed
<1>10. CountInv
  BY <1>6, <1>7, <1>8, <1>9 DEF CountInv, Stat
<1> QED BY <1>1, <1>2, <1>5, <1>10 DEF ProbeInv

LEMMA ProbeInvStep ==
  ASSUME ProbeInv, [ProbeNext]_<<sockVars, probeVars>>
  PROVE  ProbeInv'
<1>1. KernelInv /\ TableInv /\ FlowInv /\ CountInv
  BY DEF ProbeInv
<1>2. ASSUME NEW s \in Sock, Program(s)
      PROVE  ProbeInv'
  <2>1. CountInv'
    BY <1>1, <1>2, OtherCallCounts, OutcomeCounts DEF Program
  <2> QED BY <1>1, <1>2, <2>1, ProgramTracks, ProgramFlows DEF ProbeInv
<1>3. CASE Read \/ Handle
  <2>1. UNCHANGED <<sockVars, starts>>
    BY <1>3 DEF Read, Handle
  <2>2. KernelInv' /\ TableInv'
    BY <1>1, <2>1 DEF KernelInv, SocketsTypeOK, TableInv, sockVars
  <2> QED BY <1>1, <1>3, <2>2, ReadFlows, HandleFlows, CollectorCounts DEF ProbeInv
<1>4. CASE Kernel /\ UNCHANGED probeVars
  <2>1. CountInv'
    <3>1. Ended(settled)'
      BY <1>1, <1>4, KernelSettles DEF CountInv, probeVars
    <3>2. UNCHANGED <<ring, decoding, handled, settled, stats>>
      BY <1>4 DEF probeVars
    <3>3. Wrote' = Wrote /\ Events' = Events
      BY <3>2, AsOf
    <3> QED BY <1>1, <3>1, <3>2, <3>3 DEF CountInv
  <2>2. KernelInv'
    BY <1>1, <1>4, ClocksKeep, SetStateMoves DEF Kernel, StateChange
  <2>3. TableInv' /\ FlowInv'
    BY <1>1, <1>4, KernelTracks, KernelFlows DEF probeVars
  <2> QED BY <2>1, <2>2, <2>3 DEF ProbeInv
<1>5. CASE UNCHANGED <<sockVars, probeVars>>
  <2>1. /\ UNCHANGED <<st, kind, conn, syn, conns, changes, hit, mono, slept>>
        /\ UNCHANGED <<starts, stats, ring, decoding, handled, runFailed, settled>>
    BY <1>5 DEF sockVars, probeVars
  <2>2. KernelInv' /\ TableInv' /\ FlowInv'
    BY <1>1, <2>1 DEF KernelInv, SocketsTypeOK, TableInv, FlowInv
  <2>3. Wrote' = Wrote /\ Events' = Events
    BY <2>1, AsOf
  <2>4. CountInv'
    BY <1>1, <2>1, <2>3 DEF CountInv, Ended
  <2> QED BY <2>2, <2>4 DEF ProbeInv
<1> QED BY <1>2, <1>3, <1>4, <1>5 DEF ProbeNext

\* The times of an event are its own connection's (trace_inet_sock_set_state, wallTime):
\* a start that is in the table is that of the connection the socket has now, because
\* every end of an active open takes it out.
THEOREM OwnTimes == ProbeSpec => []TimesAreOwn
<1>1. ProbeInv => TimesAreOwn
  <2> SUFFICES ASSUME ProbeInv
               PROVE  TimesAreOwn
    OBVIOUS
  <2>1. \A e \in Events : Own(e)
    <3>1. /\ \A i \in 1..Len(ring) : Own(ring[i])
          /\ \A d \in decoding : Own(d.event)
          /\ \A i \in 1..Len(handled) : Own(handled[i].event)
      BY DEF ProbeInv, FlowInv
    <3>2. ASSUME NEW e \in Events
          PROVE  \/ \E i \in 1..Len(ring) : e = ring[i]
                 \/ \E d \in decoding : e = d.event
                 \/ \E i \in 1..Len(handled) : e = handled[i].event
      BY <3>2 DEF Events
    <3> QED BY <3>1, <3>2
  <2> QED BY <2>1 DEF ProbeInv, FlowInv, TimesAreOwn, Own
<1> QED BY <1>1, ProbeInvInit, ProbeInvStep, PTL DEF ProbeSpec

\* Every active open whose end trace_inet_sock_set_state sees has one event or is counted
\* as dropped, and a success without a duration is counted as missed, however calls for
\* different sockets, the collector and the reuse of socket addresses interleave.
THEOREM OneEvent == ProbeSpec => []OneEventPerOutcome
<1>1. ProbeInv => OneEventPerOutcome
  <2> SUFFICES ASSUME ProbeInv
               PROVE  OneEventPerOutcome
    OBVIOUS
  <2>1. Noticed(Events, stats["TRACKING_MISSED"])
    BY DEF ProbeInv, CountInv
  <2>2. Cardinality({e \in Events : e.outcome = 0 /\ e.durationKnown = 0}) <= stats["TRACKING_MISSED"]
    BY <2>1 DEF Noticed, Untimed
  <2>3. Counted(Wrote, settled, stats["EVENTS_SUBMITTED"], stats["RINGBUF_DROPPED"])
    BY DEF ProbeInv, CountInv
  <2> QED BY <2>2, <2>3 DEF Counted, OneEventPerOutcome
<1> QED BY <1>1, ProbeInvInit, ProbeInvStep, PTL DEF ProbeSpec

\* The probe's table, counters and ring, and the collector's record, have their types;
\* the ring is never over its size, and the collector decodes one record at a time.
THEOREM ProbeTyped == ProbeSpec => []ProbeTypeOK
<1>1. ProbeInv => ProbeTypeOK
  <2> SUFFICES ASSUME ProbeInv
               PROVE  ProbeTypeOK
    OBVIOUS
  <2>1. Cardinality(decoding) <= 1
    <3>1. decoding = {} \/ \E d : decoding = {d}
      <4>1. \A c, d \in decoding : c = d
        BY DEF ProbeInv, FlowInv
      <4>2. ASSUME NEW d \in decoding
            PROVE  decoding = {d}
        BY <4>1
      <4> QED BY <4>2
    <3>2. Cardinality(decoding) = 0 \/ Cardinality(decoding) = 1
      BY <3>1, OneOrNone
    <3> QED BY <3>2, SMTT(30)
  <2>2. SocketsTypeOK /\ starts \in [Sock -> Int] /\ stats \in [Stat -> Nat] /\ settled \subseteq 1..conns
    BY DEF ProbeInv, KernelInv, TableInv, CountInv, Ended
  <2>3. /\ ring \in Seq(Event) /\ Len(ring) <= RingSize
        /\ decoding \subseteq [event : Event, mono : Nat]
        /\ handled \in Seq([event : Event, timestamp : Int, read : Nat])
        /\ runFailed \in BOOLEAN
    BY DEF ProbeInv, FlowInv, Decoding, Handled
  <2> QED BY <2>1, <2>2, <2>3 DEF ProbeTypeOK
<1> QED BY <1>1, ProbeInvInit, ProbeInvStep, PTL DEF ProbeSpec

-----------------------------------------------------------------------------
(* The byte-accounting spike.                                              *)

\* With calls H and state t: established, and its end still to be seen.
Live(H, t) ==
  /\ H = {} => t \in {"ESTABLISHED", "DOWN"}
  /\ \A h \in H : h.old \in {"ESTABLISHED", "DOWN"}

ByteReport == [conn : Nat, total : Nat]

\* The table A, the connections O it has held, those V it lost, and the reports r, with
\* c the connection of each socket: what was held is lost, in the table, or reported,
\* and nothing is two of these.
Account(A, O, V, r, c) ==
  /\ A \subseteq Sock /\ V \subseteq O
  /\ \A s \in A : c[s] \in O \ V
  /\ \A i \in 1..Len(r) : r[i].conn \in O \ V /\ \A s \in A : c[s] # r[i].conn
  /\ \A i, j \in 1..Len(r) : r[i].conn = r[j].conn => i = j
  /\ \A x \in O \ V : (\E i \in 1..Len(r) : r[i].conn = x) \/ (\E s \in A : c[s] = x)

OwnConn(c) == \A p, q \in Sock : c[p] = c[q] => p = q

\* The counters e, z and n of ESTABLISHED, CLOSED and CLOSED_ZERO.
SpikeBalance(e, z, n, A, V) ==
  /\ e \in Nat /\ z \in Nat /\ n \in Nat
  /\ IsFiniteSet(A) /\ IsFiniteSet(V)
  /\ e = z + n + Cardinality(A) + Cardinality(V)

\* f is the running sum of the totals of r.
IsSum(f, r) == f = [n \in 0..Len(r) |-> IF n = 0 THEN 0 ELSE f[n - 1] + r[n].total]
Summed(r, b) == b \in Nat /\ \E f : IsSum(f, r) /\ f[Len(r)] = b

SpikeInv ==
  /\ KernelInv /\ Ended(opened)
  /\ \A s \in activeOpens : kind[s] = "tcp4" /\ Live(hit[s], st[s])
  /\ reported \in Seq(ByteReport)
  /\ Account(activeOpens, opened, evicted, reported, conn)
  /\ spikeStats \in [SpikeStat -> Nat]
  /\ SpikeBalance(spikeStats["ESTABLISHED"], spikeStats["CLOSED"], spikeStats["CLOSED_ZERO"],
                  activeOpens, evicted)
  /\ Summed(reported, spikeStats["BYTES_TOTAL"])

\* s enters the table A, which becomes B; those it puts out join V.
Enters(s, A, B, V, W, c) ==
  B \subseteq A \cup {s} /\ W = V \cup {c[x] : x \in (A \cup {s}) \ B}

LEMMA AccountOpens ==
  ASSUME NEW A, NEW O, NEW V, NEW r, NEW c, Account(A, O, V, r, c), OwnConn(c),
         NEW s \in Sock, c[s] \notin O, NEW B, NEW W, Enters(s, A, B, V, W, c)
  PROVE  Account(B, O \cup {c[s]}, W, r, c)
<1>1. A \subseteq Sock /\ V \subseteq O /\ B \subseteq A \cup {s} /\ B \subseteq Sock
  BY DEF Account, Enters
<1>2. \A y : y \in W <=> (y \in V \/ \E x \in (A \cup {s}) \ B : y = c[x])
  BY DEF Enters
<1>3. W \subseteq O \cup {c[s]}
  <2>1. \A x \in A \cup {s} : c[x] \in O \cup {c[s]}
    BY DEF Account
  <2>2. ASSUME NEW y \in W
        PROVE  y \in O \cup {c[s]}
    <3>1. CASE y \in V
      BY <1>1, <3>1
    <3>2. CASE \E x \in (A \cup {s}) \ B : y = c[x]
      BY <2>1, <3>2
    <3> QED BY <1>2, <2>2, <3>1, <3>2
  <2> QED BY <2>2
<1>4. ASSUME NEW p \in B
      PROVE  c[p] \in (O \cup {c[s]}) \ W
  <2>1. c[p] \in (O \cup {c[s]}) \ V
    BY <1>1 DEF Account
  <2>2. \A x \in (A \cup {s}) \ B : c[p] # c[x]
    BY <1>1 DEF OwnConn
  <2> QED BY <1>2, <2>1, <2>2
<1>5. ASSUME NEW i \in 1..Len(r)
      PROVE  r[i].conn \in (O \cup {c[s]}) \ W /\ \A p \in B : c[p] # r[i].conn
  <2>1. r[i].conn \in O \ V /\ \A p \in A \cup {s} : c[p] # r[i].conn
    BY DEF Account
  <2>2. r[i].conn \notin W
    BY <1>2, <2>1
  <2> QED BY <1>1, <2>1, <2>2
<1>6. ASSUME NEW y \in (O \cup {c[s]}) \ W
      PROVE  (\E i \in 1..Len(r) : r[i].conn = y) \/ (\E p \in B : c[p] = y)
  <2>1. (\E i \in 1..Len(r) : r[i].conn = y) \/ (\E p \in A \cup {s} : c[p] = y)
    BY <1>2, <1>6 DEF Account
  <2>2. \A p \in A \cup {s} : c[p] = y => p \in B
    BY <1>2, <1>6
  <2> QED BY <2>1, <2>2
<1>7. \A i, j \in 1..Len(r) : r[i].conn = r[j].conn => i = j
  BY DEF Account
<1> QED BY <1>1, <1>3, <1>4, <1>5, <1>6, <1>7 DEF Account

\* It closes, and moves from the table to the reports.
LEMMA AccountCloses ==
  ASSUME NEW A, NEW O, NEW V, NEW r \in Seq(ByteReport), NEW c, Account(A, O, V, r, c), OwnConn(c),
         NEW s \in A, NEW e \in ByteReport, e.conn = c[s]
  PROVE  Account(A \ {s}, O, V, Append(r, e), c)
<1>1. PICK q, B : q = Append(r, e) /\ B = A \ {s}
  OBVIOUS
<1>2. /\ Len(q) = Len(r) + 1 /\ q[Len(r) + 1] = e /\ Len(r) + 1 \in 1..Len(q)
      /\ \A i \in 1..Len(r) : q[i] = r[i] /\ i \in 1..Len(q)
      /\ \A i \in 1..Len(q) : i = Len(r) + 1 \/ i \in 1..Len(r)
  BY <1>1, SMTT(30)
<1>3. A \subseteq Sock /\ V \subseteq O /\ B \subseteq A /\ s \notin B /\ c[s] \in O \ V
  BY <1>1 DEF Account
<1>4. \A p \in B : c[p] \in O \ V /\ c[p] # c[s]
  BY <1>3 DEF Account, OwnConn
<1>5. ASSUME NEW i \in 1..Len(r)
      PROVE  q[i].conn \in O \ V /\ q[i].conn # c[s] /\ \A p \in B : c[p] # q[i].conn
  <2>1. r[i].conn \in O \ V /\ \A p \in A : c[p] # r[i].conn
    BY DEF Account
  <2> QED BY <1>2, <1>3, <2>1
<1>6. ASSUME NEW i \in 1..Len(q)
      PROVE  q[i].conn \in O \ V /\ \A p \in B : c[p] # q[i].conn
  BY <1>2, <1>3, <1>4, <1>5
<1>7. ASSUME NEW i \in 1..Len(q), NEW j \in 1..Len(q), q[i].conn = q[j].conn
      PROVE  i = j
  <2>1. CASE i \in 1..Len(r) /\ j \in 1..Len(r)
    BY <1>2, <1>7, <2>1 DEF Account
  <2>2. CASE i = Len(r) + 1 /\ j \in 1..Len(r)
    BY <1>2, <1>5, <1>7, <2>2
  <2>3. CASE i \in 1..Len(r) /\ j = Len(r) + 1
    BY <1>2, <1>5, <1>7, <2>3
  <2> QED BY <1>2, <2>1, <2>2, <2>3
<1>8. ASSUME NEW x \in O \ V
      PROVE  (\E i \in 1..Len(q) : q[i].conn = x) \/ (\E p \in B : c[p] = x)
  <2>1. CASE \E i \in 1..Len(r) : r[i].conn = x
    BY <1>2, <2>1
  <2>2. CASE \E p \in A : c[p] = x
    <3>1. PICK p \in A : c[p] = x
      BY <2>2
    <3> QED BY <1>1, <1>2, <3>1
  <2> QED BY <2>1, <2>2 DEF Account
<1>9. Account(B, O, V, q, c)
  BY <1>3, <1>4, <1>6, <1>7, <1>8 DEF Account
<1> QED BY <1>1, <1>9

LEMMA BalanceOpens ==
  ASSUME NEW e, NEW z, NEW n, NEW A, NEW V, SpikeBalance(e, z, n, A, V),
         NEW s, s \notin A, NEW B, NEW W,
         \/ B = A \cup {s} /\ W = V
         \/ \E v \in A \cup {s} : \E y : B = (A \cup {s}) \ {v} /\ W = V \cup {y} /\ y \notin V
  PROVE  SpikeBalance(e + 1, z, n, B, W)
<1>1. /\ e \in Nat /\ z \in Nat /\ n \in Nat /\ IsFiniteSet(A) /\ IsFiniteSet(V)
      /\ e = z + n + Cardinality(A) + Cardinality(V)
  BY DEF SpikeBalance
<1>2. PICK a \in Nat, k \in Nat : a = Cardinality(A) /\ k = Cardinality(V)
  BY <1>1, FS_CardinalityType
<1>3. IsFiniteSet(A \cup {s}) /\ Cardinality(A \cup {s}) = a + 1
  BY <1>1, <1>2, FS_AddElement
<1>4. /\ e + 1 \in Nat /\ e = z + n + a + k
      /\ e + 1 = z + n + (a + 1) + k /\ e + 1 = z + n + a + (k + 1)
  <2>1. e = z + n + a + k
    BY <1>1, <1>2
  <2> QED BY <1>1, <2>1, SMTT(30)
<1>5. CASE B = A \cup {s} /\ W = V
  BY <1>1, <1>2, <1>3, <1>4, <1>5 DEF SpikeBalance
<1>6. ASSUME NEW v \in A \cup {s}, NEW y, B = (A \cup {s}) \ {v}, W = V \cup {y}, y \notin V
      PROVE  SpikeBalance(e + 1, z, n, B, W)
  <2>1. IsFiniteSet(B) /\ Cardinality(B) = (a + 1) - 1
    <3>1. PICK D : D = A \cup {s}
      OBVIOUS
    <3>2. v \in D /\ IsFiniteSet(D) /\ Cardinality(D) = a + 1 /\ B = D \ {v}
      BY <1>3, <1>6, <3>1
    <3>3. IsFiniteSet(D \ {v}) /\ Cardinality(D \ {v}) = Cardinality(D) - 1
      BY <3>2, FS_RemoveElement
    <3> QED BY <3>2, <3>3
  <2>2. Cardinality(B) = a
    <3>1. (a + 1) - 1 = a
      BY SMTT(30)
    <3> QED BY <2>1, <3>1
  <2>3. IsFiniteSet(W) /\ Cardinality(W) = k + 1
    BY <1>1, <1>2, <1>6, FS_AddElement
  <2> QED BY <1>1, <1>4, <2>1, <2>2, <2>3 DEF SpikeBalance
<1> QED BY <1>5, <1>6

LEMMA BalanceCloses ==
  ASSUME NEW e, NEW z, NEW n, NEW A, NEW V, SpikeBalance(e, z, n, A, V), NEW s \in A
  PROVE  SpikeBalance(e, z + 1, n, A \ {s}, V) /\ SpikeBalance(e, z, n + 1, A \ {s}, V)
<1>1. /\ e \in Nat /\ z \in Nat /\ n \in Nat /\ IsFiniteSet(A) /\ IsFiniteSet(V)
      /\ e = z + n + Cardinality(A) + Cardinality(V)
  BY DEF SpikeBalance
<1>2. PICK a \in Nat, k \in Nat : a = Cardinality(A) /\ k = Cardinality(V)
  BY <1>1, FS_CardinalityType
<1>3. IsFiniteSet(A \ {s}) /\ Cardinality(A \ {s}) = a - 1
  BY <1>1, <1>2, FS_RemoveElement
<1>4. /\ z + 1 \in Nat /\ n + 1 \in Nat
      /\ e = (z + 1) + n + (a - 1) + k /\ e = z + (n + 1) + (a - 1) + k
  <2>1. e = z + n + a + k
    BY <1>1, <1>2
  <2> QED BY <1>1, <2>1, SMTT(30)
<1> QED BY <1>1, <1>2, <1>3, <1>4 DEF SpikeBalance

LEMMA SumGrows ==
  ASSUME NEW r \in Seq(ByteReport), NEW b, Summed(r, b), NEW e \in ByteReport
  PROVE  Summed(Append(r, e), b + e.total)
<1>1. PICK f : IsSum(f, r) /\ f[Len(r)] = b
  BY DEF Summed
<1>2a. PICK q : q = Append(r, e)
  OBVIOUS
<1>2b. Len(r) \in Nat
  BY SMTT(30)
<1>2c. PICK l \in Nat : l = Len(r)
  BY <1>2b
<1>2. q = Append(r, e) /\ l = Len(r)
  BY <1>2a, <1>2c
<1>3. Len(q) = l + 1 /\ q[l + 1] = e /\ \A i \in 1..l : q[i] = r[i]
  BY <1>2, SMTT(30)
<1>4. PICK t \in Nat : t = e.total
  BY DEF ByteReport
<1>5. b \in Nat /\ b + t \in Nat
  <2>1. b \in Nat
    BY DEF Summed
  <2> QED BY <2>1, SMTT(30)
<1>6. PICK g : g = [n \in 0..(l + 1) |-> IF n <= l THEN f[n] ELSE b + t]
  OBVIOUS
<1>7. /\ \A n \in 0..l : n \in 0..(l + 1) /\ n <= l
      /\ l + 1 \in 0..(l + 1) /\ ~(l + 1 <= l) /\ l + 1 # 0 /\ (l + 1) - 1 = l /\ l \in 0..l
      /\ \A n \in 0..(l + 1) : n \in 0..l \/ n = l + 1
      /\ \A n \in 0..l : n # 0 => n - 1 \in 0..l /\ n \in 1..l
  BY SMTT(30)
<1>8. (\A n \in 0..l : g[n] = f[n]) /\ g[l + 1] = b + t
  BY <1>6, <1>7
<1>9. \A n \in 0..l : f[n] = IF n = 0 THEN 0 ELSE f[n - 1] + r[n].total
  BY <1>1, <1>2 DEF IsSum
<1>10. ASSUME NEW n \in 0..(l + 1)
       PROVE  g[n] = IF n = 0 THEN 0 ELSE g[n - 1] + q[n].total
  <2>1. CASE n \in 0..l
    <3>1. CASE n = 0
      BY <1>8, <1>9, <2>1, <3>1
    <3>2. CASE n # 0
      <4>1. g[n - 1] = f[n - 1] /\ q[n] = r[n]
        BY <1>3, <1>7, <1>8, <2>1, <3>2
      <4> QED BY <1>8, <1>9, <2>1, <3>2, <4>1
    <3> QED BY <3>1, <3>2
  <2>2. CASE n = l + 1
    <3>1. g[n - 1] = b
      BY <1>1, <1>2, <1>7, <1>8, <2>2
    <3>2. q[n].total = t
      BY <1>3, <1>4, <2>2
    <3> QED BY <1>7, <1>8, <2>2, <3>1, <3>2
  <2> QED BY <1>7, <2>1, <2>2
<1>11. IsSum(g, q)
  <2>1. g = [n \in 0..(l + 1) |-> g[n]]
    BY <1>6
  <2>2. PICK w : w = [n \in 0..(l + 1) |-> IF n = 0 THEN 0 ELSE g[n - 1] + q[n].total]
    OBVIOUS
  <2>3. DOMAIN g = 0..(l + 1) /\ DOMAIN w = 0..(l + 1) /\ \A n \in 0..(l + 1) : g[n] = w[n]
    BY <1>6, <1>10, <2>2
  <2>4. g = w
    BY <1>6, <2>2, <2>3
  <2> QED BY <1>3, <2>2, <2>4 DEF IsSum
<1> QED BY <1>2, <1>3, <1>4, <1>5, <1>8, <1>11 DEF Summed

\* Induction on a set of numbers.
LEMMA SetInduction ==
  ASSUME NEW S, 0 \in S, \A n \in Nat : n \in S => n + 1 \in S
  PROVE  Nat \subseteq S
<1>1. SUFFICES ASSUME Nat \ S # {}
               PROVE  FALSE
  OBVIOUS
<1>2. PICK n \in Nat \ S : \A m \in Nat \ S : <<m, n>> \notin OpToRel(<, Nat)
  <2>1. PICK T : T = Nat \ S
    OBVIOUS
  <2> QED BY <1>1, <2>1, WFMin, NatLessThanWellFounded
<1>3. n # 0 /\ n \in Nat
  BY <1>2
<1>4. n - 1 \in Nat /\ n - 1 < n /\ (n - 1) + 1 = n
  BY <1>3, SMTT(30)
<1>5. <<n - 1, n>> \in OpToRel(<, Nat)
  BY <1>3, <1>4, SMTT(30) DEF OpToRel
<1>6. n - 1 \in S
  BY <1>2, <1>4, <1>5
<1>7. n \in S
  BY <1>4, <1>6
<1> QED BY <1>2, <1>7

LEMMA SumUnique ==
  ASSUME NEW r, Len(r) \in Nat, NEW f, IsSum(f, r), NEW g, IsSum(g, r)
  PROVE  f[Len(r)] = g[Len(r)]
<1>1. \A n \in 0..Len(r) : /\ f[n] = IF n = 0 THEN 0 ELSE f[n - 1] + r[n].total
                           /\ g[n] = IF n = 0 THEN 0 ELSE g[n - 1] + r[n].total
  BY DEF IsSum
<1> DEFINE S == {n \in Nat : n \in 0..Len(r) => f[n] = g[n]}
<1>2. 0 \in S
  <2>1. 0 \in Nat /\ 0 \in 0..Len(r)
    BY SMTT(30)
  <2> QED BY <1>1, <2>1
<1>3. ASSUME NEW n \in Nat, n \in S
      PROVE  n + 1 \in S
  <2>1. n + 1 \in Nat /\ n + 1 # 0 /\ (n + 1) - 1 = n /\ (n + 1 \in 0..Len(r) => n \in 0..Len(r))
    BY SMTT(30)
  <2>2. ASSUME n + 1 \in 0..Len(r)
        PROVE  f[n + 1] = g[n + 1]
    <3>1. f[n] = g[n]
      BY <1>3, <2>1, <2>2
    <3>2. f[n + 1] = f[n] + r[n + 1].total /\ g[n + 1] = g[n] + r[n + 1].total
      BY <1>1, <2>1, <2>2
    <3> QED BY <3>1, <3>2
  <2> QED BY <2>1, <2>2
<1>4. Nat \subseteq S
  <2> HIDE DEF S
  <2> QED BY <1>2, <1>3, SetInduction
<1>5. Len(r) \in 0..Len(r)
  BY SMTT(30)
<1> QED BY <1>4, <1>5

LEMMA SpikeTyped ==
  ASSUME SpikeInv
  PROVE  /\ \A i \in SpikeStat : spikeStats[i] \in Nat
         /\ SpikeStat = {"ESTABLISHED", "CLOSED", "BYTES_TOTAL", "CLOSED_ZERO", "UNMATCHED"}
         /\ activeOpens \subseteq Sock /\ evicted \subseteq opened
         /\ \A r \in activeOpens : conn[r] \in opened \ evicted
         /\ OwnConn(conn)
BY DEF SpikeInv, SpikeStat, Account, KernelInv, OwnConn

\* After a call for s: the table B holds live connections if it adds none but s.
LEMMA LiveAfterCall ==
  ASSUME SpikeInv, NEW s \in Sock, CallEnds(s), NEW B, B \subseteq activeOpens \cup {s},
         s \in B => kind[s] = "tcp4" /\ st[s] \in {"ESTABLISHED", "DOWN"}
  PROVE  \A r \in B : kind'[r] = "tcp4" /\ Live(hit'[r], st'[r])
<1>1. /\ hit'[s] = {} /\ \A r \in Sock : r # s => hit'[r] = hit[r]
      /\ UNCHANGED <<st, kind>>
  BY CallEndsKeeps DEF CallEnds, SpikeInv
<1>2. activeOpens \subseteq Sock
  BY SpikeTyped
<1>3. ASSUME NEW r \in B
      PROVE  kind[r] = "tcp4" /\ Live(hit'[r], st[r])
  <2>1. CASE r = s
    BY <1>1, <1>3, <2>1 DEF Live
  <2>2. CASE r # s
    <3>1. r \in activeOpens /\ hit'[r] = hit[r]
      BY <1>1, <1>2, <1>3, <2>2
    <3> QED BY <3>1 DEF SpikeInv
  <2> QED BY <2>1, <2>2
<1> QED BY <1>1, <1>3

LEMMA StateChangeSpike ==
  ASSUME SpikeInv, StateChange, UNCHANGED spikeVars
  PROVE  SpikeInv'
<1>1. UNCHANGED <<activeOpens, spikeStats, closes, opened, evicted, reported>>
  BY DEF spikeVars
<1>2. PICK s \in Sock, new \in TcpState : SetState(s, new)
  BY DEF StateChange
<1>3. KernelInv' /\ Moved(s, new)
  BY <1>2, SetStateMoves DEF SpikeInv
<1>4. Ended(opened)'
  <2>1. PICK S : S = opened
    OBVIOUS
  <2>2. Ended(S)'
    BY <2>1, KernelSettles DEF SpikeInv, Kernel
  <2> QED BY <1>1, <2>1, <2>2 DEF Ended
<1>5. ASSUME NEW r \in activeOpens
      PROVE  kind'[r] = "tcp4" /\ Live(hit'[r], st'[r]) /\ conn'[r] = conn[r]
  <2>1. r \in Sock /\ kind[r] = "tcp4" /\ Live(hit[r], st[r])
    BY SpikeTyped DEF SpikeInv
  <2>2. CASE r # s
    BY <1>3, <2>1, <2>2 DEF Moved
  <2>3. CASE r = s
    <3>1. st[s] \in {"ESTABLISHED", "DOWN"}
      BY <1>3, <2>1, <2>3 DEF Moved, Live
    <3>2. conn'[s] = conn[s] /\ kind' = kind
      BY <1>3, <3>1 DEF Moved
    <3>3. PICK h : hit'[s] = {h} /\ h.old = st[s]
      BY <1>3 DEF Moved
    <3> QED BY <2>1, <2>3, <3>1, <3>2, <3>3 DEF Live
  <2> QED BY <2>2, <2>3
<1>6. Account(activeOpens, opened, evicted, reported, conn')
  <2>1. Account(activeOpens, opened, evicted, reported, conn)
    BY DEF SpikeInv
  <2> QED BY <1>5, <2>1, SMTT(30) DEF Account
<1> QED BY <1>1, <1>3, <1>4, <1>5, <1>6 DEF SpikeInv

LEMMA EstablishSpike ==
  ASSUME SpikeInv, NEW s \in Sock, TraceEstablish(s)
  PROVE  SpikeInv'
<1>1. /\ CallEnds(s) /\ kind[s] = "tcp4" /\ UNCHANGED <<closes, reported>>
      /\ opened' = opened \cup {conn[s]}
      /\ evicted' = evicted \cup {conn[r] : r \in (activeOpens \cup {s}) \ activeOpens'}
  BY DEF TraceEstablish
<1>2. PICK h \in hit[s] : h.old = "SYN_SENT" /\ h.new = "ESTABLISHED"
  BY DEF TraceEstablish
<1>3. KernelInv' /\ UNCHANGED <<conn, st, kind>>
  BY <1>1, CallEndsKeeps DEF SpikeInv, CallEnds
<1>4. st[s] = "ESTABLISHED"
  BY <1>2 DEF SpikeInv, KernelInv, CallOK
<1>5. conn[s] \notin opened /\ s \notin activeOpens
  <2>1. conn[s] \notin opened
    BY <1>2 DEF SpikeInv, Ended, Over
  <2> QED BY <2>1, SpikeTyped
<1>6. PICK A, O, V, B, W : /\ A = activeOpens /\ O = opened /\ V = evicted
                           /\ B = activeOpens' /\ W = evicted'
  OBVIOUS
<1>7. B \subseteq A \cup {s} /\ (B = A \cup {s} \/ \E v \in A \cup {s} : B = (A \cup {s}) \ {v})
  <2>1. B \in AfterInsert(A, s, OpensSize) \/ B = A
    BY <1>6 DEF TraceEstablish
  <2>2. CASE B = A
    <3>1. A = (A \cup {s}) \ {s}
      BY <1>5, <1>6
    <3> QED BY <2>2, <3>1
  <2>3. CASE B \in AfterInsert(A, s, OpensSize)
    <3>1. B = A \cup {s} \/ \E v \in A \ {s} : B = (A \ {v}) \cup {s}
      BY <2>3 DEF AfterInsert
    <3>2. ASSUME NEW v \in A \ {s}
          PROVE  (A \ {v}) \cup {s} = (A \cup {s}) \ {v}
      OBVIOUS
    <3> QED BY <3>1, <3>2
  <2> QED BY <2>1, <2>2, <2>3
<1>8. Ended(opened)'
  <2>1. PICK T : T = O \cup {conn[s]}
    OBVIOUS
  <2>2. Ended(O) /\ h.new # "SYN_SENT"
    BY <1>2, <1>6 DEF SpikeInv
  <2>3. Ended(T)'
    BY <1>1, <2>1, <2>2, CallSettles DEF SpikeInv
  <2> QED BY <1>1, <1>6, <2>1, <2>3 DEF Ended
<1>9. \A r \in B : kind'[r] = "tcp4" /\ Live(hit'[r], st'[r])
  <2>1. B \subseteq activeOpens \cup {s}
    BY <1>6, <1>7
  <2> QED BY <1>1, <1>4, <2>1, LiveAfterCall
<1>10. W = V \cup {conn[x] : x \in (A \cup {s}) \ B}
  BY <1>1, <1>6
<1>11. Account(B, O \cup {conn[s]}, W, reported, conn)
  <2>1. PICK c, r : c = conn /\ r = reported
    OBVIOUS
  <2>2. Account(A, O, V, r, c) /\ c[s] \notin O /\ OwnConn(c)
    BY <1>5, <1>6, <2>1, SpikeTyped DEF SpikeInv
  <2>3. Enters(s, A, B, V, W, c)
    BY <1>7, <1>10, <2>1 DEF Enters
  <2>4. Account(B, O \cup {c[s]}, W, r, c)
    BY <2>2, <2>3, AccountOpens
  <2> QED BY <2>1, <2>4
<1>12. PICK e \in Nat, z \in Nat, n \in Nat : /\ e = spikeStats["ESTABLISHED"] /\ z = spikeStats["CLOSED"]
                                              /\ n = spikeStats["CLOSED_ZERO"]
  BY SpikeTyped
<1>13. /\ spikeStats' \in [SpikeStat -> Nat] /\ spikeStats'["ESTABLISHED"] = e + 1
       /\ spikeStats'["CLOSED"] = z /\ spikeStats'["CLOSED_ZERO"] = n
       /\ spikeStats'["BYTES_TOTAL"] = spikeStats["BYTES_TOTAL"]
  <2>1. spikeStats' = [spikeStats EXCEPT !["ESTABLISHED"] = e + 1]
    BY <1>12 DEF TraceEstablish
  <2>2. e + 1 \in Nat
    BY SMTT(30)
  <2>3. spikeStats \in [SpikeStat -> Nat]
    BY DEF SpikeInv
  <2> QED BY <1>12, <2>1, <2>2, <2>3, SMTT(30) DEF SpikeStat
<1>14. SpikeBalance(e + 1, z, n, B, W)
  <2>1. SpikeBalance(e, z, n, A, V) /\ s \notin A
    BY <1>5, <1>6, <1>12 DEF SpikeInv
  <2>2. CASE B = A \cup {s}
    <3>1. W = V
      BY <1>10, <2>2
    <3> QED BY <2>1, <2>2, <3>1, BalanceOpens
  <2>3. ASSUME NEW v \in A \cup {s}, B = (A \cup {s}) \ {v}
        PROVE  SpikeBalance(e + 1, z, n, B, W)
    <3>1. (A \cup {s}) \ B = {v}
      BY <2>3
    <3>2. PICK y : y = conn[v]
      OBVIOUS
    <3>3. W = V \cup {y}
      BY <1>10, <3>1, <3>2
    <3>4. y \notin V
      BY <1>5, <1>6, <3>2, SpikeTyped
    <3> QED BY <2>1, <2>3, <3>3, <3>4, BalanceOpens
  <2> QED BY <1>7, <2>2, <2>3
<1>15. Summed(reported, spikeStats["BYTES_TOTAL"])
  BY DEF SpikeInv
<1> QED BY <1>1, <1>3, <1>6, <1>8, <1>9, <1>11, <1>13, <1>14, <1>15 DEF SpikeInv

LEMMA CloseSpike ==
  ASSUME SpikeInv, NEW s \in Sock, NEW sent \in Bytes, NEW received \in Bytes,
         TraceClose(s, sent, received)
  PROVE  SpikeInv'
<1>1. /\ CallEnds(s) /\ UNCHANGED <<opened, evicted>> /\ s \in activeOpens
      /\ activeOpens' = activeOpens \ {s}
      /\ reported' = Append(reported, [conn |-> conn[s], total |-> sent + received])
  BY DEF TraceClose, AfterClose
<1>2. PICK h \in hit[s] : h.new = "CLOSE"
  BY DEF TraceClose, CloseHit
<1>3. KernelInv' /\ UNCHANGED <<conn, st, kind>>
  BY <1>1, CallEndsKeeps DEF SpikeInv, CallEnds
<1>4. Ended(opened)'
  <2>1. PICK S : S = opened
    OBVIOUS
  <2>2. Ended(S)'
    BY <1>1, <1>2, <2>1, CallSettles DEF SpikeInv
  <2> QED BY <1>1, <2>1, <2>2 DEF Ended
<1>5. \A r \in activeOpens' : kind'[r] = "tcp4" /\ Live(hit'[r], st'[r])
  <2>1. PICK B : B = activeOpens \ {s}
    OBVIOUS
  <2>2. B \subseteq activeOpens \cup {s} /\ s \notin B
    BY <2>1
  <2>3. \A r \in B : kind'[r] = "tcp4" /\ Live(hit'[r], st'[r])
    BY <1>1, <2>2, LiveAfterCall
  <2> QED BY <1>1, <2>1, <2>3
<1>6. PICK t \in Nat : t = sent + received
  <2>1. sent \in Nat /\ received \in Nat
    BY SpikeAssumption
  <2>2. sent + received \in Nat
    BY <2>1, SMTT(30)
  <2> QED BY <2>2
<1>7. PICK e : e = [conn |-> conn[s], total |-> t]
  OBVIOUS
<1>8. e \in ByteReport /\ e.conn = conn[s] /\ e.total = t
  <2>1. conn[s] \in Nat
    BY KernelTyped DEF SpikeInv
  <2> QED BY <1>7, <2>1, SMTT(30) DEF ByteReport
<1>9. reported' = Append(reported, e) /\ reported \in Seq(ByteReport)
  BY <1>1, <1>6, <1>7 DEF SpikeInv
<1>10. reported' \in Seq(ByteReport)
  BY <1>8, <1>9, SMTT(30)
<1>11. Account(activeOpens', opened, evicted, reported', conn)
  <2>1. PICK c, r, A : c = conn /\ r = reported /\ A = activeOpens
    OBVIOUS
  <2>2. /\ Account(A, opened, evicted, r, c) /\ s \in A /\ e.conn = c[s] /\ r \in Seq(ByteReport)
        /\ OwnConn(c)
    BY <1>1, <1>8, <1>9, <2>1, SpikeTyped DEF SpikeInv
  <2>3. Account(A \ {s}, opened, evicted, Append(r, e), c)
    BY <1>8, <2>2, AccountCloses
  <2> QED BY <1>1, <1>9, <2>1, <2>3
<1>12. PICK x \in Nat, z \in Nat, n \in Nat, b \in Nat :
         /\ x = spikeStats["ESTABLISHED"] /\ z = spikeStats["CLOSED"]
         /\ n = spikeStats["CLOSED_ZERO"] /\ b = spikeStats["BYTES_TOTAL"]
  <2>1. /\ spikeStats["ESTABLISHED"] \in Nat /\ spikeStats["CLOSED"] \in Nat
        /\ spikeStats["CLOSED_ZERO"] \in Nat /\ spikeStats["BYTES_TOTAL"] \in Nat
    BY SpikeTyped
  <2> QED BY <2>1
<1>13. spikeStats \in [SpikeStat -> Nat] /\ SpikeBalance(x, z, n, activeOpens, evicted)
  BY <1>12 DEF SpikeInv
<1>14. /\ SpikeBalance(x, z + 1, n, activeOpens', evicted)
       /\ SpikeBalance(x, z, n + 1, activeOpens', evicted)
  <2>1. PICK A : A = activeOpens
    OBVIOUS
  <2>2. SpikeBalance(x, z + 1, n, A \ {s}, evicted) /\ SpikeBalance(x, z, n + 1, A \ {s}, evicted)
    BY <1>1, <1>13, <2>1, BalanceCloses
  <2> QED BY <1>1, <2>1, <2>2
<1>15. Summed(reported', b + t)
  <2>1. Summed(reported, b)
    BY <1>12 DEF SpikeInv
  <2>2. Summed(Append(reported, e), b + e.total)
    BY <1>8, <1>9, <2>1, SumGrows
  <2> QED BY <1>8, <1>9, <2>2
<1>16. /\ spikeStats' \in [SpikeStat -> Nat] /\ spikeStats'["ESTABLISHED"] = x
       /\ spikeStats'["BYTES_TOTAL"] = b + t
       /\ \/ spikeStats'["CLOSED"] = z + 1 /\ spikeStats'["CLOSED_ZERO"] = n
          \/ spikeStats'["CLOSED"] = z /\ spikeStats'["CLOSED_ZERO"] = n + 1
  <2>1. sent \in Nat /\ received \in Nat
    BY SpikeAssumption
  <2>2. CASE sent = 0 /\ received = 0
    <3>1. spikeStats' = [spikeStats EXCEPT !["CLOSED_ZERO"] = spikeStats["CLOSED_ZERO"] + 1]
      BY <2>2 DEF TraceClose
    <3> QED BY <1>6, <1>12, <1>13, <2>2, <3>1, SMTT(30) DEF SpikeStat
  <2>3. CASE ~(sent = 0 /\ received = 0)
    <3>1. spikeStats' = [spikeStats EXCEPT !["CLOSED"] = spikeStats["CLOSED"] + 1,
                                           !["BYTES_TOTAL"] = spikeStats["BYTES_TOTAL"] + sent + received]
      BY <2>3 DEF TraceClose
    <3> QED BY <1>6, <1>12, <1>13, <2>1, <3>1, SMTT(30) DEF SpikeStat
  <2> QED BY <2>2, <2>3
<1> QED BY <1>1, <1>3, <1>4, <1>5, <1>10, <1>11, <1>14, <1>15, <1>16 DEF SpikeInv

LEMMA OtherCallSpike ==
  ASSUME SpikeInv, NEW s \in Sock, SpikeIgnores(s) \/ TraceCloseUnmatched(s)
  PROVE  SpikeInv'
<1>1. CallEnds(s) /\ UNCHANGED <<activeOpens, closes, opened, evicted, reported>>
  BY DEF SpikeIgnores, TraceCloseUnmatched, spikeVars
<1>2. KernelInv' /\ UNCHANGED <<conn, st, kind>>
  BY <1>1, CallEndsKeeps DEF SpikeInv, CallEnds
<1>3. PICK h \in hit[s] : s \in activeOpens => h.new # "CLOSE"
  <2>1. s \in activeOpens => kind[s] = "tcp4"
    BY DEF SpikeInv
  <2> QED BY <2>1 DEF SpikeIgnores, TraceCloseUnmatched, CloseHit
<1>4. Ended(opened)'
  <2>1. PICK S : S = opened
    OBVIOUS
  <2>2. Ended(S)'
    BY <1>1, <2>1, CallSettles DEF SpikeInv
  <2> QED BY <1>1, <2>1, <2>2 DEF Ended
<1>5. \A r \in activeOpens' : kind'[r] = "tcp4" /\ Live(hit'[r], st'[r])
  <2>1. ASSUME s \in activeOpens
        PROVE  kind[s] = "tcp4" /\ st[s] \in {"ESTABLISHED", "DOWN"}
    <3>1. /\ kind[s] = "tcp4" /\ h.old \in {"ESTABLISHED", "DOWN"} /\ <<h.old, h.new>> \in TcpSteps
          /\ st[s] = h.new
      BY <2>1 DEF SpikeInv, Live, KernelInv, CallOK
    <3> QED BY <1>3, <2>1, <3>1, SMTT(30) DEF TcpSteps
  <2>2. activeOpens \subseteq activeOpens \cup {s}
    OBVIOUS
  <2> QED BY <1>1, <2>1, <2>2, LiveAfterCall, SMTT(30)
<1>6. /\ spikeStats' \in [SpikeStat -> Nat]
      /\ \A i \in SpikeStat : i # "UNMATCHED" => spikeStats'[i] = spikeStats[i]
  <2>1. spikeStats \in [SpikeStat -> Nat]
    BY DEF SpikeInv
  <2>2. CASE SpikeIgnores(s)
    BY <2>1, <2>2 DEF SpikeIgnores, spikeVars
  <2>3. CASE TraceCloseUnmatched(s)
    <3>1. spikeStats' = [spikeStats EXCEPT !["UNMATCHED"] = spikeStats["UNMATCHED"] + 1]
      BY <2>3 DEF TraceCloseUnmatched
    <3>2. spikeStats["UNMATCHED"] + 1 \in Nat
      BY <2>1, SMTT(30) DEF SpikeStat
    <3> QED BY <2>1, <3>1, <3>2
  <2> QED BY <2>2, <2>3
<1>7. /\ spikeStats'["ESTABLISHED"] = spikeStats["ESTABLISHED"] /\ spikeStats'["CLOSED"] = spikeStats["CLOSED"]
      /\ spikeStats'["CLOSED_ZERO"] = spikeStats["CLOSED_ZERO"]
      /\ spikeStats'["BYTES_TOTAL"] = spikeStats["BYTES_TOTAL"]
  BY <1>6 DEF SpikeStat
<1> QED BY <1>1, <1>2, <1>4, <1>5, <1>6, <1>7 DEF SpikeInv

LEMMA SpikeInvInit == SpikeInit => SpikeInv
<1>1. SUFFICES ASSUME SpikeInit
               PROVE  SpikeInv
  OBVIOUS
<1>2. /\ activeOpens = {} /\ spikeStats = [i \in SpikeStat |-> 0] /\ opened = {} /\ evicted = {}
      /\ reported = <<>>
  BY <1>1 DEF SpikeInit
<1>3. KernelInv
  BY <1>1, KernelInvInit DEF SpikeInit
<1>4. Ended(opened)
  BY <1>2 DEF Ended
<1>5. Account(activeOpens, opened, evicted, reported, conn)
  <2>1. \A i \in 1..Len(reported) : FALSE
    BY <1>2, SMTT(30)
  <2> QED BY <1>2, <2>1 DEF Account
<1>6. /\ spikeStats \in [SpikeStat -> Nat]
      /\ spikeStats["ESTABLISHED"] = 0 /\ spikeStats["CLOSED"] = 0 /\ spikeStats["CLOSED_ZERO"] = 0
      /\ spikeStats["BYTES_TOTAL"] = 0
  BY <1>2, SMTT(30) DEF SpikeStat
<1>7. SpikeBalance(0, 0, 0, {}, {})
  <2>1. IsFiniteSet({}) /\ Cardinality({}) = 0
    BY FS_EmptySet
  <2>2. 0 \in Nat /\ 0 = 0 + 0 + 0 + 0
    BY SMTT(30)
  <2> QED BY <2>1, <2>2 DEF SpikeBalance
<1>8. Summed(reported, 0)
  <2>1. 0 \in Nat /\ Len(reported) \in 0..Len(reported) /\ \A n \in 0..Len(reported) : n = 0
    BY <1>2, SMTT(30)
  <2>2. PICK f : f = [n \in 0..Len(reported) |-> 0]
    OBVIOUS
  <2>3. PICK g : g = [n \in 0..Len(reported) |-> IF n = 0 THEN 0 ELSE f[n - 1] + reported[n].total]
    OBVIOUS
  <2>4. f = g /\ f[Len(reported)] = 0
    BY <2>1, <2>2, <2>3
  <2>5. IsSum(f, reported)
    BY <2>3, <2>4 DEF IsSum
  <2> QED BY <2>1, <2>4, <2>5 DEF Summed
<1>9. reported \in Seq(ByteReport)
  BY <1>2, SMTT(30)
<1> QED BY <1>2, <1>3, <1>4, <1>5, <1>6, <1>7, <1>8, <1>9 DEF SpikeInv

LEMMA SpikeInvStep == SpikeInv /\ [SpikeNext]_<<sockVars, spikeVars>> => SpikeInv'
<1>1. SUFFICES ASSUME SpikeInv, [SpikeNext]_<<sockVars, spikeVars>>
               PROVE  SpikeInv'
  OBVIOUS
<1>2. ASSUME NEW s \in Sock, SpikePrograms(s)
      PROVE  SpikeInv'
  BY <1>1, <1>2, EstablishSpike, CloseSpike, OtherCallSpike DEF SpikePrograms
<1>3. CASE StateChange /\ UNCHANGED spikeVars
  BY <1>1, <1>3, StateChangeSpike
<1>4. CASE UNCHANGED <<sockVars, spikeVars>>
  <2>1. /\ UNCHANGED <<st, kind, conn, syn, conns, changes, hit, mono, slept>>
        /\ UNCHANGED <<activeOpens, spikeStats, closes, opened, evicted, reported>>
    BY <1>4 DEF sockVars, spikeVars
  <2>2. KernelInv'
    BY <1>1, <2>1 DEF SpikeInv, KernelInv, SocketsTypeOK
  <2>3. Ended(opened)'
    BY <1>1, <2>1 DEF SpikeInv, Ended
  <2> QED BY <1>1, <2>1, <2>2, <2>3 DEF SpikeInv
<1> QED BY <1>1, <1>2, <1>3, <1>4 DEF SpikeNext

\* Of the table and the reports, exactly one has the connection x.
InOne(A, r, c, x) ==
  Cardinality({i \in 1..Len(r) : r[i].conn = x}) + Cardinality({s \in A : c[s] = x}) = 1

LEMMA InOnePlace ==
  ASSUME NEW A, NEW O, NEW V, NEW r, NEW c, Account(A, O, V, r, c), OwnConn(c), NEW x \in O \ V
  PROVE  InOne(A, r, c, x)
<1>1. PICK R, T : R = {i \in 1..Len(r) : r[i].conn = x} /\ T = {s \in A : c[s] = x}
  OBVIOUS
<1>2. (\A i \in R : i \in 1..Len(r) /\ r[i].conn = x) /\ (\A s \in T : s \in A /\ c[s] = x)
  BY <1>1
<1>3. CASE \E i \in 1..Len(r) : r[i].conn = x
  <2>1. PICK i \in 1..Len(r) : r[i].conn = x
    BY <1>3
  <2>2. R = {i}
    <3>1. \A j \in R : j = i
      BY <1>2, <2>1 DEF Account
    <3>2. i \in R
      BY <1>1, <2>1
    <3> QED BY <3>1, <3>2
  <2>3. T = {}
    BY <1>2, <2>1 DEF Account
  <2>4. Cardinality(R) = 1 /\ Cardinality(T) = 0
    BY <2>2, <2>3, OneOrNone
  <2> QED BY <1>1, <2>4, SMTT(30) DEF InOne
<1>4. CASE ~(\E i \in 1..Len(r) : r[i].conn = x)
  <2>1. PICK s \in A : c[s] = x
    BY <1>4 DEF Account
  <2>2. T = {s}
    <3>1. \A q \in T : q = s
      BY <1>2, <2>1 DEF Account, OwnConn
    <3>2. s \in T
      BY <1>1, <2>1
    <3> QED BY <3>1, <3>2
  <2>3. R = {}
    BY <1>2, <1>4
  <2>4. Cardinality(R) = 0 /\ Cardinality(T) = 1
    BY <2>2, <2>3, OneOrNone
  <2> QED BY <1>1, <2>4, SMTT(30) DEF InOne
<1> QED BY <1>3, <1>4

\* trace_close reports each active open once, or its entry was evicted, and nothing else,
\* although sockets are reused and the table is of any size; the counters are the sums of
\* the reports.
THEOREM ReportedOnce == SpikeSpec => []TotalsOnce
<1>1. SpikeInv => TotalsOnce
  <2>1. SUFFICES ASSUME SpikeInv
                 PROVE  TotalsOnce
    OBVIOUS
  <2>2. \A i \in 1..Len(reported) : reported[i].conn \in opened \ evicted
    BY <2>1 DEF SpikeInv, Account
  <2>3. ASSUME NEW c \in opened \ evicted
        PROVE  Cardinality(Reports(c)) + Cardinality({s \in activeOpens : conn[s] = c}) = 1
    <3>1. Account(activeOpens, opened, evicted, reported, conn) /\ OwnConn(conn)
      BY <2>1, SpikeTyped DEF SpikeInv
    <3>2. InOne(activeOpens, reported, conn, c)
      BY <3>1, InOnePlace
    <3> QED BY <3>2 DEF InOne, Reports
  <2>4. spikeStats["ESTABLISHED"] = spikeStats["CLOSED"] + spikeStats["CLOSED_ZERO"]
          + Cardinality(activeOpens) + Cardinality(evicted)
    BY <2>1 DEF SpikeInv, SpikeBalance
  <2>5. spikeStats["BYTES_TOTAL"] = ReportedBytes
    <3>1. Len(reported) \in Nat
      <4>1. reported \in Seq(ByteReport)
        BY <2>1 DEF SpikeInv
      <4> QED BY <4>1, SMTT(30)
    <3>2. PICK f : IsSum(f, reported) /\ f[Len(reported)] = spikeStats["BYTES_TOTAL"]
      BY <2>1 DEF SpikeInv, Summed
    <3>3. PICK g : g = CHOOSE k : IsSum(k, reported)
      OBVIOUS
    <3>4. IsSum(g, reported)
      BY <3>2, <3>3
    <3>5. ReportedBytes = g[Len(reported)]
      BY <3>3 DEF ReportedBytes, IsSum
    <3> QED BY <3>1, <3>2, <3>4, <3>5, SumUnique
  <2> QED BY <2>2, <2>3, <2>4, <2>5 DEF TotalsOnce
<1> QED BY <1>1, SpikeInvInit, SpikeInvStep, PTL DEF SpikeSpec
=============================================================================
