------------------------------ MODULE Sockets ------------------------------
(***************************************************************************)
(* The part of the Linux kernel that the BPF programs of agent/bpf observe *)
(* (external): sockets that change state under their own lock, the         *)
(* tracepoint sock/inet_sock_set_state that calls the attached program at  *)
(* every change, and the two clocks.  CLOCK_MONOTONIC, which               *)
(* bpf_ktime_get_ns reads, stands still while the machine is suspended.    *)
(*                                                                         *)
(* A socket is its kernel address, which a later socket may reuse; conn    *)
(* numbers the connections, so that reuse can be told from one socket.     *)
(***************************************************************************)
EXTENDS Integers, Sequences, FiniteSets

CONSTANTS
  NumSocks,   \* socket addresses
  MaxChanges, \* bound: state changes while the program is attached
  TickSize,   \* by how much a clock advances in a step
  MaxMono,    \* bound: last reading of the monotonic clock
  MaxSleep    \* bound: time spent suspended

ASSUME SocketsAssumption ==
  NumSocks \in Nat /\ MaxChanges \in Nat /\ TickSize \in Nat /\ MaxMono \in Nat /\ MaxSleep \in Nat

Sock == 1..NumSocks

\* The TCP states of vmlinux.h; DOWN is any state between ESTABLISHED and CLOSE.
TcpState == {"ESTABLISHED", "SYN_SENT", "SYN_RECV", "DOWN", "CLOSE", "LISTEN"}

\* "tcp4" passes the programs' filters, "tcp6" fails on the family and "other"
\* (IPv4, not TCP) on the protocol.
Kind == {"tcp4", "tcp6", "other"}

\* State changes the kernel reports.  A closed socket may be closed again.
TcpSteps ==
  {<<"CLOSE", "SYN_SENT">>, <<"CLOSE", "LISTEN">>, <<"CLOSE", "CLOSE">>,
   <<"LISTEN", "CLOSE">>, <<"LISTEN", "SYN_RECV">>,
   <<"SYN_SENT", "ESTABLISHED">>, <<"SYN_SENT", "SYN_RECV">>, <<"SYN_SENT", "CLOSE">>,
   <<"SYN_RECV", "ESTABLISHED">>, <<"SYN_RECV", "CLOSE">>,
   <<"ESTABLISHED", "DOWN">>, <<"ESTABLISHED", "CLOSE">>, <<"DOWN", "CLOSE">>}

\* A call of the program: the transition and the clocks when it begins.
Hit == [old : TcpState, new : TcpState, now : Nat, wall : Nat]

VARIABLES
  st,     \* st[s]: TCP state
  kind,   \* kind[s]: family and protocol; each has its own allocator of sockets
  conn,   \* conn[s]: number of the connection now, or last, at s
  syn,    \* syn[s]: monotonic time at which that connection entered SYN_SENT
  conns,  \* connections numbered so far
  changes, \* state changes so far
  hit,    \* hit[s]: the call of the program in progress for s, at most one
  mono,   \* CLOCK_MONOTONIC
  slept   \* total time suspended

sockVars == <<st, kind, conn, syn, conns, changes, hit, mono, slept>>

wall == mono + slept

\* The program is attached to a running system: any socket may exist already.
SocketsInit ==
  /\ st \in [Sock -> {"CLOSE", "SYN_SENT", "ESTABLISHED"}]
  /\ kind \in [Sock -> Kind]
  /\ conn = [s \in Sock |-> s]
  /\ syn = [s \in Sock |-> 0]
  /\ conns = NumSocks
  /\ changes = 0
  /\ hit = [s \in Sock |-> {}]
  /\ mono = 0
  /\ slept = 0

\* The kernel changes s's state, under s's lock, and calls the program.
SetState(s, new) ==
  /\ changes < MaxChanges
  /\ changes' = changes + 1
  /\ hit[s] = {}
  /\ <<st[s], new>> \in TcpSteps
  /\ st' = [st EXCEPT ![s] = new]
  /\ hit' = [hit EXCEPT ![s] = {[old |-> st[s], new |-> new, now |-> mono, wall |-> wall]}]
  /\ IF st[s] \in {"CLOSE", "LISTEN"} /\ new \in {"SYN_SENT", "SYN_RECV"}
     THEN /\ conns' = conns + 1
          /\ conn' = [conn EXCEPT ![s] = conns + 1]
          /\ syn' = [syn EXCEPT ![s] = mono]
     ELSE UNCHANGED <<conns, conn, syn>>
  /\ UNCHANGED <<kind, mono, slept>>

\* The program's call for s ends.
CallEnds(s) ==
  /\ hit' = [hit EXCEPT ![s] = {}]
  /\ UNCHANGED <<st, kind, conn, syn, conns, changes, mono, slept>>

ClockTick ==
  /\ mono < MaxMono
  /\ mono' = mono + TickSize
  /\ UNCHANGED <<st, kind, conn, syn, conns, changes, hit, slept>>

Suspend ==
  /\ slept < MaxSleep
  /\ slept' = slept + TickSize
  /\ UNCHANGED <<st, kind, conn, syn, conns, changes, hit, mono>>

StateChange == \E s \in Sock, new \in TcpState : SetState(s, new)

Kernel == StateChange \/ ClockTick \/ Suspend

\* Kernel table with least-recently-used eviction, of size room: the sets of keys
\* that may be left when s is inserted.  Eviction is approximate: it may take any
\* other entry, and may come before the table is full.
AfterInsert(keys, s, room) ==
  {k \in {keys \cup {s}} \cup {(keys \ {v}) \cup {s} : v \in keys \ {s}} : Cardinality(k) <= room}

SocketsTypeOK ==
  /\ st \in [Sock -> TcpState]
  /\ kind \in [Sock -> Kind]
  /\ conn \in [Sock -> Nat] /\ syn \in [Sock -> Nat] /\ conns \in Nat /\ changes \in Nat
  /\ hit \in [Sock -> SUBSET Hit]
  /\ mono \in Nat /\ slept \in Nat
=============================================================================
