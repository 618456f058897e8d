---------------------------- MODULE Credentials ----------------------------
(***************************************************************************)
(* The credentials file that CLI commands and MCP servers share            *)
(* (cli/internal/auth): Source.get and its refresh, SignIn, Logout, and    *)
(* Store.Update under the advisory lock; with the API client's single      *)
(* retry after a 401 (cli/internal/api/client.go).                         *)
(*                                                                         *)
(* A process runs one command for one server.  ID and refresh tokens are   *)
(* numbers in the order of issue; 0 is no token.  The provider rotates     *)
(* refresh tokens, or keeps them, and forgets all of them when it restarts.*)
(***************************************************************************)
EXTENDS Integers, FiniteSets

CONSTANTS
  Process,    \* processes
  Server,     \* servers in the file, numbered from 1
  Commands,   \* possible assignments of [command, server] to processes
  MaxIssued,  \* bound: tokens the provider issues
  MaxFaults   \* bound: crashes, lost answers, failed writes, provider restarts

Nobody == "nobody"
Command == {"query", "login", "logout"}

ASSUME CredAssumption ==
  /\ Server = 1..Cardinality(Server) /\ Cardinality(Server) \in 1..MaxIssued
  /\ MaxIssued \in Nat /\ MaxFaults \in Nat
  /\ Nobody \notin Process
  /\ Commands \subseteq [Process -> [command : Command, server : Server]]

VARIABLES
  file,       \* credentials.json: per server an entry, or Absent
  lock,       \* the process that holds credentials.lock, or Nobody
  run,        \* per process, its command and server
  proc,       \* per process: where it is (pc), the ID token get has returned, the token
              \* the server answered 401 to (get's argument), and its copy of the File
  valid,      \* refresh tokens the provider accepts
  issued,     \* tokens issued so far
  stale,      \* ID tokens that expire within RefreshWindow
  faults,     \* see MaxFaults
  replaced,   \* ghost: refresh tokens a written file has replaced by their successor
  excused,    \* ghost: refresh tokens that a fault has made useless
  signedOut   \* ghost: servers logged out of since the last login

providerVars == <<valid, issued, stale>>
ghosts == <<replaced, excused, signedOut>>
credVars == <<file, lock, run, proc, providerVars, faults, ghosts>>

NoFile == <<>>
Absent == [id |-> 0, refresh |-> 0, config |-> FALSE]
Cleared == [Absent EXCEPT !.config = TRUE]
SignedIn(e) == e.id # 0
SignedInAs(n, r) == [id |-> n, refresh |-> r, config |-> TRUE]
Of(p) == run[p].server
At(p, l) == proc[p].pc = l

Fault == faults < MaxFaults /\ faults' = faults + 1

New(l) == [pc |-> l, token |-> 0, rejected |-> 0, copy |-> NoFile]
Goto(p, l) == proc' = [proc EXCEPT ![p].pc = l]
End(p, l) == proc' = [proc EXCEPT ![p] = New(l)]

-----------------------------------------------------------------------------
(* source.go: get, outside the lock.                                       *)

NeedsRefresh(e, r) == IF r # 0 THEN e.id = r ELSE e.id \in stale

\* The lock-free read.  Without an entry, Token goes without a token and Refresh fails.
Load(p) ==
  /\ At(p, "load")
  /\ LET e == file[Of(p)]
         r == proc[p].rejected
     IN  \/ /\ e = Absent /\ r = 0
            /\ Goto(p, "request")
         \/ /\ ~SignedIn(e) /\ (e = Absent => r # 0)
            /\ End(p, "done")
         \/ /\ SignedIn(e) /\ ~NeedsRefresh(e, r)
            /\ proc' = [proc EXCEPT ![p].token = e.id, ![p].pc = "request"]
         \/ /\ SignedIn(e) /\ NeedsRefresh(e, r)
            /\ proc' = [proc EXCEPT ![p].copy = file, ![p].pc = "lock"]
  /\ UNCHANGED <<file, lock, run, providerVars, faults, ghosts>>

\* client.go: the request ends the command; but a 401 to a token is followed by
\* Refresh, once.
Accepted(p) ==
  /\ At(p, "request")
  /\ End(p, "done")
  /\ UNCHANGED <<file, lock, run, providerVars, faults, ghosts>>

Unauthorized(p) ==
  /\ At(p, "request")
  /\ IF proc[p].token # 0 /\ proc[p].rejected = 0
     THEN proc' = [proc EXCEPT ![p] = [New("load") EXCEPT !.rejected = proc[p].token]]
     ELSE End(p, "done")
  /\ UNCHANGED <<file, lock, run, providerVars, faults, ghosts>>

-----------------------------------------------------------------------------
(* store.go and lock_unix.go.                                              *)

\* Mutant: the lock does not exclude.
LockFreeAlways == TRUE

LockFree == lock = Nobody

\* Mutant: what was read before the lock is used.
UnderLockStale(p) == IF proc[p].copy = NoFile THEN file ELSE proc[p].copy

UnderLock(p) == file

\* lockExclusive, then the read under the lock.
Acquire(p) ==
  /\ At(p, "lock") /\ LockFree
  /\ lock' = p
  /\ proc' = [proc EXCEPT ![p].copy = UnderLock(p), ![p].pc = "locked"]
  /\ UNCHANGED <<file, run, providerVars, faults, ghosts>>

\* The lock was not free for DefaultLockTimeout.
GiveUp(p) ==
  /\ At(p, "lock") /\ lock # Nobody
  /\ End(p, "done")
  /\ UNCHANGED <<file, lock, run, providerVars, faults, ghosts>>

Unlock(p) == lock' = IF lock = p THEN Nobody ELSE lock

\* Where a command goes on once Update has returned.
After(p, t) == IF run[p].command = "query" /\ t # 0 THEN "request" ELSE "done"

Return(p, t) ==
  IF After(p, t) = "done" THEN End(p, "done")
  ELSE proc' = [proc EXCEPT ![p] = [New(After(p, t)) EXCEPT !.token = t,
                                                            !.rejected = proc[p].rejected]]

\* The callback has nothing to write.
Unchanged(p, t) == Unlock(p) /\ Return(p, t)

\* The callback puts entry e into the file f, and get will return t.
Prepare(p, f, e, t) ==
  proc' = [proc EXCEPT ![p].copy = [f EXCEPT ![Of(p)] = e], ![p].token = t, ![p].pc = "write"]

\* write: the rename, and the end of Update.
Write(p) ==
  /\ At(p, "write")
  /\ LET old == file[Of(p)]
         new == proc[p].copy[Of(p)]
     IN  /\ replaced' = IF run[p].command = "query" /\ SignedIn(new) /\ new.refresh # old.refresh
                        THEN replaced \cup {old.refresh} ELSE replaced
         /\ signedOut' = CASE run[p].command = "logout" -> signedOut \cup {Of(p)}
                           [] run[p].command = "login" -> signedOut \ {Of(p)}
                           [] OTHER -> signedOut
  /\ file' = proc[p].copy
  /\ Unlock(p)
  /\ Return(p, proc[p].token)
  /\ UNCHANGED <<run, providerVars, faults, excused>>

\* The tokens a process had got from the provider are lost with it.
Spoil(p) ==
  excused' = IF At(p, "write") /\ run[p].command = "query" THEN excused \cup {file[Of(p)].refresh}
             ELSE excused

\* The file cannot be written, or not be read again.
FileFails(p) ==
  /\ At(p, "write") \/ At(p, "reread")
  /\ Fault
  /\ Spoil(p)
  /\ Unlock(p)
  /\ End(p, "done")
  /\ UNCHANGED <<file, run, providerVars, replaced, signedOut>>

\* A crash releases the lock; the file is the old one until the rename.
Crash(p) ==
  /\ ~At(p, "done") /\ ~At(p, "crashed") /\ Fault
  /\ Spoil(p)
  /\ Unlock(p)
  /\ End(p, "crashed")
  /\ UNCHANGED <<file, run, providerVars, replaced, signedOut>>

-----------------------------------------------------------------------------
(* The callbacks of Update.                                                *)

\* get: the entry is looked at again.
LockedQuery(p) ==
  /\ At(p, "locked") /\ run[p].command = "query"
  /\ LET e == proc[p].copy[Of(p)]
         needed == NeedsRefresh(e, proc[p].rejected)
     IN  \/ ~SignedIn(e) /\ Unchanged(p, 0)
         \/ SignedIn(e) /\ ~needed /\ Unchanged(p, e.id)
         \/ /\ SignedIn(e) /\ needed /\ e.refresh = 0
            /\ Prepare(p, proc[p].copy, Cleared, 0) /\ UNCHANGED lock
         \/ SignedIn(e) /\ needed /\ e.refresh # 0 /\ Goto(p, "redeem") /\ UNCHANGED lock
  /\ UNCHANGED <<file, run, providerVars, faults, ghosts>>

Mine(p) == proc[p].copy[Of(p)].refresh

\* The provider takes the refresh token, and gives a new one or lets the old be.
Grant(p, n, r) ==
  /\ Mine(p) \in valid /\ issued < MaxIssued
  /\ n = issued + 1 /\ r \in {n, Mine(p)}
  /\ issued' = n
  /\ valid' = (valid \ {Mine(p)}) \cup {r}
  /\ UNCHANGED stale

Redeemed(p) ==
  /\ At(p, "redeem")
  /\ \E n, r \in 1..MaxIssued : Grant(p, n, r) /\ Prepare(p, proc[p].copy, SignedInAs(n, r), n)
  /\ UNCHANGED <<file, lock, run, faults, ghosts>>

\* The provider was not reached: the tokens are kept.
Unreachable(p) ==
  /\ At(p, "redeem")
  /\ Unchanged(p, 0)
  /\ UNCHANGED <<file, run, providerVars, faults, ghosts>>

\* It was, but its answer did not arrive in refreshTimeout.
AnswerLost(p) ==
  /\ At(p, "redeem") /\ Fault
  /\ \E n, r \in 1..MaxIssued : Grant(p, n, r)
  /\ Unchanged(p, 0)
  /\ excused' = excused \cup {Mine(p)}
  /\ UNCHANGED <<file, run, replaced, signedOut>>

Refused(p) ==
  /\ At(p, "redeem") /\ Mine(p) \notin valid
  /\ Goto(p, "reread")
  /\ UNCHANGED <<file, lock, run, providerVars, faults, ghosts>>

\* The answer holds no usable ID token, which get takes for a refusal.
Unusable(p) ==
  /\ At(p, "redeem") /\ Fault
  /\ \E n, r \in 1..MaxIssued : Grant(p, n, r)
  /\ excused' = excused \cup {Mine(p)}
  /\ Goto(p, "reread")
  /\ UNCHANGED <<file, lock, run, replaced, signedOut>>

\* Compare before clear.
Reread(p) ==
  /\ At(p, "reread")
  /\ IF file[Of(p)].refresh = Mine(p) THEN Prepare(p, file, Cleared, 0) /\ UNCHANGED lock
     ELSE Unchanged(p, file[Of(p)].id)
  /\ UNCHANGED <<file, run, providerVars, faults, ghosts>>

\* SignIn: the browser round trip; then the entry is stored.  A provider may give
\* no refresh token.
Granted(p) ==
  /\ At(p, "browser")
  /\ \/ /\ issued < MaxIssued
        /\ issued' = issued + 1 /\ valid' = valid \cup {issued'}
        /\ proc' = [proc EXCEPT ![p].token = issued', ![p].pc = "lock"]
     \/ End(p, "done") /\ UNCHANGED <<issued, valid>>
  /\ UNCHANGED <<file, lock, run, stale, faults, ghosts>>

LockedLogin(p) ==
  /\ At(p, "locked") /\ run[p].command = "login"
  /\ \E r \in {0, proc[p].token} :
       Prepare(p, proc[p].copy, SignedInAs(proc[p].token, r), proc[p].token)
  /\ UNCHANGED <<file, lock, run, providerVars, faults, ghosts>>

\* Logout.
LockedLogout(p) ==
  /\ At(p, "locked") /\ run[p].command = "logout"
  /\ IF proc[p].copy[Of(p)] = Absent THEN Unchanged(p, 0)
     ELSE Prepare(p, proc[p].copy, Absent, 0) /\ UNCHANGED lock
  /\ UNCHANGED <<file, run, providerVars, faults, ghosts>>

-----------------------------------------------------------------------------
\* Time passes: the tokens issued so far come within RefreshWindow of expiry.
Age ==
  /\ stale # 1..issued
  /\ stale' = 1..issued
  /\ UNCHANGED <<file, lock, run, proc, valid, issued, faults, ghosts>>

\* The provider restarts, with its tokens in memory.
Restart ==
  /\ Fault
  /\ valid' = {}
  /\ excused' = excused \cup valid
  /\ UNCHANGED <<file, lock, run, proc, issued, stale, replaced, signedOut>>

First == [query |-> "load", login |-> "browser", logout |-> "lock"]

CredInit ==
  /\ run \in Commands
  /\ file = [s \in Server |-> SignedInAs(s, s)]
  /\ lock = Nobody
  /\ proc = [p \in Process |-> New(First[run[p].command])]
  /\ valid = Server /\ issued = Cardinality(Server) /\ stale = {}
  /\ faults = 0
  /\ replaced = {} /\ excused = {} /\ signedOut = {}

Steps(p) ==
  \/ Load(p) \/ Accepted(p) \/ Unauthorized(p)
  \/ Acquire(p) \/ GiveUp(p) \/ Write(p) \/ FileFails(p) \/ Crash(p)
  \/ LockedQuery(p) \/ Redeemed(p) \/ Unreachable(p) \/ AnswerLost(p) \/ Refused(p)
  \/ Unusable(p) \/ Reread(p)
  \/ Granted(p) \/ LockedLogin(p) \/ LockedLogout(p)

CredNext == (\E p \in Process : Steps(p)) \/ Age \/ Restart

\* A process goes on: requests and waits have timeouts.
CredFairness == \A p \in Process : WF_credVars(Steps(p))

CredSpec == CredInit /\ [][CredNext]_credVars /\ CredFairness

-----------------------------------------------------------------------------
(* Properties.                                                             *)

\* Type invariant; a process past the lock holds it.
CredTypeOK ==
  /\ \A s \in Server : file[s].id \in 0..MaxIssued /\ file[s].refresh \in 0..MaxIssued
  /\ valid \subseteq 1..issued /\ issued \in 1..MaxIssued
  /\ lock \in Process \cup {Nobody}
  /\ \A p \in Process : proc[p].pc \in {"locked", "redeem", "reread", "write"} => lock = p

\* ADR-015 D-15.10: processes sharing one file "never sign each other out through
\* rotation".  Tokens are cleared only when a restart of the provider, a lost or
\* unusable answer, a crash or a failed write had made them useless.
RotationNeverSignsOut ==
  [][\A s \in Server : SignedIn(file[s]) /\ file'[s] = Cleared =>
       file[s].refresh \in excused \cup {0}]_credVars

\* Whoever changes the file starts from what the others wrote, although each read it
\* before it had the lock: only the entry of the writer's own server changes, a
\* refresh in flight does not undo a logout, and a refresh token that has been replaced
\* is not redeemed again, which would look like theft to the provider.
NoLostUpdate ==
  /\ [][\A s \in Server : file'[s] # file[s] =>
          \E p \in Process : At(p, "write") /\ proc'[p].pc # "write" /\ Of(p) = s]_credVars
  /\ [](\A s \in signedOut : file[s] = Absent)
  /\ [](\A p \in Process : At(p, "redeem") => Mine(p) \notin replaced)

AllEnded == \A p \in Process : proc[p].pc \in {"done", "crashed"}

=============================================================================
