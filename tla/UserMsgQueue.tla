----------------------------- MODULE UserMsgQueue -----------------------------
(***************************************************************************)
(* The queue of an account's user messages: a lock in Redis lets one at a  *)
(* time be sent upstream, and a delay after the end of the last one keeps  *)
(* them apart.  The queue fails open: a request that does not get the lock *)
(* in time, or no answer from Redis, is sent all the same.                 *)
(*                                                                         *)
(* Time is counted in ticks, and every period as what is left of it.  Each *)
(* attempt draws a new id; a lock under an id that nobody remembers        *)
(* belongs to Ghost.  The load that lengthens the delay, and its jitter,   *)
(* make it any number of ticks between MinDelay and MaxDelay.              *)
(***************************************************************************)
EXTENDS Naturals

CONSTANTS
  Requests,            \* user messages for one account, one after the other each
  TTL,                 \* LockTTLMs
  MinDelay, MaxDelay,
  LastTTL,             \* how long the time of the last message is kept
  Retries,             \* bound on the repetitions of a call without an answer
  FaultSets            \* sets of faults, one of which a behaviour has

Faults == {"lost", "redis", "crash", "failover"}

ASSUME UserMsgQueueAssumption ==
  /\ TTL \in Nat \ {0} /\ MinDelay \in Nat \ {0} /\ MaxDelay \in Nat
  /\ MinDelay <= MaxDelay /\ MaxDelay <= LastTTL /\ LastTTL \in Nat /\ Retries \in Nat
  /\ FaultSets \subseteq SUBSET Faults

Free == "free"
Ghost == "ghost"

ASSUME OwnersAreDistinct == Requests \cap {Free, Ghost} = {}

VARIABLES
  faults,
  lock,     \* umq:{id}:lock: its owner, the time it has left, or none (PTTL -1)
  age,      \* umq:{id}:last: how long ago the last message ended, LastTTL if unknown
  orphan,   \* ScanLockKeys has returned the account
  rq,       \* the requests
  quiet     \* history: how long ago the last message that had the lock ended, up to MaxDelay

umqVars == <<faults, lock, age, orphan, rq, quiet>>

\* lease: what is left of the lock the request was granted.  known: its id is not empty.
Idle == [pc |-> "idle", lease |-> 0, known |-> FALSE, failed |-> FALSE, tries |-> 0,
         last |-> 0, wait |-> 0]

NoLock == [owner |-> Free, left |-> 0, lasting |-> FALSE]
Locked(o) == [owner |-> o, left |-> TTL, lasting |-> FALSE]

\* Every variable stays within its type; a lock has time left, or has lost its TTL.
UMQTypeOK ==
  /\ faults \in FaultSets
  /\ lock \in [owner : Requests \cup {Free, Ghost}, left : 0..TTL, lasting : BOOLEAN]
  /\ lock.owner = Free => lock = NoLock
  /\ lock.owner # Free => lock.lasting \/ lock.left > 0
  /\ age \in 0..LastTTL /\ quiet \in 0..MaxDelay /\ orphan \in BOOLEAN
  /\ rq \in [Requests -> [pc : {"idle", "try", "last", "now", "delay", "undo", "send", "release"},
                          lease : 0..TTL, known : BOOLEAN, failed : BOOLEAN,
                          tries : 0..Retries, last : 0..MaxDelay, wait : 0..MaxDelay]]

UMQInit ==
  /\ faults \in FaultSets
  /\ lock = NoLock /\ age = LastTTL /\ quiet = MaxDelay /\ orphan = FALSE
  /\ rq = [r \in Requests |-> Idle]

----------------------------------------------------------------------------
Set(r, v) == rq' = [rq EXCEPT ![r] = v]
GoOn(r, pc) == Set(r, [rq[r] EXCEPT !.pc = pc])
Unanswered(r, pc) == Set(r, [rq[r] EXCEPT !.pc = pc, !.failed = TRUE])

\* The request forgets its id; what it has left in Redis stays.
Forgotten(r) == IF lock.owner = r THEN [lock EXCEPT !.owner = Ghost] ELSE lock

Arrive(r) ==
  /\ rq[r].pc = "idle"
  /\ GoOn(r, "try")
  /\ UNCHANGED <<faults, lock, age, orphan, quiet>>

\* acquireLockScript grants the lock again to the same id, so that the call can be
\* repeated.
Grantable(r) == lock.owner \in {Free, r}

Acquire(r) ==
  /\ rq[r].pc = "try" /\ Grantable(r)
  /\ lock' = Locked(r)
  /\ Set(r, [rq[r] EXCEPT !.pc = "last", !.lease = TTL, !.known = TRUE])
  /\ UNCHANGED <<faults, age, orphan, quiet>>

\* The script has run, but its answer is lost and the client repeats the call.
AcquireLost(r) ==
  /\ "lost" \in faults /\ rq[r].pc = "try" /\ Grantable(r) /\ rq[r].tries < Retries
  /\ lock' = Locked(r)
  /\ Set(r, [rq[r] EXCEPT !.tries = @ + 1])
  /\ UNCHANGED <<faults, age, orphan, quiet>>

\* Redis does not answer, or not before the deadline: the request takes the lock as
\* granted, with an empty id.
AcquireFails(r) ==
  /\ "redis" \in faults /\ rq[r].pc = "try"
  /\ lock' = Forgotten(r)
  /\ Unanswered(r, "last")
  /\ UNCHANGED <<faults, age, orphan, quiet>>

\* The time to wait for the lock is over: the request goes on without it.
WaitTimeout(r) ==
  /\ rq[r].pc = "try" /\ lock.owner # r
  /\ GoOn(r, "send")
  /\ UNCHANGED <<faults, lock, age, orphan, quiet>>

\* EnforceDelay: the end of the last message, the current time, and the rest of the delay.
ReadLast(r) ==
  /\ rq[r].pc = "last"
  /\ IF age = LastTTL THEN GoOn(r, "send")
     ELSE Set(r, [rq[r] EXCEPT !.pc = "now", !.last = IF age < MaxDelay THEN age ELSE MaxDelay])
  /\ UNCHANGED <<faults, lock, age, orphan, quiet>>

ReadNow(r) ==
  /\ rq[r].pc = "now"
  /\ \E d \in MinDelay..MaxDelay :
       IF rq[r].last >= d THEN GoOn(r, "send")
       ELSE Set(r, [rq[r] EXCEPT !.pc = "delay", !.wait = d - rq[r].last])
  /\ UNCHANGED <<faults, lock, age, orphan, quiet>>

ReadFails(r) ==
  /\ "redis" \in faults /\ rq[r].pc \in {"last", "now"}
  /\ Unanswered(r, "send")
  /\ UNCHANGED <<faults, lock, age, orphan, quiet>>

Wake(r) ==
  /\ rq[r].pc = "delay" /\ rq[r].wait = 0
  /\ GoOn(r, "send")
  /\ UNCHANGED <<faults, lock, age, orphan, quiet>>

\* The waiting time ends, or the client goes away, during the delay.
Interrupted(r) ==
  /\ rq[r].pc = "delay"
  /\ GoOn(r, "undo")
  /\ UNCHANGED <<faults, lock, age, orphan, quiet>>

\* The upstream has accepted the message, has failed, or the client has gone away.
Sent(r) ==
  /\ rq[r].pc = "send"
  /\ GoOn(r, "release")
  /\ UNCHANGED <<faults, lock, age, orphan, quiet>>

\* After the lock was given back, the request ends, or is sent without it.
Over(r) == Set(r, Idle) \/ (rq[r].pc = "undo" /\ Set(r, [Idle EXCEPT !.pc = "send"]))

ReleaseLock_NoTime(r) ==
  /\ rq[r].pc \in {"undo", "release"}
  /\ IF rq[r].known /\ lock.owner = r
     THEN lock' = NoLock /\ quiet' = IF rq[r].pc = "release" THEN 0 ELSE quiet
     ELSE UNCHANGED <<lock, quiet>>
  /\ Over(r)
  /\ UNCHANGED <<faults, age, orphan>>

ReleaseLock_AnyOwner(r) ==
  /\ rq[r].pc \in {"undo", "release"}
  /\ IF rq[r].known /\ lock.owner # Free
     THEN lock' = NoLock /\ age' = 0 /\ quiet' = IF rq[r].pc = "release" THEN 0 ELSE quiet
     ELSE UNCHANGED <<lock, age, quiet>>
  /\ Over(r)
  /\ UNCHANGED <<faults, orphan>>

\* releaseLockScript compares the owner, and records the time.
ReleaseLock(r) ==
  /\ rq[r].pc \in {"undo", "release"}
  /\ IF rq[r].known /\ lock.owner = r
     THEN lock' = NoLock /\ age' = 0 /\ quiet' = IF rq[r].pc = "release" THEN 0 ELSE quiet
     ELSE UNCHANGED <<lock, age, quiet>>
  /\ Over(r)
  /\ UNCHANGED <<faults, orphan>>

ReleaseFails(r) ==
  /\ "redis" \in faults /\ rq[r].pc \in {"undo", "release"} /\ rq[r].known
  /\ lock' = Forgotten(r)
  /\ Over(r)
  /\ UNCHANGED <<faults, age, orphan, quiet>>

Stop(r) ==
  /\ "crash" \in faults /\ rq[r].pc # "idle"
  /\ lock' = Forgotten(r)
  /\ Set(r, Idle)
  /\ UNCHANGED <<faults, age, orphan, quiet>>

----------------------------------------------------------------------------
(* A lock without a TTL, after a failover of Redis, and the worker that    *)
(* removes it.                                                             *)
Failover ==
  /\ "failover" \in faults /\ lock.owner # Free
  /\ lock' = [lock EXCEPT !.lasting = TRUE, !.left = 0]
  /\ rq' = [r \in Requests |-> [rq[r] EXCEPT !.lease = 0]]
  /\ UNCHANGED <<faults, age, orphan, quiet>>

ScanLockKeys ==
  /\ lock.lasting /\ ~orphan
  /\ orphan' = TRUE
  /\ UNCHANGED <<faults, lock, age, rq, quiet>>

ForceRelease_Expiring ==
  /\ orphan
  /\ lock' = IF lock.lasting THEN lock ELSE NoLock
  /\ orphan' = FALSE
  /\ UNCHANGED <<faults, age, rq, quiet>>

\* The script looks at the TTL again: the lock may be another one by now.
ForceRelease ==
  /\ orphan
  /\ lock' = IF lock.lasting THEN NoLock ELSE lock
  /\ orphan' = FALSE
  /\ UNCHANGED <<faults, age, rq, quiet>>

Less(n) == IF n > 0 THEN n - 1 ELSE 0
More(n, high) == IF n < high THEN n + 1 ELSE n

Elapsed == IF lock.left = 1 THEN NoLock ELSE [lock EXCEPT !.left = Less(@)]

Tick ==
  /\ lock' = Elapsed
  /\ age' = More(age, LastTTL) /\ quiet' = More(quiet, MaxDelay)
  /\ rq' = [r \in Requests |->
              [rq[r] EXCEPT !.lease = Less(@), !.wait = Less(@),
                            !.last = IF rq[r].pc = "now" THEN More(@, MaxDelay) ELSE @]]
  /\ UNCHANGED <<faults, orphan>>

UMQNext ==
  \/ \E r \in Requests :
       \/ Arrive(r) \/ Acquire(r) \/ AcquireLost(r) \/ AcquireFails(r) \/ WaitTimeout(r)
       \/ ReadLast(r) \/ ReadNow(r) \/ ReadFails(r) \/ Wake(r) \/ Interrupted(r)
       \/ Sent(r) \/ ReleaseLock(r) \/ ReleaseFails(r) \/ Stop(r)
  \/ Failover \/ ScanLockKeys \/ ForceRelease \/ Tick

UMQSpec == UMQInit /\ [][UMQNext]_umqVars

\* Time passes, and the cleanup worker runs at its interval.
UMQFairSpec == UMQSpec /\ WF_umqVars(Tick) /\ WF_umqVars(ScanLockKeys) /\ WF_umqVars(ForceRelease)

----------------------------------------------------------------------------
\* A request keeps the lock for the time it was granted, so that as long no other one has
\* it: neither the late release of a message that outlived its lock, nor that of one that
\* was sent without, nor the removal of orphans takes it away.  (With the types: whatever
\* has expired is gone.)
LockKept == UMQTypeOK /\ \A r \in Requests : rq[r].lease > 0 => lock.owner = r

\* A message that is sent with the lock, by a request whose calls were answered, starts no
\* sooner than MinDelay after the end of the last one that had it.
Spaced ==
  [][\A r \in Requests :
       rq[r].pc # "send" /\ rq'[r].pc = "send" /\ rq'[r].lease > 0 /\ ~rq'[r].failed =>
         quiet >= MinDelay]_umqVars

\* Whoever has the lock loses it, also when it has lost its owner or its TTL.
LockReturns ==
  \A o \in Requests \cup {Ghost} : lock.owner = o ~> lock.owner # o
=============================================================================
