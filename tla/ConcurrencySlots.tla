-------------------------- MODULE ConcurrencySlots --------------------------
(***************************************************************************)
(* The concurrency limit of one user or one upstream account: a sorted set *)
(* of slots and a counter of waiting requests in Redis, used by the        *)
(* requests of several server instances.  Each Redis script is one atomic  *)
(* step.  A slot is kept alive by nothing: it is stale once its score is   *)
(* older than the TTL.  Instances crash with their requests, and clean up  *)
(* when they start.                                                        *)
(***************************************************************************)
EXTENDS Integers, FiniteSets

CONSTANTS
  Instances,   \* server processes that share the Redis
  Procs,       \* concurrent requests
  Ids,         \* request ids of slots; bound on how many are in use at once
  Max,         \* maxConcurrency of the user or account
  MaxWait,     \* size of its wait queue
  RedisFaults  \* how a Redis call may fail: "lost", or "ambiguous" (it took effect)

None == "none"

ASSUME ConcurrencySlotsAssumption ==
  /\ IsFiniteSet(Procs) /\ IsFiniteSet(Ids)
  /\ Max \in Nat \ {0} /\ MaxWait \in Nat
  /\ RedisFaults \subseteq {"lost", "ambiguous"}
  /\ None \notin Ids \cup Instances

VARIABLES
  kind,     \* whose limit it is: a user's or an account's
  slots,    \* members of concurrency:user:{id} or concurrency:account:{id}
  stale,    \* those whose score is older than the TTL
  wait,     \* concurrency:wait:{id} or wait:account:{id}
  up,       \* per instance: running, down, or at which step of its cleanup
  home,     \* per request: the instance that serves it
  pc,       \* what each request does next
  mine,     \* the id of the slot it will release
  counted,  \* waitCounted
  broken    \* which of "redis", "ttl", "startup" has gone wrong so far

redis   == <<slots, stale, wait>>
request == <<home, pc, mine, counted>>
vars    == <<kind, redis, up, request, broken>>

Steps == {"idle", "first", "count", "try", "leave", "uncount", "run"}

Init ==
  /\ kind \in {"user", "account"}
  /\ slots = {} /\ stale = {} /\ wait = 0
  /\ up = [i \in Instances |-> "down"]
  /\ home = [p \in Procs |-> None] /\ pc = [p \in Procs |-> "idle"]
  /\ mine = [p \in Procs |-> None] /\ counted = [p \in Procs |-> FALSE]
  /\ broken = {}

-----------------------------------------------------------------------------
Outcomes      == {"ok"} \cup RedisFaults
Goto(p, step) == pc' = [pc EXCEPT ![p] = step]
Noting(r)     == broken' = IF r = "ok" THEN broken ELSE broken \cup {"redis"}

Holders == {p \in Procs : mine[p] # None}
Waiters == {p \in Procs : counted[p]}

Finish(p) ==
  /\ Goto(p, "idle")
  /\ home' = [home EXCEPT ![p] = None]

\* An account is tried while it is selected, before its queue is joined; a user's queue
\* is joined first.
Begin(p) ==
  /\ pc[p] = "idle"
  /\ \E i \in Instances : up[i] = "up" /\ home' = [home EXCEPT ![p] = i]
  /\ Goto(p, IF kind = "user" THEN "count" ELSE "first")
  /\ UNCHANGED <<kind, redis, up, mine, counted, broken>>

\* Mutant: the counter is compared after it was incremented.
IncrementWaitCount_OffByOne(p) ==
  /\ pc[p] = "count"
  /\ \E r \in Outcomes :
       /\ wait' = IF r # "lost" /\ wait <= MaxWait THEN wait + 1 ELSE wait
       /\ IF r = "ok" /\ wait > MaxWait
          THEN Finish(p) /\ UNCHANGED counted
          ELSE Goto(p, "try") /\ counted' = [counted EXCEPT ![p] = TRUE] /\ UNCHANGED home
       /\ Noting(r)
  /\ UNCHANGED <<kind, slots, stale, up, mine>>

\* incrementWaitScript.  A full queue is answered 429; after an error the service says
\* "true", and the handler will decrement a counter it may not have incremented.
IncrementWaitCount(p) ==
  /\ pc[p] = "count"
  /\ \E r \in Outcomes :
       /\ wait' = IF r # "lost" /\ wait < MaxWait THEN wait + 1 ELSE wait
       /\ IF r = "ok" /\ wait >= MaxWait
          THEN Finish(p) /\ UNCHANGED counted
          ELSE Goto(p, "try") /\ counted' = [counted EXCEPT ![p] = TRUE] /\ UNCHANGED home
       /\ Noting(r)
  /\ UNCHANGED <<kind, slots, stale, up, mine>>

Live == slots \ stale

Got(p, id) ==
  /\ mine' = [mine EXCEPT ![p] = id]
  /\ Goto(p, IF counted[p] THEN "uncount" ELSE "run")

Missed(p, r) ==
  /\ Goto(p, CASE pc[p] = "first" -> "count" [] r = "ok" -> "try" [] OTHER -> "leave")
  /\ UNCHANGED mine

\* Mutant: the slot is added without looking at the number of slots.
AcquireSlot_NoCount(p) ==
  /\ pc[p] \in {"first", "try"}
  /\ \E id \in Ids \ (slots \cup {mine[q] : q \in Procs}) :
       slots' = Live \cup {id} /\ Got(p, id)
  /\ stale' = {}
  /\ UNCHANGED <<kind, wait, up, home, counted, broken>>

\* acquireScript with a new request id: stale slots are removed, then a slot is added if
\* there is room.  After an error the id is forgotten, whether it was added or not.
AcquireSlot(p) ==
  /\ pc[p] \in {"first", "try"}
  /\ \E r \in Outcomes :
       /\ Noting(r)
       /\ \/ /\ r # "lost" /\ Cardinality(Live) < Max
             /\ \E id \in Ids \ (slots \cup {mine[q] : q \in Procs}) :
                  /\ slots' = Live \cup {id}
                  /\ IF r = "ok" THEN Got(p, id) ELSE Missed(p, r)
             /\ stale' = {}
          \/ /\ r # "lost" /\ Cardinality(Live) >= Max
             /\ slots' = Live /\ stale' = {}
             /\ Missed(p, r)
          \/ /\ r = "lost"
             /\ Missed(p, r)
             /\ UNCHANGED <<slots, stale>>
  /\ UNCHANGED <<kind, wait, up, home, counted>>

\* The wait ends with its timeout or with the client's connection.
GiveUp(p) ==
  /\ pc[p] = "try"
  /\ Goto(p, "leave")
  /\ UNCHANGED <<kind, redis, up, home, mine, counted, broken>>

\* decrementWaitScript, when this request believes to be counted.
DecrementWaitCount(p) ==
  /\ \E r \in IF counted[p] THEN Outcomes ELSE {"ok"} :
       /\ wait' = IF counted[p] /\ r # "lost" /\ wait > 0 THEN wait - 1 ELSE wait
       /\ Noting(r)
  /\ counted' = [counted EXCEPT ![p] = FALSE]

Leave(p) ==
  /\ pc[p] = "leave"
  /\ DecrementWaitCount(p)
  /\ Finish(p)
  /\ UNCHANGED <<kind, slots, stale, up, mine>>

Uncount(p) ==
  /\ pc[p] = "uncount"
  /\ DecrementWaitCount(p)
  /\ Goto(p, "run")
  /\ UNCHANGED <<kind, slots, stale, up, home, mine>>

\* wrapReleaseOnDone: once, when the request ends or its client disconnects.
Release(p) ==
  /\ pc[p] = "run"
  /\ \E r \in Outcomes :
       /\ IF r = "lost" THEN UNCHANGED <<slots, stale>>
                        ELSE slots' = slots \ {mine[p]} /\ stale' = stale \ {mine[p]}
       /\ Noting(r)
  /\ mine' = [mine EXCEPT ![p] = None]
  /\ Finish(p)
  /\ UNCHANGED <<kind, wait, up, counted>>

-----------------------------------------------------------------------------
\* Time passes.  A slot that outlives its TTL while its request runs breaks the rule
\* that the TTL is longer than any request.
Expire(id) ==
  /\ id \in Live
  /\ stale' = stale \cup {id}
  /\ broken' = IF \E p \in Procs : mine[p] = id THEN broken \cup {"ttl"} ELSE broken
  /\ UNCHANGED <<kind, slots, wait, up, request>>

\* Mutant: the cleanup worker forgets to remove.
PurgeExpired_Never ==
  /\ stale # {}
  /\ UNCHANGED vars

\* The cleanup worker and every read of the load remove stale slots; a key nobody
\* uses expires as a whole.
PurgeExpired ==
  /\ stale # {}
  /\ slots' = Live /\ stale' = {}
  /\ UNCHANGED <<kind, wait, up, request, broken>>

\* The counter's TTL is refreshed by increments and longer than any wait.
WaitCountExpires ==
  /\ wait > 0 /\ Waiters = {}
  /\ wait' = 0
  /\ UNCHANGED <<kind, slots, stale, up, request, broken>>

Crash(i) ==
  /\ up[i] # "down"
  /\ up' = [up EXCEPT ![i] = "down"]
  /\ LET lost == {p \in Procs : home[p] = i} IN
     /\ home' = [p \in Procs |-> IF p \in lost THEN None ELSE home[p]]
     /\ pc' = [p \in Procs |-> IF p \in lost THEN "idle" ELSE pc[p]]
     /\ mine' = [p \in Procs |-> IF p \in lost THEN None ELSE mine[p]]
     /\ counted' = [p \in Procs |-> IF p \in lost THEN FALSE ELSE counted[p]]
  /\ UNCHANGED <<kind, redis, broken>>

\* CleanupStaleProcessSlots runs before the instance serves.  Its prefix is new, so
\* every slot is removed, those of other instances' running requests too.
CleanSlots(i) ==
  /\ up[i] = "down"
  /\ \E r \in Outcomes :
       /\ IF r = "lost" THEN UNCHANGED <<slots, stale>> ELSE slots' = {} /\ stale' = {}
       /\ up' = [up EXCEPT ![i] = IF r = "ok" THEN "waits" ELSE "up"]
       /\ broken' = broken \cup (IF r = "ok" THEN {} ELSE {"redis"})
                           \cup (IF \E p \in Procs : pc[p] # "idle" THEN {"startup"} ELSE {})
  /\ UNCHANGED <<kind, wait, request>>

CleanWaits(i) ==
  /\ up[i] = "waits"
  /\ \E r \in Outcomes :
       /\ wait' = IF r = "lost" THEN wait ELSE 0
       /\ broken' = broken \cup (IF r = "ok" THEN {} ELSE {"redis"})
                           \cup (IF \E p \in Procs : pc[p] # "idle" THEN {"startup"} ELSE {})
  /\ up' = [up EXCEPT ![i] = "up"]
  /\ UNCHANGED <<kind, slots, stale, request>>

Continue(p) == IncrementWaitCount(p) \/ AcquireSlot(p) \/ Leave(p) \/ Uncount(p) \/ Release(p)

Next == \/ \E p \in Procs : Begin(p) \/ Continue(p) \/ GiveUp(p)
        \/ \E id \in Ids : Expire(id)
        \/ PurgeExpired \/ WaitCountExpires
        \/ \E i \in Instances : Crash(i) \/ CleanSlots(i) \/ CleanWaits(i)

Spec     == Init /\ [][Next]_vars
\* Time passes, and stale slots are removed.
FairSpec == /\ Spec
            /\ WF_vars(PurgeExpired)
            /\ \A id \in Ids : WF_vars(Expire(id))
-----------------------------------------------------------------------------
RedisOK == slots \subseteq Ids /\ stale \subseteq slots /\ wait \in 0..MaxWait

RequestOK ==
  /\ kind \in {"user", "account"}
  /\ up \in [Instances -> {"down", "waits", "up"}]
  /\ home \in [Procs -> Instances \cup {None}] /\ pc \in [Procs -> Steps]
  /\ mine \in [Procs -> Ids \cup {None}] /\ counted \in [Procs -> BOOLEAN]
  /\ broken \subseteq {"redis", "ttl", "startup"}

\* Every variable stays within its type; in particular the counter stays within its
\* bounds whatever fails.
TypeOK == RedisOK /\ RequestOK

\* At most Max requests hold a slot, through Redis failures and crashes, as long as no
\* request outlives its slot and no instance starts while others serve.
LimitHolds == broken \subseteq {"redis"} => Cardinality(Holders) <= Max

\* As long as Redis answers, and no instance starts while others serve, the counter
\* never understates how many wait: at most MaxWait do, after a crash fewer.
QueueBounded ==
  broken \subseteq {"ttl"} => Cardinality(Waiters) <= wait /\ wait <= MaxWait

\* A slot that nobody will release, after a crash, a lost release or an ambiguous
\* acquisition, is freed again.
LeakedSlotsReturn ==
  \A id \in Ids : (id \in slots /\ id \notin {mine[p] : p \in Procs}) ~> id \notin slots
=============================================================================
