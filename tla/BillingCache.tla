---------------------------- MODULE BillingCache ----------------------------
(***************************************************************************)
(* What one user can still spend, kept in PostgreSQL and, for the check    *)
(* before each request, in Redis: the balance, or the usage left of a      *)
(* subscription (BillingCacheService, billingCache).  Requests look it up, *)
(* load it on a miss, and deduct what they cost; a bounded queue and its   *)
(* workers carry the writes to Redis; top-ups delete the entry; entries    *)
(* that nobody refreshes expire; a circuit breaker guards the database.    *)
(***************************************************************************)
EXTENDS Integers, Sequences, FiniteSets

CONSTANTS
  Calls,      \* concurrent requests of the user
  Workers,    \* cacheWriteWorkerCount
  QueueSize,  \* cacheWriteBufferSize
  Credit,     \* what the user can spend at the start; every request costs 1
  MaxTopUps,  \* bound on the number of top-ups
  Floor,      \* bound where Redis may fail: no charges this far below zero
  Threshold,  \* the breaker's failureThreshold
  Slots,      \* the breaker's halfOpenRequests
  Kinds,      \* the kinds of account to consider: "balance", "subscription"
  FaultSets,  \* the fault assumptions to consider, each a set of Faults
  Nil         \* no cached value, no task

\* "redis": calls to Redis may fail; "db": the database is down for a while;
\* "stop": the service is stopped.
Faults == {"redis", "db", "stop"}

Tasks == [op : {"set", "deduct"}, v : Int]

ASSUME BillingCacheAssumption ==
  /\ IsFiniteSet(Calls) /\ IsFiniteSet(Workers)
  /\ QueueSize \in Nat /\ Credit \in Nat /\ MaxTopUps \in Nat /\ Floor \in Nat
  /\ Threshold \in Nat \ {0} /\ Slots \in Nat \ {0}
  /\ Kinds \subseteq {"balance", "subscription"}
  /\ FaultSets \subseteq SUBSET Faults
  /\ Nil \notin Int \cup Tasks

VARIABLES
  kind, faults,  \* chosen once
  left,     \* what the database says the user can spend
  topUps,   \* top-ups so far, and those whose invalidation is still to come
  cached,   \* the entry in Redis, or Nil
  fresh,    \* the entry was written since the last tick of its TTL
  queue,    \* cacheWriteChan
  hand,     \* the task each worker has taken
  service,  \* "running", "stopping" (stopped is set), "closed" (the channel is), "stopped" (it is nil)
  at, task, \* what each request does next, and the cache write (and value) it is about
  owed,     \* deductions made in the database and not yet carried out in Redis
  breaker,  \* billingCircuitBreaker
  dbDown,   \* reads of the database may fail
  panicked  \* a request has sent on the closed channel

setup == <<kind, faults>>
store == <<left, topUps>>
entry == <<cached, fresh>>
pool  == <<queue, hand, service>>
flow  == <<at, task>>
guard == <<breaker, dbDown>>
cacheVars == <<setup, store, entry, pool, flow, owed, guard, panicked>>

Closed == [state |-> "closed", failures |-> 0, slots |-> 0]
Stages == {"idle", "lookup", "load", "wait", "failed", "serve", "offer", "send", "fallback"}

CacheInit ==
  /\ kind \in Kinds /\ faults \in FaultSets
  /\ left = Credit /\ topUps = [made |-> 0, pending |-> 0]
  /\ cached = Nil /\ fresh = FALSE
  /\ queue = <<>> /\ hand = [w \in Workers |-> Nil] /\ service = "running"
  /\ at = [p \in Calls |-> "idle"] /\ task = [p \in Calls |-> Nil]
  /\ owed = 0
  /\ breaker = Closed /\ dbDown = ("db" \in faults)
  /\ panicked = FALSE

-----------------------------------------------------------------------------
MoveTo(p, step) == at' = [at EXCEPT ![p] = step] /\ UNCHANGED <<task, setup>>

RedisMayFail == "redis" \in faults

\* OnFailure, and OnSuccess, of the circuit breaker.
OnFailure ==
  breaker' = CASE breaker.state = "open" -> breaker
               [] breaker.state = "halfOpen" -> [breaker EXCEPT !.state = "open", !.slots = 0]
               [] OTHER -> IF breaker.failures + 1 >= Threshold
                           THEN [state |-> "open", failures |-> breaker.failures + 1, slots |-> 0]
                           ELSE [breaker EXCEPT !.failures = @ + 1]
OnSuccess == breaker' = Closed

\* Allow: a closed breaker lets every request pass, one that has been open long enough
\* half-opens, and a half-open one lets as many pass as it has slots.
Allow(p) ==
  /\ at[p] = "idle"
  /\ \/ breaker.state = "closed" /\ UNCHANGED breaker
     \/ breaker.state = "open" /\ breaker' = [breaker EXCEPT !.state = "halfOpen", !.slots = Slots - 1]
     \/ breaker.state = "halfOpen" /\ breaker.slots > 0 /\ breaker' = [breaker EXCEPT !.slots = @ - 1]
  /\ MoveTo(p, "lookup")
  /\ UNCHANGED <<store, entry, pool, owed, dbDown, panicked>>

\* What the check says of a value.
Verdict(v) == IF v > 0 THEN "serve" ELSE "idle"

InFlight(p) == at[p] = "load" \/ (at[p] \in {"offer", "send"} /\ task[p].op = "set")

\* Mutant: a hit gives the entry a new TTL.
Lookup_Touches(p) ==
  /\ at[p] = "lookup"
  /\ \/ /\ cached # Nil
        /\ MoveTo(p, Verdict(cached))
        /\ OnSuccess
        /\ fresh' = TRUE
     \/ /\ cached = Nil \/ RedisMayFail
        /\ MoveTo(p, IF kind = "balance" /\ \E q \in Calls : InFlight(q) THEN "wait" ELSE "load")
        /\ UNCHANGED <<fresh, breaker>>
  /\ UNCHANGED <<store, cached, pool, owed, dbDown, panicked>>

\* GetUserBalance, GetSubscriptionStatus: a hit decides; on a miss (or an error) a request
\* for the balance joins a load that is in flight, one for a subscription makes its own.
Lookup(p) ==
  /\ at[p] = "lookup"
  /\ \/ /\ cached # Nil
        /\ MoveTo(p, Verdict(cached))
        /\ OnSuccess
     \/ /\ cached = Nil \/ RedisMayFail
        /\ MoveTo(p, IF kind = "balance" /\ \E q \in Calls : InFlight(q) THEN "wait" ELSE "load")
        /\ UNCHANGED breaker
  /\ UNCHANGED <<store, entry, pool, owed, dbDown, panicked>>

\* The read of the database; its failure is everybody's who waits for it.
Load(p) ==
  /\ at[p] = "load"
  /\ \/ /\ task' = [task EXCEPT ![p] = [op |-> "set", v |-> left]]
        /\ at' = [at EXCEPT ![p] = "offer"]
     \/ /\ dbDown
        /\ at' = [q \in Calls |-> IF q = p \/ at[q] = "wait" THEN "failed" ELSE at[q]]
        /\ UNCHANGED task
  /\ UNCHANGED <<setup, store, entry, pool, owed, guard, panicked>>

Fail(p) ==
  /\ at[p] = "failed"
  /\ OnFailure
  /\ MoveTo(p, "idle")
  /\ UNCHANGED <<store, entry, pool, owed, dbDown, panicked>>

\* Once the write is queued, or dropped, the value decides for all who wait for it.
Loaded(p) ==
  /\ at' = [q \in Calls |-> IF q = p \/ at[q] = "wait" THEN Verdict(task[p].v) ELSE at[q]]
  /\ task' = [task EXCEPT ![p] = Nil]
  /\ OnSuccess
  /\ UNCHANGED setup

\* The upstream call and the billing transaction; then QueueDeductBalance, or
\* QueueUpdateSubscriptionUsage.
Charge(p) ==
  /\ at[p] = "serve"
  /\ RedisMayFail => left > -Floor
  /\ left' = left - 1 /\ owed' = owed + 1
  /\ task' = [task EXCEPT ![p] = [op |-> "deduct", v |-> 1]]
  /\ at' = [at EXCEPT ![p] = "offer"]
  /\ UNCHANGED <<setup, topUps, entry, pool, guard, panicked>>

-----------------------------------------------------------------------------
\* The request is over.
Finish(p) ==
  /\ at' = [at EXCEPT ![p] = "idle"] /\ task' = [task EXCEPT ![p] = Nil]
  /\ UNCHANGED <<setup, breaker>>

\* Mutant: a deduction that does not fit into the queue is dropped like any other write.
Refused_Dropped(p) == IF task[p].op = "set" THEN Loaded(p) ELSE Finish(p)

\* enqueueCacheWrite returned false: a value to cache is dropped, a deduction made at once.
Refused(p) ==
  IF task[p].op = "set" THEN Loaded(p) ELSE MoveTo(p, "fallback") /\ UNCHANGED breaker

\* enqueueCacheWrite tests stopped before it takes the lock ...
Offer(p) ==
  /\ at[p] = "offer"
  /\ IF service = "running" THEN MoveTo(p, "send") /\ UNCHANGED breaker ELSE Refused(p)
  /\ UNCHANGED <<store, entry, pool, owed, dbDown, panicked>>

\* ... and under the lock only whether the channel is nil.  Sending on a closed channel
\* panics, and the write is lost with the request's goroutine.
Send(p) ==
  /\ at[p] = "send"
  /\ \/ /\ service \in {"running", "stopping"} /\ Len(queue) < QueueSize
        /\ queue' = Append(queue, task[p])
        /\ IF task[p].op = "set" THEN Loaded(p) ELSE Finish(p)
        /\ UNCHANGED panicked
     \/ /\ service = "stopped" \/ (service \in {"running", "stopping"} /\ Len(queue) = QueueSize)
        /\ Refused(p)
        /\ UNCHANGED <<queue, panicked>>
     \/ /\ service = "closed"
        /\ panicked' = TRUE
        /\ at' = [q \in Calls |-> IF q = p \/ (task[p].op = "set" /\ at[q] = "wait") THEN "idle" ELSE at[q]]
        /\ task' = [task EXCEPT ![p] = Nil]
        /\ UNCHANGED <<queue, setup, breaker>>
  /\ UNCHANGED <<store, entry, hand, service, owed, dbDown>>

\* What a write does in Redis: SET with a TTL, or a script that changes an existing entry
\* and gives it a new TTL.
Perform(t) ==
  \/ /\ cached' = IF t.op = "set" THEN t.v ELSE IF cached = Nil THEN Nil ELSE cached - t.v
     /\ fresh' = (cached' # Nil)
  \/ RedisMayFail /\ UNCHANGED entry

\* The synchronous call of a request whose deduction was refused.
Fallback(p) ==
  /\ at[p] = "fallback"
  /\ Perform(task[p])
  /\ owed' = owed - 1
  /\ Finish(p)
  /\ UNCHANGED <<store, pool, dbDown, panicked>>

\* cacheWriteWorker: a closed channel is drained first.
Take(w) ==
  /\ hand[w] = Nil /\ queue # <<>>
  /\ hand' = [hand EXCEPT ![w] = Head(queue)] /\ queue' = Tail(queue)
  /\ UNCHANGED <<setup, store, entry, service, flow, owed, guard, panicked>>

\* Mutant: the workers carry out the values to be cached only.
Write_OnlySets(w) ==
  /\ hand[w] # Nil
  /\ IF hand[w].op = "set" THEN Perform(hand[w]) ELSE UNCHANGED entry
  /\ owed' = IF hand[w].op = "deduct" THEN owed - 1 ELSE owed
  /\ hand' = [hand EXCEPT ![w] = Nil]
  /\ UNCHANGED <<setup, store, queue, service, flow, guard, panicked>>

Write(w) ==
  /\ hand[w] # Nil
  /\ Perform(hand[w])
  /\ owed' = IF hand[w].op = "deduct" THEN owed - 1 ELSE owed
  /\ hand' = [hand EXCEPT ![w] = Nil]
  /\ UNCHANGED <<setup, store, queue, service, flow, guard, panicked>>

-----------------------------------------------------------------------------
\* A redeemed code, a paid order, an extended subscription: the cache is told afterwards,
\* by a goroutine of its own.
TopUp ==
  /\ topUps.made < MaxTopUps
  /\ left' = left + 1
  /\ topUps' = [made |-> topUps.made + 1, pending |-> topUps.pending + 1]
  /\ UNCHANGED <<setup, entry, pool, flow, owed, guard, panicked>>

Invalidate ==
  /\ topUps.pending > 0
  /\ topUps' = [topUps EXCEPT !.pending = @ - 1]
  /\ (cached' = Nil /\ fresh' = FALSE) \/ (RedisMayFail /\ UNCHANGED entry)
  /\ UNCHANGED <<setup, left, pool, flow, owed, guard, panicked>>

\* The TTL passes without another write to the entry, and the entry expires.
Tick ==
  /\ fresh
  /\ fresh' = FALSE
  /\ UNCHANGED <<setup, store, cached, pool, flow, owed, guard, panicked>>

Expire ==
  /\ cached # Nil /\ ~fresh
  /\ cached' = Nil
  /\ UNCHANGED <<setup, store, fresh, pool, flow, owed, guard, panicked>>

DbRecovers ==
  /\ dbDown
  /\ dbDown' = FALSE
  /\ UNCHANGED <<setup, store, entry, pool, flow, owed, breaker, panicked>>

\* Stop: sets stopped, closes the channel, waits for the workers, and sets it to nil.
Stop ==
  /\ "stop" \in faults
  /\ service' = CASE service = "running"  -> "stopping"
                  [] service = "stopping" -> "closed"
                  [] OTHER                -> "stopped"
  /\ service # "stopped"
  /\ service = "closed" => queue = <<>> /\ \A w \in Workers : hand[w] = Nil
  /\ UNCHANGED <<setup, store, entry, queue, hand, flow, owed, guard, panicked>>

Proceed(p) == \/ Lookup(p) \/ Load(p) \/ Fail(p) \/ Charge(p)
               \/ Offer(p) \/ Send(p) \/ Fallback(p)

CacheNext == \/ \E p \in Calls : Allow(p) \/ Proceed(p)
        \/ \E w \in Workers : Take(w) \/ Write(w)
        \/ TopUp \/ Invalidate \/ Tick \/ Expire \/ DbRecovers \/ Stop

CacheSpec == CacheInit /\ [][CacheNext]_cacheVars

\* The client goes on asking, accepted requests run on, the workers work, TTLs pass and an
\* outage ends.
CacheFairSpec ==
  /\ CacheSpec
  /\ \A p \in Calls : WF_cacheVars(Allow(p)) /\ WF_cacheVars(Proceed(p))
  /\ \A w \in Workers : WF_cacheVars(Take(w)) /\ WF_cacheVars(Write(w))
  /\ WF_cacheVars(Invalidate) /\ WF_cacheVars(Tick) /\ WF_cacheVars(Expire) /\ WF_cacheVars(DbRecovers)

-----------------------------------------------------------------------------
\* Every variable stays within its type.
CacheTypeOK ==
  /\ kind \in Kinds /\ faults \in FaultSets
  /\ left \in Int /\ topUps \in [made : Nat, pending : Nat]
  /\ cached \in Int \cup {Nil} /\ fresh \in BOOLEAN
  /\ queue \in Seq(Tasks) /\ Len(queue) <= QueueSize
  /\ hand \in [Workers -> Tasks \cup {Nil}]
  /\ service \in {"running", "stopping", "closed", "stopped"}
  /\ at \in [Calls -> Stages] /\ task \in [Calls -> Tasks \cup {Nil}]
  /\ owed \in Nat
  /\ breaker \in [state : {"closed", "open", "halfOpen"}, failures : 0 .. Threshold, slots : 0 .. Slots]
  /\ dbDown \in BOOLEAN /\ panicked \in BOOLEAN

Deductions == [op |-> "deduct", v |-> 1]
DeductionsOnTheirWay ==
  Cardinality({i \in DOMAIN queue : queue[i] = Deductions})
    + Cardinality({w \in Workers : hand[w] = Deductions})
    + Cardinality({p \in Calls : task[p] = Deductions})

\* "Critical deductions are not dropped silently": until a sender panics every deduction
\* that Redis has not seen is still on its way, however full the queue is and while the
\* service is being stopped.  (With the types of all variables, the breaker's bounds among
\* them.)
NoDeductionDropped == CacheTypeOK /\ (panicked \/ owed = DeductionsOnTheirWay)

\* As long as Redis works a user overdraws by a bounded amount, although values are cached
\* that were read before deductions already carried out: each value on its way can be
\* spent once more, and while it is, as many deductions may be owed.
OnTheirWay == QueueSize + Cardinality(Workers) + Cardinality(Calls)
OverdraftBounded ==
  faults = {} =>
    left >= -(OnTheirWay * (Credit + MaxTopUps + OnTheirWay))

\* A user who can pay is served before long, whatever was cached, missed, counted twice or
\* refused in an outage: wrong entries expire once nobody is charged, and the breaker
\* closes again.
FundedUserIsServed ==
  left > 0 ~> (left <= 0 \/ \E p \in Calls : at[p] = "serve")
=============================================================================
