--------------------------- MODULE Admission_proofs ---------------------------
(***************************************************************************)
(* Proofs about the two gates in Redis that a request passes before it is  *)
(* forwarded.  ConcurrencySlots: every number of instances, requests and   *)
(* ids, every limit and queue size, and all Redis failures.  UserMsgQueue, *)
(* in the second half: every number of requests, all periods, and all      *)
(* faults.  The two share no variable.                                     *)
(***************************************************************************)
EXTENDS ConcurrencySlots, UserMsgQueue, FiniteSetTheorems, TLAPS

\* Which steps of a request hold a slot, and which may be counted.
Resources ==
  \A p \in Procs :
    /\ mine[p] # None => pc[p] \in {"uncount", "run"}
    /\ counted[p] => pc[p] \in {"try", "leave", "uncount"}

\* Nobody holds the slot of another request.
Distinct == \A p, q \in Procs : mine[p] # None /\ mine[p] = mine[q] => p = q

\* The sorted set never has more than Max live members.
Bounded == Cardinality(Live) <= Max

\* While only Redis has failed, a slot that is held is a live member of the set.
Registered == broken \subseteq {"redis"} => \A p \in Procs : mine[p] # None => mine[p] \in Live

\* While Redis has answered, the counter counts at least those who wait.
Counting == broken \subseteq {"ttl"} => Cardinality(Waiters) <= wait

\* LimitHolds is not inductive: holders are counted by the members of the sorted set
\* they registered, each its own.
IInv == TypeOK /\ Resources /\ Distinct /\ Bounded /\ Registered /\ Counting

LEMMA LiveFinite == ASSUME RedisOK PROVE IsFiniteSet(Live) /\ Live \subseteq Ids
<1>1. Live \in SUBSET Ids
  BY DEF RedisOK, Live
<1>. QED  BY <1>1, FS_Subset, ConcurrencySlotsAssumption

LEMMA WaitersFinite == IsFiniteSet(Waiters) /\ Cardinality(Waiters) \in Nat
<1>1. Waiters \in SUBSET Procs
  BY DEF Waiters
<1>. QED  BY <1>1, FS_Subset, FS_CardinalityType, ConcurrencySlotsAssumption

LEMMA InitHolds == Init => IInv
<1>. SUFFICES ASSUME Init PROVE IInv
  OBVIOUS
<1>. USE ConcurrencySlotsAssumption
<1>1. TypeOK
  BY DEF Init, TypeOK, RedisOK, RequestOK, Steps
<1>2. Live = {} /\ Waiters = {}
  BY DEF Init, Live, Waiters
<1>3. Bounded /\ Counting
  BY <1>2, FS_EmptySet DEF Init, Bounded, Counting
<1>4. Resources /\ Distinct /\ Registered
  BY DEF Init, Resources, Distinct, Registered
<1>. QED  BY <1>1, <1>3, <1>4 DEF IInv

\* Fewer live slots are as good as before.
LEMMA FewerLive ==
  ASSUME RedisOK, Bounded, Live' \subseteq Live
  PROVE  Bounded'
<1>1. IsFiniteSet(Live)
  BY LiveFinite
<1>2. Cardinality(Live') <= Cardinality(Live) /\ IsFiniteSet(Live')
  BY <1>1, FS_Subset
<1>3. Cardinality(Live) \in Nat /\ Cardinality(Live') \in Nat
  BY <1>1, <1>2, FS_CardinalityType
<1>. QED  BY <1>2, <1>3, ConcurrencySlotsAssumption DEF Bounded

LEMMA FewerWaiters ==
  ASSUME Waiters' \subseteq Waiters
  PROVE  Cardinality(Waiters') \in Nat /\ Cardinality(Waiters') <= Cardinality(Waiters)
<1>. QED  BY WaitersFinite, FS_Subset, FS_CardinalityType

\* Decrementing the counter keeps it at least as large as the number that wait.
LEMMA DecrementKeeps ==
  ASSUME TypeOK, Counting, NEW p \in Procs, DecrementWaitCount(p)
  PROVE  Counting' /\ wait' \in 0..MaxWait /\ broken' \subseteq {"redis", "ttl", "startup"}
         /\ broken \subseteq broken' /\ (broken' = broken \/ "redis" \in broken')
<1>. USE ConcurrencySlotsAssumption
<1>0. wait \in 0..MaxWait /\ counted \in [Procs -> BOOLEAN] /\ broken \subseteq {"redis", "ttl", "startup"}
  BY DEF TypeOK, RedisOK, RequestOK
<1>1. PICK r \in (IF counted[p] THEN Outcomes ELSE {"ok"}) :
        wait' = (IF counted[p] /\ r # "lost" /\ wait > 0 THEN wait - 1 ELSE wait) /\ Noting(r)
  BY DEF DecrementWaitCount
<1>2. wait' \in 0..MaxWait
  BY <1>0, <1>1
<1>3. broken \subseteq broken' /\ broken' \subseteq {"redis", "ttl", "startup"}
      /\ (broken' = broken \/ "redis" \in broken') /\ (r # "ok" => "redis" \in broken')
  BY <1>0, <1>1 DEF Noting
<1>4. Waiters' = Waiters \ {p}
  BY <1>0 DEF DecrementWaitCount, Waiters
<1>5. Cardinality(Waiters') = IF p \in Waiters THEN Cardinality(Waiters) - 1 ELSE Cardinality(Waiters)
  BY <1>4, WaitersFinite, FS_RemoveElement
<1>6. p \in Waiters <=> counted[p]
  BY DEF Waiters
<1>7. ASSUME broken' \subseteq {"ttl"} PROVE Cardinality(Waiters') <= wait'
  <2>1. r = "ok" /\ broken \subseteq {"ttl"}
    BY <1>3, <1>7
  <2>2. Cardinality(Waiters) <= wait /\ Cardinality(Waiters) \in Nat
    BY <2>1, WaitersFinite DEF Counting
  <2>3. CASE counted[p]
    BY <1>0, <1>1, <1>5, <1>6, <2>1, <2>2, <2>3
  <2>4. CASE ~counted[p]
    BY <1>0, <1>1, <1>5, <1>6, <2>1, <2>2, <2>4
  <2>. QED  BY <2>3, <2>4
<1>. QED  BY <1>2, <1>3, <1>7 DEF Counting

\* Whatever an attempt to acquire returns, its script adds a slot only if there is room.
LEMMA AcquireKeeps ==
  ASSUME IInv, NEW p \in Procs, AcquireSlot(p)
  PROVE  IInv'
<1>. USE ConcurrencySlotsAssumption
<1>0. TypeOK /\ RedisOK /\ RequestOK /\ Resources /\ Distinct /\ Bounded /\ Registered /\ Counting
  BY DEF IInv, TypeOK
<1>1. pc[p] \in {"first", "try"} /\ mine[p] = None
      /\ UNCHANGED <<kind, wait, up, home, counted>>
  BY <1>0 DEF AcquireSlot, Resources
<1>2. PICK r \in Outcomes : Noting(r)
        /\ \/ /\ r # "lost" /\ Cardinality(Live) < Max
              /\ \E id \in Ids \ (slots \cup {mine[q] : q \in Procs}) :
                   /\ slots' = Live \cup {id}
                   /\ IF r = "ok" THEN Got(p, id) ELSE Missed(p, r)
              /\ stale' = {}
           \/ /\ r # "lost" /\ Cardinality(Live) >= Max
              /\ slots' = Live /\ stale' = {}
              /\ Missed(p, r)
           \/ /\ r = "lost"
              /\ Missed(p, r)
              /\ UNCHANGED <<slots, stale>>
  BY DEF AcquireSlot
<1>3. broken \subseteq broken' /\ broken' \subseteq {"redis", "ttl", "startup"}
  BY <1>0, <1>2 DEF Noting, RequestOK
<1>4. Waiters' = Waiters
  BY <1>1 DEF Waiters
<1>5. Counting'
  BY <1>0, <1>1, <1>3, <1>4 DEF Counting
<1>6. Live \subseteq Ids /\ IsFiniteSet(Live) /\ Cardinality(Live) \in Nat
  BY <1>0, LiveFinite, FS_CardinalityType
<1>7. ASSUME Missed(p, r), slots' \subseteq Ids, stale' \subseteq slots', Bounded', Live \subseteq Live'
      PROVE IInv'
  <2>1. mine' = mine /\ pc' \in [Procs -> Steps] /\ pc'[p] \in {"count", "try", "leave"}
        /\ (counted[p] => pc'[p] \in {"try", "leave"}) /\ \A q \in Procs \ {p} : pc'[q] = pc[q]
    BY <1>0, <1>1, <1>7 DEF Missed, Goto, RequestOK, Steps, Resources
  <2>2. TypeOK'
    BY <1>0, <1>1, <1>3, <1>7, <2>1 DEF TypeOK, RedisOK, RequestOK
  <2>3. Resources' /\ Distinct' /\ Registered'
    BY <1>0, <1>1, <1>3, <1>7, <2>1 DEF Resources, Distinct, Registered
  <2>. QED  BY <1>5, <1>7, <2>2, <2>3 DEF IInv
<1>8. CASE r # "lost" /\ Cardinality(Live) < Max
           /\ \E id \in Ids \ (slots \cup {mine[q] : q \in Procs}) :
                 slots' = Live \cup {id} /\ (IF r = "ok" THEN Got(p, id) ELSE Missed(p, r))
           /\ stale' = {}
  <2>1. PICK id \in Ids \ (slots \cup {mine[q] : q \in Procs}) :
          slots' = Live \cup {id} /\ (IF r = "ok" THEN Got(p, id) ELSE Missed(p, r))
    BY <1>8
  <2>2. Live' = Live \cup {id} /\ slots' \subseteq Ids /\ stale' \subseteq slots'
    BY <1>6, <1>8, <2>1 DEF Live
  <2>3. Bounded'
    <3>1. Cardinality(Live \cup {id}) = IF id \in Live THEN Cardinality(Live) ELSE Cardinality(Live) + 1
      BY <1>6, FS_AddElement
    <3>2. Cardinality(Live') = Cardinality(Live) + 1
      BY <2>1, <2>2, <3>1 DEF Live
    <3>. QED  BY <1>6, <1>8, <3>2 DEF Bounded
  <2>4. CASE r = "ok"
    <3>1. Got(p, id)
      BY <2>1, <2>4
    <3>2. mine' = [mine EXCEPT ![p] = id] /\ pc' \in [Procs -> Steps]
          /\ pc'[p] \in {"uncount", "run"} /\ (counted[p] => pc'[p] = "uncount")
          /\ \A q \in Procs \ {p} : pc'[q] = pc[q]
      BY <1>0, <3>1 DEF Got, Goto, RequestOK, Steps
    <3>3. TypeOK'
      BY <1>0, <1>1, <1>3, <2>2, <3>2 DEF TypeOK, RedisOK, RequestOK
    <3>4. Resources' /\ Distinct' /\ Registered'
      BY <1>0, <1>1, <1>3, <2>1, <2>2, <3>2 DEF Resources, Distinct, Registered, RequestOK
    <3>. QED  BY <1>5, <2>3, <3>3, <3>4 DEF IInv
  <2>5. CASE r # "ok"
    BY <1>7, <2>1, <2>2, <2>3, <2>5
  <2>. QED  BY <2>4, <2>5
<1>9. CASE r # "lost" /\ slots' = Live /\ stale' = {} /\ Missed(p, r)
  <2>1. Live' = Live /\ Bounded'
    BY <1>0, <1>9 DEF Live, Bounded
  <2>. QED  BY <1>6, <1>7, <1>9, <2>1
<1>10. CASE Missed(p, r) /\ UNCHANGED <<slots, stale>>
  <2>1. Live' = Live /\ Bounded'
    BY <1>0, <1>10 DEF Live, Bounded
  <2>. QED  BY <1>0, <1>7, <1>10, <2>1 DEF RedisOK
<1>. QED  BY <1>2, <1>8, <1>9, <1>10

\* Every step preserves the invariant: one step per action.
LEMMA Inductive == IInv /\ [Next]_vars => IInv'
<1>. SUFFICES ASSUME IInv, [Next]_vars PROVE IInv'
  OBVIOUS
<1>. USE ConcurrencySlotsAssumption
<1>0. TypeOK /\ RedisOK /\ RequestOK /\ Resources /\ Distinct /\ Bounded /\ Registered /\ Counting
  BY DEF IInv, TypeOK
<1>1. ASSUME NEW p \in Procs, Begin(p) PROVE IInv'
  <2>1. TypeOK' /\ Resources' /\ Distinct' /\ Registered'
    BY <1>0, <1>1 DEF Begin, Goto, TypeOK, RedisOK, RequestOK, Steps, Resources, Distinct, Registered, redis, Live
  <2>2. Bounded' /\ Counting'
    BY <1>0, <1>1 DEF Begin, Bounded, Counting, redis, Live, Waiters
  <2>. QED  BY <2>1, <2>2 DEF IInv
<1>2. ASSUME NEW p \in Procs, IncrementWaitCount(p) PROVE IInv'
  <2>1. PICK r \in Outcomes :
          /\ wait' = IF r # "lost" /\ wait < MaxWait THEN wait + 1 ELSE wait
          /\ IF r = "ok" /\ wait >= MaxWait
             THEN Finish(p) /\ UNCHANGED counted
             ELSE Goto(p, "try") /\ counted' = [counted EXCEPT ![p] = TRUE] /\ UNCHANGED home
          /\ Noting(r)
    BY <1>2 DEF IncrementWaitCount
  <2>2. pc[p] = "count" /\ UNCHANGED <<kind, slots, stale, up, mine>>
    BY <1>2 DEF IncrementWaitCount
  <2>3. mine[p] = None /\ ~counted[p]
    BY <1>0, <2>2 DEF Resources, RequestOK
  <2>a. wait' \in 0..MaxWait /\ broken \subseteq broken' /\ broken' \subseteq {"redis", "ttl", "startup"}
    BY <1>0, <2>1 DEF RedisOK, RequestOK, Noting
  <2>b. \/ pc' = [pc EXCEPT ![p] = "idle"] /\ home' = [home EXCEPT ![p] = None] /\ counted' = counted
        \/ pc' = [pc EXCEPT ![p] = "try"] /\ home' = home /\ counted' = [counted EXCEPT ![p] = TRUE]
    BY <2>1 DEF Finish, Goto
  <2>4. TypeOK' /\ Resources' /\ Distinct'
    <3>1. TypeOK'
      BY <1>0, <2>2, <2>a, <2>b DEF TypeOK, RedisOK, RequestOK, Steps
    <3>2. Resources' /\ Distinct'
      BY <1>0, <2>2, <2>3, <2>b DEF RequestOK, Resources, Distinct
    <3>. QED  BY <3>1, <3>2
  <2>5. Bounded' /\ Registered'
    BY <1>0, <2>1, <2>2 DEF Bounded, Registered, Live, Noting
  <2>6. ASSUME broken' \subseteq {"ttl"} PROVE Cardinality(Waiters') <= wait'
    <3>1. r = "ok" /\ broken \subseteq {"ttl"}
      BY <2>1, <2>6 DEF Noting
    <3>2. Cardinality(Waiters) <= wait /\ Cardinality(Waiters) \in Nat /\ wait \in Nat
      BY <1>0, <3>1, WaitersFinite DEF Counting, RedisOK
    <3>3. CASE wait >= MaxWait
      <4>1. Waiters' = Waiters /\ wait' = wait
        BY <1>0, <2>1, <3>1, <3>2, <3>3 DEF Waiters
      <4>. QED  BY <3>2, <4>1
    <3>4. CASE ~(wait >= MaxWait)
      <4>1. counted' = [counted EXCEPT ![p] = TRUE]
        BY <2>1, <3>4
      <4>2. wait' = wait + 1
        BY <2>1, <3>1, <3>2, <3>4
      <4>3. Waiters' = Waiters \cup {p}
        BY <1>0, <4>1 DEF Waiters, RequestOK
      <4>4. Cardinality(Waiters') <= Cardinality(Waiters) + 1
        <5>1. Cardinality(Waiters \cup {p})
                = IF p \in Waiters THEN Cardinality(Waiters) ELSE Cardinality(Waiters) + 1
          BY WaitersFinite, FS_AddElement
        <5>. QED  BY <3>2, <4>3, <5>1
      <4>5. Cardinality(Waiters') \in Nat
        BY <4>3, WaitersFinite, FS_AddElement, FS_CardinalityType
      <4>. QED  BY <3>2, <4>2, <4>4, <4>5
    <3>. QED  BY <3>3, <3>4
  <2>. QED  BY <2>4, <2>5, <2>6 DEF IInv, Counting
<1>3. ASSUME NEW p \in Procs, AcquireSlot(p) PROVE IInv'
  BY <1>3, AcquireKeeps
<1>4. ASSUME NEW p \in Procs, GiveUp(p) PROVE IInv'
  <2>1. TypeOK' /\ Resources' /\ Distinct' /\ Registered'
    BY <1>0, <1>4 DEF GiveUp, Goto, TypeOK, RedisOK, RequestOK, Steps, Resources, Distinct, Registered, redis, Live
  <2>2. Bounded' /\ Counting'
    BY <1>0, <1>4 DEF GiveUp, Bounded, Counting, redis, Live, Waiters
  <2>. QED  BY <2>1, <2>2 DEF IInv
<1>5. ASSUME NEW p \in Procs, Leave(p) \/ Uncount(p) PROVE IInv'
  <2>1. DecrementWaitCount(p) /\ UNCHANGED <<kind, slots, stale, up, mine>>
    BY <1>5 DEF Leave, Uncount
  <2>2. Counting' /\ wait' \in 0..MaxWait /\ broken' \subseteq {"redis", "ttl", "startup"}
        /\ broken \subseteq broken'
    BY <1>0, <2>1, DecrementKeeps
  <2>3. counted' = [counted EXCEPT ![p] = FALSE]
    BY <2>1 DEF DecrementWaitCount
  <2>4. \/ pc[p] = "leave" /\ pc' = [pc EXCEPT ![p] = "idle"] /\ home' = [home EXCEPT ![p] = None]
        \/ pc[p] = "uncount" /\ pc' = [pc EXCEPT ![p] = "run"] /\ home' = home
    BY <1>5 DEF Leave, Uncount, Finish, Goto
  <2>5. TypeOK'
    BY <1>0, <2>1, <2>2, <2>3, <2>4 DEF TypeOK, RedisOK, RequestOK, Steps
  <2>6. Resources' /\ Distinct' /\ Registered' /\ Bounded'
    BY <1>0, <2>1, <2>2, <2>3, <2>4 DEF Resources, Distinct, Registered, Bounded, Live, RequestOK
  <2>. QED  BY <2>2, <2>5, <2>6 DEF IInv
<1>6. ASSUME NEW p \in Procs, Release(p) PROVE IInv'
  <2>1. PICK r \in Outcomes :
          /\ IF r = "lost" THEN UNCHANGED <<slots, stale>>
                           ELSE slots' = slots \ {mine[p]} /\ stale' = stale \ {mine[p]}
          /\ Noting(r)
    BY <1>6 DEF Release
  <2>2. /\ mine' = [mine EXCEPT ![p] = None] /\ pc' = [pc EXCEPT ![p] = "idle"]
        /\ home' = [home EXCEPT ![p] = None] /\ UNCHANGED <<kind, wait, up, counted>> /\ pc[p] = "run"
    BY <1>6 DEF Release, Finish, Goto
  <2>3. broken \subseteq broken' /\ broken' \subseteq {"redis", "ttl", "startup"}
    BY <1>0, <2>1 DEF Noting, RequestOK
  <2>4. Live' \subseteq Live /\ Live \ {mine[p]} \subseteq Live'
    BY <2>1 DEF Live
  <2>5. TypeOK'
    BY <1>0, <2>1, <2>2, <2>3 DEF TypeOK, RedisOK, RequestOK, Steps
  <2>6. Resources' /\ Distinct'
    BY <1>0, <2>2 DEF Resources, Distinct, RequestOK
  <2>7. Registered'
    BY <1>0, <2>2, <2>3, <2>4 DEF Registered, Distinct, RequestOK
  <2>8. Bounded'
    BY <1>0, <2>4, FewerLive
  <2>9. Counting'
    BY <1>0, <2>2, <2>3 DEF Counting, Waiters
  <2>. QED  BY <2>5, <2>6, <2>7, <2>8, <2>9 DEF IInv
<1>7. ASSUME NEW id \in Ids, Expire(id) PROVE IInv'
  <2>1. Live' = Live \ {id} /\ broken \subseteq broken' /\ UNCHANGED <<kind, slots, wait, up, request>>
        /\ stale' = stale \cup {id} /\ id \in slots
    BY <1>7 DEF Expire, Live
  <2>2. broken' \subseteq {"redis", "ttl", "startup"}
        /\ ("ttl" \notin broken' => \A p \in Procs : mine[p] # id)
    BY <1>0, <1>7 DEF Expire, RequestOK
  <2>3. TypeOK'
    BY <1>0, <2>1, <2>2 DEF TypeOK, RedisOK, RequestOK, request
  <2>4. Resources' /\ Distinct' /\ Registered'
    BY <1>0, <2>1, <2>2 DEF Resources, Distinct, Registered, request
  <2>5. Bounded'
    BY <1>0, <2>1, FewerLive
  <2>6. Counting'
    BY <1>0, <2>1, <2>2 DEF Counting, Waiters, request
  <2>. QED  BY <2>3, <2>4, <2>5, <2>6 DEF IInv
<1>8. CASE PurgeExpired
  <2>1. Live' = Live /\ slots' = Live /\ stale' = {} /\ UNCHANGED <<kind, wait, up, request, broken>>
    BY <1>8 DEF PurgeExpired, Live
  <2>2. TypeOK'
    BY <1>0, <2>1 DEF TypeOK, RedisOK, RequestOK, request, Live
  <2>3. Resources' /\ Distinct' /\ Registered' /\ Bounded' /\ Counting'
    BY <1>0, <2>1 DEF Resources, Distinct, Registered, Bounded, Counting, Waiters, request
  <2>. QED  BY <2>2, <2>3 DEF IInv
<1>9. CASE WaitCountExpires
  <2>1. wait' = 0 /\ Waiters = {} /\ UNCHANGED <<kind, slots, stale, up, request, broken>>
    BY <1>9 DEF WaitCountExpires
  <2>2. Waiters' = {}
    BY <2>1 DEF Waiters, request
  <2>3. Counting'
    BY <2>1, <2>2, FS_EmptySet DEF Counting
  <2>4. TypeOK' /\ Resources' /\ Distinct' /\ Registered' /\ Bounded'
    BY <1>0, <2>1 DEF TypeOK, RedisOK, RequestOK, Resources, Distinct, Registered, Bounded, Live, request
  <2>. QED  BY <2>3, <2>4 DEF IInv
<1>10. ASSUME NEW i \in Instances, Crash(i) PROVE IInv'
  <2>1. /\ up' = [up EXCEPT ![i] = "down"] /\ UNCHANGED <<kind, redis, broken>>
        /\ home' \in [Procs -> Instances \cup {None}] /\ pc' \in [Procs -> Steps]
        /\ mine' \in [Procs -> Ids \cup {None}] /\ counted' \in [Procs -> BOOLEAN]
    BY <1>0, <1>10 DEF Crash, RequestOK, Steps
  <2>2. \A p \in Procs : \/ mine'[p] = None /\ ~counted'[p]
                         \/ mine'[p] = mine[p] /\ counted'[p] = counted[p] /\ pc'[p] = pc[p]
    BY <1>0, <1>10 DEF Crash
  <2>3. TypeOK'
    BY <1>0, <2>1 DEF TypeOK, RedisOK, RequestOK, redis
  <2>4. Resources' /\ Distinct' /\ Registered' /\ Bounded'
    BY <1>0, <2>1, <2>2 DEF Resources, Distinct, Registered, Bounded, Live, redis
  <2>5. Waiters' \subseteq Waiters
    BY <1>0, <2>2 DEF Waiters
  <2>6. Cardinality(Waiters') \in Nat /\ Cardinality(Waiters') <= Cardinality(Waiters)
    BY <2>5, FewerWaiters
  <2>7. Cardinality(Waiters) \in Nat /\ wait' = wait /\ wait \in Nat /\ broken' = broken
    BY <1>0, <2>1, WaitersFinite DEF redis, RedisOK
  <2>8. Counting'
    BY <1>0, <2>6, <2>7 DEF Counting
  <2>. QED  BY <2>3, <2>4, <2>8 DEF IInv
<1>11. ASSUME NEW i \in Instances, CleanSlots(i) PROVE IInv'
  <2>1. /\ Live' \subseteq Live /\ RedisOK' /\ up' \in [Instances -> {"down", "waits", "up"}]
        /\ UNCHANGED <<kind, wait, request>> /\ broken \subseteq broken'
        /\ broken' \subseteq {"redis", "ttl", "startup"}
        /\ ("startup" \notin broken' => \A p \in Procs : pc[p] = "idle")
    BY <1>0, <1>11 DEF CleanSlots, RedisOK, RequestOK, Live
  <2>2. TypeOK'
    BY <1>0, <2>1 DEF TypeOK, RequestOK, request
  <2>3. Resources' /\ Distinct' /\ Registered'
    BY <1>0, <2>1 DEF Resources, Distinct, Registered, request
  <2>4. Bounded'
    BY <1>0, <2>1, FewerLive
  <2>5. Counting'
    BY <1>0, <2>1 DEF Counting, Waiters, request
  <2>. QED  BY <2>2, <2>3, <2>4, <2>5 DEF IInv
<1>12. ASSUME NEW i \in Instances, CleanWaits(i) PROVE IInv'
  <2>1. /\ wait' \in 0..MaxWait /\ up' \in [Instances -> {"down", "waits", "up"}]
        /\ UNCHANGED <<kind, slots, stale, request>> /\ broken \subseteq broken'
        /\ broken' \subseteq {"redis", "ttl", "startup"}
        /\ ("startup" \notin broken' => \A p \in Procs : pc[p] = "idle")
    BY <1>0, <1>12 DEF CleanWaits, RedisOK, RequestOK
  <2>2. TypeOK'
    BY <1>0, <2>1 DEF TypeOK, RedisOK, RequestOK, request
  <2>3. Resources' /\ Distinct' /\ Registered' /\ Bounded'
    BY <1>0, <2>1 DEF Resources, Distinct, Registered, Bounded, Live, request
  <2>4. ASSUME broken' \subseteq {"ttl"} PROVE Cardinality(Waiters') <= wait'
    <3>1. Waiters' = {}
      BY <1>0, <2>1, <2>4 DEF Waiters, Resources, request
    <3>. QED  BY <2>1, <3>1, FS_EmptySet
  <2>. QED  BY <2>2, <2>3, <2>4 DEF IInv, Counting
<1>13. CASE UNCHANGED vars
  BY <1>0, <1>13 DEF vars, redis, request, IInv, TypeOK, RedisOK, RequestOK, Resources, Distinct, Bounded,
     Registered, Counting, Live, Waiters
<1>. QED
  BY <1>1, <1>2, <1>3, <1>4, <1>5, <1>6, <1>7, <1>8, <1>9, <1>10, <1>11, <1>12, <1>13 DEF Next, Continue

LEMMA InvariantHolds == Spec => []IInv
<1>. QED  BY InitHolds, Inductive, PTL DEF Spec

\* Every variable keeps its type, and the wait counter its bounds, for any number of
\* instances and requests and whatever Redis call fails (incrementWaitScript,
\* decrementWaitScript, cleanup).
THEOREM TypeCorrect == Spec => []TypeOK
<1>1. IInv => TypeOK
  BY DEF IInv
<1>. QED  BY <1>1, InvariantHolds, PTL

\* Holders are as many as the live slots they have registered, each its own.
LEMMA HoldersBounded == IInv => LimitHolds
<1>. SUFFICES ASSUME IInv, broken \subseteq {"redis"} PROVE Cardinality(Holders) <= Max
  BY DEF LimitHolds
<1>. USE ConcurrencySlotsAssumption
<1>0. RedisOK /\ RequestOK /\ Distinct /\ Bounded /\ Registered
  BY DEF IInv, TypeOK
<1>. DEFINE slot == [p \in Holders |-> mine[p]]
<1>1. slot \in Injection(Holders, Live)
  BY <1>0 DEF Holders, Registered, Distinct, Injection, IsInjective
<1>2. IsFiniteSet(Live) /\ Cardinality(Live) \in Nat
  BY <1>0, LiveFinite, FS_CardinalityType
<1>3. IsFiniteSet(Holders) /\ Cardinality(Holders) <= Cardinality(Live)
  BY <1>1, <1>2, FS_Injection
<1>4. Cardinality(Holders) \in Nat
  BY <1>3, FS_CardinalityType
<1>. QED  BY <1>0, <1>2, <1>3, <1>4 DEF Bounded

\* At most Max requests hold a slot, for every limit, under Redis failures and crashes,
\* while slots outlive their requests and no instance starts next to one that serves
\* (acquireScript, ReleaseFunc, wrapReleaseOnDone).
THEOREM ConcurrencyIsLimited == Spec => []LimitHolds
<1>. QED  BY HoldersBounded, InvariantHolds, PTL

\* While Redis answers the wait counter never understates how many wait, so that at
\* most MaxWait do (IncrementWaitCount, the deferred DecrementWaitCount).
THEOREM QueueIsBounded == Spec => []QueueBounded
<1>1. IInv => QueueBounded
  BY DEF IInv, Counting, QueueBounded, TypeOK, RedisOK
<1>. QED  BY <1>1, InvariantHolds, PTL

----------------------------------------------------------------------------
(* The queue of user messages.                                             *)

\* What a request was granted is no more than what is left of its lock.  Only a request
\* that has had an answer is granted one.
Granted ==
  \A r \in Requests :
    /\ rq[r].pc \in {"idle", "try"} => rq[r].lease = 0
    /\ rq[r].lease > 0 => lock.owner = r /\ ~lock.lasting /\ rq[r].lease <= lock.left

\* The time kept in Redis is that of the last message that had the lock, or a later one
\* (that of a request which gave the lock back without sending).
Remembered == quiet = MaxDelay \/ age <= quiet

\* A request that has read the time of the last message, and still has the lock, knows no
\* longer a pause than there was, and waits for the rest of it.
Waited ==
  \A r \in Requests :
    rq[r].lease > 0 =>
      /\ rq[r].pc = "now" => rq[r].last <= quiet
      /\ rq[r].pc = "delay" => MinDelay <= quiet + rq[r].wait

\* LockKept is inductive only with the time a lease leaves to its lock.
UMQInv == UMQTypeOK /\ Granted /\ Remembered /\ Waited

Records ==
  [pc : {"idle", "try", "last", "now", "delay", "undo", "send", "release"},
   lease : 0..TTL, known : BOOLEAN, failed : BOOLEAN,
   tries : 0..Retries, last : 0..MaxDelay, wait : 0..MaxDelay]

Locks == [owner : Requests \cup {Free, Ghost}, left : 0..TTL, lasting : BOOLEAN]

LEMMA Bounds ==
  /\ TTL \in Nat /\ Retries \in Nat /\ MaxDelay \in Nat
  /\ 0 \in 0..TTL /\ TTL \in 0..TTL /\ 0 \in 0..Retries /\ 0 \in 0..MaxDelay
  /\ MaxDelay \in 0..MaxDelay /\ LastTTL \in 0..LastTTL
BY UserMsgQueueAssumption

LEMMA UMQInitHolds == UMQInit => UMQInv
<1>. SUFFICES ASSUME UMQInit PROVE UMQInv
  OBVIOUS
<1>. USE UserMsgQueueAssumption
<1>1. UMQTypeOK
  <2>1. lock = NoLock /\ NoLock \in Locks /\ Idle \in Records
    BY Bounds DEF UMQInit, NoLock, Locks, Idle, Records
  <2>2. rq \in [Requests -> Records]
    BY <2>1 DEF UMQInit
  <2>3. NoLock.owner = Free
    BY DEF NoLock
  <2>4. /\ age \in 0..LastTTL /\ quiet \in 0..MaxDelay /\ orphan \in BOOLEAN
        /\ faults \in FaultSets
    BY Bounds DEF UMQInit
  <2>. QED  BY <2>1, <2>2, <2>3, <2>4 DEF UMQTypeOK, Locks, Records
<1>2. Granted /\ Remembered /\ Waited
  BY DEF UMQInit, Granted, Remembered, Waited, Idle
<1>. QED  BY <1>1, <1>2 DEF UMQInv

\* A lock that is forgotten is one still, and nobody else's.
LEMMA ForgottenLock ==
  ASSUME UMQTypeOK, NEW r \in Requests, lock' = Forgotten(r)
  PROVE  /\ lock' \in Locks
         /\ lock'.owner = Free => lock' = NoLock
         /\ lock'.owner # Free => lock'.lasting \/ lock'.left > 0
         /\ lock'.lasting = lock.lasting /\ lock'.left = lock.left
         /\ \A s \in Requests \ {r} : lock.owner = s => lock'.owner = s
<1>. USE OwnersAreDistinct DEF UMQTypeOK, Locks
<1>1. CASE lock.owner = r
  BY <1>1 DEF Forgotten, Free, Ghost, NoLock
<1>2. CASE lock.owner # r
  BY <1>2 DEF Forgotten
<1>. QED  BY <1>1, <1>2

\* A step of request r changes the record of r only.
LEMMA OneRecord ==
  ASSUME UMQTypeOK, NEW r \in Requests, NEW v \in Records, Set(r, v)
  PROVE  /\ rq' \in [Requests -> Records]
         /\ rq'[r] = v
         /\ \A s \in Requests \ {r} : rq'[s] = rq[s]
BY DEF Set, UMQTypeOK, Records

\* UMQInv from what a step of request r leaves of the others: their lock, and what is known
\* of the last message.
LEMMA Elsewhere ==
  ASSUME UMQInv, UMQTypeOK', Remembered', NEW r \in Requests,
         \A s \in Requests \ {r} : rq'[s] = rq[s],
         \A s \in Requests \ {r} :
           rq[s].lease > 0 => lock'.owner = s /\ lock'.lasting = lock.lasting
                              /\ lock'.left = lock.left /\ quiet' = quiet,
         rq'[r].pc \in {"idle", "try"} => rq'[r].lease = 0,
         rq'[r].lease > 0 =>
           /\ lock'.owner = r /\ ~lock'.lasting /\ rq'[r].lease <= lock'.left
           /\ rq'[r].pc = "now" => rq'[r].last <= quiet'
           /\ rq'[r].pc = "delay" => MinDelay <= quiet' + rq'[r].wait
  PROVE  UMQInv'
<1>1. Granted'
  BY DEF UMQInv, Granted
<1>2. Waited'
  BY DEF UMQInv, Waited
<1>. QED  BY <1>1, <1>2 DEF UMQInv

\* Every step of a request keeps UMQInv.
LEMMA RequestStep ==
  ASSUME UMQInv, NEW r \in Requests,
         \/ Arrive(r) \/ Acquire(r) \/ AcquireLost(r) \/ AcquireFails(r) \/ WaitTimeout(r)
         \/ ReadLast(r) \/ ReadNow(r) \/ ReadFails(r) \/ Wake(r) \/ Interrupted(r)
         \/ Sent(r) \/ ReleaseLock(r) \/ ReleaseFails(r) \/ Stop(r)
  PROVE  UMQInv'
<1>. USE UserMsgQueueAssumption, OwnersAreDistinct
<1>0. UMQTypeOK /\ Granted /\ Remembered /\ Waited /\ rq[r] \in Records
  BY DEF UMQInv, UMQTypeOK, Records
<1>1. CASE \/ Arrive(r) \/ WaitTimeout(r) \/ ReadLast(r) \/ ReadNow(r) \/ ReadFails(r)
           \/ Wake(r) \/ Interrupted(r) \/ Sent(r)
  <2>1. UNCHANGED <<faults, lock, age, orphan, quiet>>
    BY <1>1 DEF Arrive, WaitTimeout, ReadLast, ReadNow, ReadFails, Wake, Interrupted, Sent
  <2>2. PICK v \in Records :
          /\ Set(r, v) /\ v.lease = rq[r].lease
          /\ v.pc # "idle"
          /\ v.pc = "try" => v.lease = 0
          /\ v.pc = "now" => v.last <= age /\ age < LastTTL
          /\ v.pc = "delay" => rq[r].pc = "now" /\ MinDelay <= rq[r].last + v.wait
    <3>. DEFINE v(q) == [rq[r] EXCEPT !.pc = q]
    <3>1. \A q \in {"try", "send", "undo", "release"} : v(q) \in Records /\ v(q).lease = rq[r].lease /\ v(q).pc = q
      BY <1>0 DEF Records
    <3>2. CASE Arrive(r)
      BY <3>1, <3>2, <1>0 DEF Arrive, GoOn, Granted
    <3>3. CASE WaitTimeout(r) \/ Wake(r) \/ Interrupted(r) \/ Sent(r)
      BY <3>1, <3>3 DEF WaitTimeout, Wake, Interrupted, Sent, GoOn
    <3>4. CASE ReadFails(r)
      <4>1. [rq[r] EXCEPT !.pc = "send", !.failed = TRUE] \in Records
        BY <1>0 DEF Records
      <4>. QED  BY <1>0, <3>4, <4>1 DEF ReadFails, Unanswered, Records
    <3>5. CASE ReadLast(r) /\ age = LastTTL
      BY <3>1, <3>5 DEF ReadLast, GoOn
    <3>6. CASE ReadLast(r) /\ age # LastTTL
      <4>. DEFINE l == IF age < MaxDelay THEN age ELSE MaxDelay
      <4>1. age \in 0..LastTTL /\ l \in 0..MaxDelay /\ l <= age /\ age < LastTTL
        BY <1>0, <3>6 DEF UMQTypeOK
      <4>2. Set(r, [rq[r] EXCEPT !.pc = "now", !.last = l])
        BY <3>6 DEF ReadLast
      <4>. HIDE DEF l
      <4>3. [rq[r] EXCEPT !.pc = "now", !.last = l] \in Records
        BY <1>0, <4>1 DEF Records
      <4>. QED  BY <1>0, <4>1, <4>2, <4>3 DEF Records
    <3>7. CASE ReadNow(r)
      <4>1. PICK d \in MinDelay..MaxDelay :
              IF rq[r].last >= d THEN GoOn(r, "send")
              ELSE Set(r, [rq[r] EXCEPT !.pc = "delay", !.wait = d - rq[r].last])
        BY <3>7 DEF ReadNow
      <4>2. CASE rq[r].last >= d
        BY <3>1, <4>1, <4>2 DEF GoOn
      <4>3. CASE ~(rq[r].last >= d)
        <5>1. d - rq[r].last \in 0..MaxDelay /\ MinDelay <= rq[r].last + (d - rq[r].last)
          BY <1>0, <4>3 DEF Records
        <5>2. [rq[r] EXCEPT !.pc = "delay", !.wait = d - rq[r].last] \in Records
          BY <1>0, <5>1 DEF Records
        <5>. QED  BY <1>0, <3>7, <4>1, <4>3, <5>1, <5>2 DEF Records, ReadNow
      <4>. QED  BY <4>2, <4>3
    <3>. QED  BY <1>1, <3>2, <3>3, <3>4, <3>5, <3>6, <3>7
  <2>3. rq' \in [Requests -> Records] /\ rq'[r] = v /\ \A s \in Requests \ {r} : rq'[s] = rq[s]
    BY <1>0, <2>2, OneRecord
  <2>4. UMQTypeOK' /\ Remembered'
    BY <1>0, <2>1, <2>3 DEF UMQTypeOK, Remembered, NoLock, Records
  <2>5. ASSUME rq[r].lease > 0, v.pc = "now" PROVE v.last <= quiet
    <3>1. quiet \in 0..MaxDelay /\ age \in 0..LastTTL /\ v.last \in 0..MaxDelay
      BY <1>0, <2>2 DEF UMQTypeOK, Records
    <3>. QED  BY <3>1, <2>5, <1>0, <2>2 DEF Remembered
  <2>6. ASSUME rq[r].lease > 0, v.pc = "delay" PROVE MinDelay <= quiet + v.wait
    <3>1. rq[r].last <= quiet
      BY <1>0, <2>2, <2>6 DEF Waited
    <3>2. quiet \in Nat /\ rq[r].last \in Nat /\ v.wait \in Nat
      BY <1>0, <2>2 DEF UMQTypeOK, Records
    <3>. QED  BY <3>1, <3>2, <2>2, <2>6
  <2>7. rq'[r].lease > 0 =>
          /\ lock'.owner = r /\ ~lock'.lasting /\ rq'[r].lease <= lock'.left
          /\ rq'[r].pc = "now" => rq'[r].last <= quiet'
          /\ rq'[r].pc = "delay" => MinDelay <= quiet' + rq'[r].wait
    BY <1>0, <2>1, <2>2, <2>3, <2>5, <2>6 DEF Granted
  <2>. QED  BY <1>0, <2>1, <2>2, <2>3, <2>4, <2>7, Elsewhere DEF Granted
<1>2. CASE Acquire(r) \/ AcquireLost(r)
  <2>1. lock' = Locked(r) /\ Grantable(r) /\ UNCHANGED <<faults, age, orphan, quiet>>
    BY <1>2 DEF Acquire, AcquireLost
  <2>2. PICK v \in Records :
          Set(r, v) /\ v.pc \in {"last", "try"} /\ (v.pc = "try" => v.lease = 0) /\ v.lease <= TTL
    <3>1. CASE Acquire(r)
      <4>1. [rq[r] EXCEPT !.pc = "last", !.lease = TTL, !.known = TRUE] \in Records
        BY <1>0, Bounds DEF Records
      <4>2. \A v \in Records : v.lease \in 0..TTL
        BY DEF Records
      <4>3. TTL > 0 /\ \A n \in 0..TTL : n <= TTL
        BY Bounds
      <4>. QED  BY <3>1, <4>1, <4>2, <4>3 DEF Acquire, Records
    <3>2. CASE AcquireLost(r)
      <4>1. rq[r].tries \in 0..Retries /\ rq[r].tries < Retries /\ rq[r].pc = "try"
        BY <1>0, <3>2 DEF AcquireLost, Records
      <4>2. rq[r].tries + 1 \in 0..Retries
        BY <4>1
      <4>3. [rq[r] EXCEPT !.tries = @ + 1] \in Records
        BY <1>0, <4>2 DEF Records
      <4>. QED  BY <1>0, <3>2, <4>1, <4>3 DEF AcquireLost, Records, Granted
    <3>. QED  BY <1>2, <3>1, <3>2
  <2>3. rq' \in [Requests -> Records] /\ rq'[r] = v /\ \A s \in Requests \ {r} : rq'[s] = rq[s]
    BY <1>0, <2>2, OneRecord
  <2>4. lock' \in Locks /\ lock'.owner = r /\ lock'.left = TTL /\ ~lock'.lasting /\ r # Free
    BY <2>1 DEF Locked, Locks
  <2>5. UMQTypeOK' /\ Remembered'
    BY <1>0, <2>1, <2>3, <2>4 DEF UMQTypeOK, Remembered, Records, Locks
  <2>6. \A s \in Requests \ {r} : ~(rq[s].lease > 0)
    BY <1>0, <2>1 DEF Grantable, Granted
  <2>. QED  BY <1>0, <2>1, <2>2, <2>3, <2>4, <2>5, <2>6, Elsewhere
<1>3. CASE AcquireFails(r)
  <2>1. lock' = Forgotten(r) /\ rq[r].pc = "try" /\ UNCHANGED <<faults, age, orphan, quiet>>
    BY <1>3 DEF AcquireFails
  <2>. DEFINE v == [rq[r] EXCEPT !.pc = "last", !.failed = TRUE]
  <2>2. v \in Records /\ Set(r, v) /\ v.pc = "last" /\ v.lease = 0
    BY <1>0, <1>3 DEF AcquireFails, Unanswered, Records, Granted
  <2>. HIDE DEF v
  <2>3. rq' \in [Requests -> Records] /\ rq'[r] = v /\ \A s \in Requests \ {r} : rq'[s] = rq[s]
    BY <1>0, <2>2, OneRecord
  <2>4. UMQTypeOK' /\ Remembered'
    BY <1>0, <2>1, <2>3, ForgottenLock DEF UMQTypeOK, Remembered, Records, Locks
  <2>. QED  BY <1>0, <2>1, <2>2, <2>3, <2>4, ForgottenLock, Elsewhere DEF Granted
<1>4. CASE ReleaseLock(r) \/ ReleaseFails(r) \/ Stop(r)
  <2>1. PICK v \in Records : Set(r, v) /\ v.pc \in {"idle", "send"} /\ v.lease = 0
    <3>1. Idle \in Records /\ [Idle EXCEPT !.pc = "send"] \in Records
      BY Bounds DEF Idle, Records
    <3>2. Set(r, Idle) \/ Set(r, [Idle EXCEPT !.pc = "send"])
      BY <1>4 DEF ReleaseLock, ReleaseFails, Stop, Over
    <3>. QED  BY <3>1, <3>2 DEF Idle
  <2>2. rq' \in [Requests -> Records] /\ rq'[r] = v /\ \A s \in Requests \ {r} : rq'[s] = rq[s]
    BY <1>0, <2>1, OneRecord
  <2>3. CASE (ReleaseFails(r) \/ Stop(r))
    <3>1. lock' = Forgotten(r) /\ UNCHANGED <<faults, age, orphan, quiet>>
      BY <2>3 DEF ReleaseFails, Stop
    <3>2. UMQTypeOK' /\ Remembered'
      BY <1>0, <3>1, <2>2, ForgottenLock DEF UMQTypeOK, Remembered, Records, Locks
    <3>. QED  BY <1>0, <2>1, <2>2, <3>1, <3>2, ForgottenLock, Elsewhere DEF Granted
  <2>4. CASE ReleaseLock(r) /\ rq[r].known /\ lock.owner = r
    <3>1. /\ lock' = NoLock /\ age' = 0 /\ (quiet' = 0 \/ quiet' = quiet)
          /\ UNCHANGED <<faults, orphan>>
      BY <2>4 DEF ReleaseLock
    <3>2. UMQTypeOK' /\ Remembered'
      BY <1>0, <3>1, <2>2 DEF UMQTypeOK, Remembered, Records, NoLock
    <3>3. \A s \in Requests \ {r} : ~(rq[s].lease > 0)
      BY <1>0, <2>4 DEF Granted
    <3>. QED  BY <2>1, <2>2, <3>2, <3>3, Elsewhere
  <2>5. CASE ReleaseLock(r) /\ ~(rq[r].known /\ lock.owner = r)
    <3>1. UNCHANGED <<faults, lock, age, orphan, quiet>>
      BY <2>5 DEF ReleaseLock
    <3>2. UMQTypeOK' /\ Remembered'
      BY <1>0, <3>1, <2>2 DEF UMQTypeOK, Remembered, Records, NoLock
    <3>. QED  BY <1>0, <2>1, <2>2, <3>1, <3>2, Elsewhere DEF Granted
  <2>. QED  BY <1>4, <2>3, <2>4, <2>5
<1>. QED  BY <1>1, <1>2, <1>3, <1>4

\* Time takes a lease no later than its lock, and brings the waiting time and the pause
\* forward together.
LEMMA TickStep ==
  ASSUME UMQInv, Tick
  PROVE  UMQInv'
<1>. USE UserMsgQueueAssumption, OwnersAreDistinct
<1>0. UMQTypeOK /\ Granted /\ Remembered /\ Waited /\ rq \in [Requests -> Records]
  BY DEF UMQInv, UMQTypeOK, Records
<1>1. /\ lock' = Elapsed /\ age' = More(age, LastTTL) /\ quiet' = More(quiet, MaxDelay)
      /\ UNCHANGED <<faults, orphan>>
  BY DEF Tick
<1>2. /\ age \in 0..LastTTL /\ quiet \in 0..MaxDelay
      /\ age' \in 0..LastTTL /\ quiet' \in 0..MaxDelay
  BY <1>0, <1>1 DEF UMQTypeOK, More
<1>3. Remembered'
  BY <1>0, <1>1, <1>2 DEF Remembered, More
<1>4. /\ lock' \in Locks
      /\ lock'.owner = Free => lock' = NoLock
      /\ lock'.owner # Free => lock'.lasting \/ lock'.left > 0
  <2>1. CASE lock.left = 1
    BY <1>1, <2>1 DEF Elapsed, NoLock, Locks
  <2>2. CASE lock.left # 1
    <3>1. lock \in Locks /\ Less(lock.left) \in 0..TTL /\ lock.left \in 0..TTL
      BY <1>0 DEF UMQTypeOK, Locks, Less
    <3>2. lock' = [lock EXCEPT !.left = Less(lock.left)]
      BY <1>1, <2>2 DEF Elapsed
    <3>3. lock' \in Locks /\ lock'.owner = lock.owner /\ lock'.lasting = lock.lasting
          /\ lock'.left = Less(lock.left)
      BY <3>1, <3>2 DEF Locks
    <3>4. lock.left > 0 => Less(lock.left) > 0
      BY <3>1, <2>2 DEF Less
    <3>5. lock.owner = Free => Less(lock.left) = lock.left
      BY <1>0 DEF UMQTypeOK, NoLock, Less
    <3>. QED  BY <1>0, <3>1, <3>2, <3>3, <3>4, <3>5 DEF UMQTypeOK, NoLock, Locks
  <2>. QED  BY <2>1, <2>2
<1>5. ASSUME NEW s \in Requests
      PROVE  /\ rq'[s] \in Records /\ rq'[s].pc = rq[s].pc
             /\ rq'[s].lease = Less(rq[s].lease) /\ rq'[s].wait = Less(rq[s].wait)
             /\ rq[s].pc = "now" => rq'[s].last = More(rq[s].last, MaxDelay)
  <2>1. rq[s] \in Records /\ rq[s].lease \in 0..TTL /\ rq[s].wait \in 0..MaxDelay
        /\ rq[s].last \in 0..MaxDelay
    BY <1>0 DEF Records
  <2>2. Less(rq[s].lease) \in 0..TTL /\ Less(rq[s].wait) \in 0..MaxDelay
        /\ More(rq[s].last, MaxDelay) \in 0..MaxDelay
    BY <2>1 DEF Less, More
  <2>3. rq'[s] = [rq[s] EXCEPT !.lease = Less(@), !.wait = Less(@),
                               !.last = IF rq[s].pc = "now" THEN More(@, MaxDelay) ELSE @]
    BY DEF Tick
  <2>. QED  BY <2>1, <2>2, <2>3 DEF Records
<1>6. UMQTypeOK'
  <2>1. DOMAIN rq' = Requests /\ rq' = [s \in Requests |-> rq'[s]]
    BY DEF Tick
  <2>2. rq' \in [Requests -> Records]
    BY <1>5, <2>1
  <2>. QED  BY <1>0, <1>1, <1>2, <1>4, <2>2 DEF UMQTypeOK, Records, Locks
<1>7. ASSUME NEW s \in Requests, rq'[s].lease > 0
      PROVE  /\ rq[s].lease > 0 /\ rq'[s].lease = rq[s].lease - 1
             /\ lock.owner = s /\ ~lock.lasting /\ rq[s].lease <= lock.left
  <2>1. rq[s].lease \in 0..TTL
    BY <1>0 DEF Records
  <2>2. rq[s].lease > 0 /\ rq'[s].lease = rq[s].lease - 1
    BY <1>5, <1>7, <2>1 DEF Less
  <2>. QED  BY <1>0, <2>2 DEF Granted
<1>8. Granted'
  <2>1. ASSUME NEW s \in Requests, rq[s].pc \in {"idle", "try"} PROVE rq'[s].lease = 0
    BY <1>0, <1>5, <2>1 DEF Granted, Less
  <2>2. ASSUME NEW s \in Requests, rq'[s].lease > 0
        PROVE  lock'.owner = s /\ ~lock'.lasting /\ rq'[s].lease <= lock'.left
    <3>1. lock \in Locks /\ lock.left \in Nat /\ rq[s].lease \in Nat
      BY <1>0 DEF UMQTypeOK, Locks, Records
    <3>2. lock.left > 1 /\ Less(lock.left) = lock.left - 1
      BY <1>7, <2>2, <3>1 DEF Less
    <3>3. lock' = [lock EXCEPT !.left = lock.left - 1]
      BY <1>1, <3>2 DEF Elapsed
    <3>4. lock'.owner = lock.owner /\ lock'.lasting = lock.lasting /\ lock'.left = lock.left - 1
      BY <3>1, <3>3 DEF Locks
    <3>. QED  BY <1>7, <2>2, <3>1, <3>4
  <2>. QED  BY <1>5, <2>1, <2>2 DEF Granted
<1>9. Waited'
  <2>1. ASSUME NEW s \in Requests, rq'[s].lease > 0, rq[s].pc = "now"
        PROVE  rq'[s].last <= quiet'
    <3>1. rq[s].last <= quiet /\ rq[s].last \in Nat
      BY <1>0, <1>7, <2>1 DEF Waited, Records
    <3>. QED  BY <1>1, <1>2, <1>5, <2>1, <3>1 DEF More
  <2>2. ASSUME NEW s \in Requests, rq'[s].lease > 0, rq[s].pc = "delay"
        PROVE  MinDelay <= quiet' + rq'[s].wait
    <3>1. MinDelay <= quiet + rq[s].wait /\ rq[s].wait \in Nat
      BY <1>0, <1>7, <2>2 DEF Waited, Records
    <3>. QED  BY <1>1, <1>2, <1>5, <3>1 DEF More, Less
  <2>. QED  BY <1>5, <2>1, <2>2 DEF Waited
<1>. QED  BY <1>3, <1>6, <1>8, <1>9 DEF UMQInv

\* Redis loses the TTL of a lock, and the worker removes a lock that has lost it: nobody has
\* a lease of such a lock.
LEMMA WorkerStep ==
  ASSUME UMQInv, Failover \/ ScanLockKeys \/ ForceRelease
  PROVE  UMQInv'
<1>. USE UserMsgQueueAssumption, OwnersAreDistinct
<1>0. UMQTypeOK /\ Granted /\ Remembered /\ Waited /\ rq \in [Requests -> Records]
  BY DEF UMQInv, UMQTypeOK, Records
<1>1. CASE Failover
  <2>1. lock' = [lock EXCEPT !.lasting = TRUE, !.left = 0] /\ lock.owner # Free
        /\ UNCHANGED <<faults, age, orphan, quiet>>
    BY <1>1 DEF Failover
  <2>2. ASSUME NEW s \in Requests PROVE rq'[s] \in Records /\ rq'[s].lease = 0
    BY <1>0, <1>1 DEF Failover, Records
  <2>3. rq' \in [Requests -> Records]
    <3>1. rq' = [s \in Requests |-> rq'[s]]
      BY <1>1 DEF Failover
    <3>. QED  BY <2>2, <3>1
  <2>4. lock' \in Locks /\ lock'.owner = lock.owner /\ lock'.lasting
    BY <1>0, <2>1, Bounds DEF UMQTypeOK, Locks
  <2>5. UMQTypeOK' /\ Remembered'
    BY <1>0, <2>1, <2>3, <2>4 DEF UMQTypeOK, Remembered, Records, Locks
  <2>6. Granted' /\ Waited'
    BY <2>2 DEF Granted, Waited
  <2>. QED  BY <2>5, <2>6 DEF UMQInv
<1>2. CASE ScanLockKeys
  BY <1>0, <1>2 DEF ScanLockKeys, UMQInv, UMQTypeOK, Granted, Remembered, Waited
<1>3. CASE ForceRelease
  <2>1. UNCHANGED <<faults, age, rq, quiet>> /\ orphan' \in BOOLEAN
        /\ lock' = (IF lock.lasting THEN NoLock ELSE lock)
    BY <1>3 DEF ForceRelease
  <2>2. UMQTypeOK' /\ Remembered' /\ Waited'
    BY <1>0, <2>1 DEF UMQTypeOK, Remembered, Waited, NoLock
  <2>3. Granted'
    BY <1>0, <2>1 DEF Granted
  <2>. QED  BY <2>2, <2>3 DEF UMQInv
<1>. QED  BY <1>1, <1>2, <1>3

LEMMA UMQInductive ==
  ASSUME UMQInv, [UMQNext]_umqVars
  PROVE  UMQInv'
<1>1. CASE UNCHANGED umqVars
  BY <1>1 DEF umqVars, UMQInv, UMQTypeOK, Granted, Remembered, Waited
<1>. QED  BY <1>1, RequestStep, WorkerStep, TickStep DEF UMQNext

LEMMA UMQInvariantHolds == UMQSpec => []UMQInv
<1>. QED  BY UMQInitHolds, UMQInductive, PTL DEF UMQSpec

\* For every TTL, every delay and all faults together: a request keeps the lock for the time
\* it was granted.  releaseLockScript and forceReleaseLockScript take it from nobody else,
\* however late they run (ReleaseLock, ForceReleaseLock).
THEOREM TheLockIsKept == UMQSpec => []LockKept
<1>1. UMQInv => LockKept
  BY DEF UMQInv, Granted, LockKept
<1>. QED  BY <1>1, UMQInvariantHolds, PTL

\* The step by which a request goes on to send.
LEMMA SpacedStep ==
  ASSUME UMQInv, [UMQNext]_umqVars, NEW r \in Requests,
         rq[r].pc # "send", rq'[r].pc = "send", rq'[r].lease > 0, ~rq'[r].failed
  PROVE  quiet >= MinDelay
<1>. USE UserMsgQueueAssumption, OwnersAreDistinct
<1>0. UMQTypeOK /\ Granted /\ Remembered /\ Waited /\ rq \in [Requests -> Records]
  BY DEF UMQInv, UMQTypeOK, Records
<1>1. quiet \in 0..MaxDelay /\ age \in 0..LastTTL /\ rq[r] \in Records
  BY <1>0 DEF UMQTypeOK
<1>2. \/ WaitTimeout(r) \/ ReadLast(r) \/ ReadNow(r) \/ Wake(r)
  <2>1. ASSUME NEW s \in Requests,
               \/ Arrive(s) \/ Acquire(s) \/ AcquireLost(s) \/ AcquireFails(s)
               \/ WaitTimeout(s) \/ ReadLast(s) \/ ReadNow(s) \/ ReadFails(s) \/ Wake(s)
               \/ Interrupted(s) \/ Sent(s) \/ ReleaseLock(s) \/ ReleaseFails(s) \/ Stop(s)
        PROVE  s = r
    <3>1. ASSUME NEW v, Set(s, v) PROVE s = r
      BY <3>1, <1>0 DEF Set
    <3>2. \E v : Set(s, v)
      <4>1. CASE Arrive(s) \/ WaitTimeout(s) \/ Wake(s) \/ Interrupted(s) \/ Sent(s)
        BY <4>1 DEF Arrive, WaitTimeout, Wake, Interrupted, Sent, GoOn
      <4>2. CASE Acquire(s) \/ AcquireLost(s) \/ AcquireFails(s) \/ ReadFails(s)
        BY <4>2 DEF Acquire, AcquireLost, AcquireFails, ReadFails, Unanswered
      <4>3. CASE ReadLast(s) \/ ReadNow(s)
        BY <4>3 DEF ReadLast, ReadNow, GoOn
      <4>4. CASE ReleaseLock(s) \/ ReleaseFails(s) \/ Stop(s)
        BY <4>4 DEF ReleaseLock, ReleaseFails, Stop, Over
      <4>. QED  BY <2>1, <4>1, <4>2, <4>3, <4>4
    <3>. QED  BY <3>1, <3>2
  <2>2. ~(Arrive(r) \/ Acquire(r) \/ AcquireLost(r) \/ AcquireFails(r))
    BY <1>0 DEF Arrive, Acquire, AcquireLost, AcquireFails, GoOn, Unanswered, Set, Records
  <2>3. ~(ReadFails(r) \/ Interrupted(r) \/ Sent(r))
    BY <1>0 DEF ReadFails, Interrupted, Sent, GoOn, Unanswered, Set, Records
  <2>4. ~(ReleaseLock(r) \/ ReleaseFails(r) \/ Stop(r))
    BY <1>0 DEF ReleaseLock, ReleaseFails, Stop, Over, Set, Idle
  <2>5. ~(Failover \/ ScanLockKeys \/ ForceRelease \/ UNCHANGED umqVars)
    BY <1>0 DEF Failover, ScanLockKeys, ForceRelease, umqVars, Records
  <2>6. ~Tick
    <3>1. ASSUME Tick PROVE rq'[r].pc = rq[r].pc
      <4>1. rq'[r] = [rq[r] EXCEPT !.lease = Less(@), !.wait = Less(@),
                                   !.last = IF rq[r].pc = "now" THEN More(@, MaxDelay) ELSE @]
        BY <3>1 DEF Tick
      <4>. QED  BY <1>1, <4>1 DEF Records
    <3>. QED  BY <3>1
  <2>. QED  BY <2>1, <2>2, <2>3, <2>4, <2>5, <2>6 DEF UMQNext
<1>3. rq'[r].lease = rq[r].lease
  BY <1>0, <1>2 DEF WaitTimeout, ReadLast, ReadNow, Wake, GoOn, Set, Records
<1>4. CASE WaitTimeout(r)
  BY <1>0, <1>3, <1>4 DEF WaitTimeout, Granted
<1>5. CASE ReadLast(r)
  <2>1. age = LastTTL
    BY <1>0, <1>5 DEF ReadLast, Set, Records
  <2>. QED  BY <1>0, <1>1, <2>1 DEF Remembered
<1>6. CASE ReadNow(r)
  <2>1. rq[r].last <= quiet /\ rq[r].last \in Nat
    BY <1>0, <1>1, <1>3, <1>6 DEF Waited, ReadNow, Records
  <2>2. \E d \in MinDelay..MaxDelay : rq[r].last >= d
    BY <1>0, <1>6 DEF ReadNow, Set, Records
  <2>. QED  BY <1>1, <2>1, <2>2
<1>7. CASE Wake(r)
  BY <1>0, <1>1, <1>3, <1>7 DEF Waited, Wake
<1>. QED  BY <1>2, <1>4, <1>5, <1>6, <1>7

\* A message that is sent with the lock starts no sooner than MinDelay after the end of the
\* last one that had it, although its time and the current one are read in two calls with
\* others in between (EnforceDelay, releaseLockScript).
THEOREM MessagesAreSpaced == UMQSpec => Spaced
<1>. DEFINE A == \A r \in Requests :
       rq[r].pc # "send" /\ rq'[r].pc = "send" /\ rq'[r].lease > 0 /\ ~rq'[r].failed =>
         quiet >= MinDelay
<1>1. UMQInv /\ [UMQNext]_umqVars => [A]_umqVars
  BY SpacedStep
<1>. QED  BY <1>1, UMQInvariantHolds, PTL DEF UMQSpec, Spaced
=============================================================================
