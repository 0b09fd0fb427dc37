--------------------------- MODULE Instance_proofs ---------------------------
(* Proofs about what an instance keeps in its memory between requests: pooled *)
(* connections (OpenAIWSPool: types, exclusive leases, the limit on           *)
(* connections and that none is forgotten) and looked up API keys             *)
(* (ApiKeyAuthCache: types, the reach of invalidations, the age of what is    *)
(* out of date).                                                              *)
EXTENDS OpenAIWSPool, ApiKeyAuthCache, FiniteSetTheorems, TLAPS

----------------------------------------------------------------------------
(* The pool.                                                                 *)

Prewarm == [active : BOOLEAN, left : Nat]

(* The types, but for the bounds of the counters.                            *)
Shape ==
  /\ setup \in Settings
  /\ seq \in 0..MaxDials /\ conns \subseteq 1..seq /\ closed \subseteq 1..seq
  /\ token \in [Conns -> BOOLEAN] /\ creating \in Int
  /\ prewarm \in Prewarm
  /\ pinging \subseteq 1..seq /\ evicted \in [Actors -> SUBSET (1..seq)]
  /\ cl \in [Clients -> Client]

(* A client that is past the mutex has a connection, unless it is dialling.   *)
Known == \A x \in Clients : cl[x].pc \notin {"idle", "pick", "dial"} => cl[x].conn \in 1..seq

SInv == Shape /\ Known

LEMMA Parameters ==
  /\ MaxDials \in Nat
  /\ setup \in Settings => /\ MaxConns \in Nat \ {0} /\ setup.team \subseteq Clients
                           /\ setup.kinds \subseteq Kinds /\ setup.dials <= MaxDials
                           /\ setup.dials \in Nat
BY OpenAIWSPoolAssumption DEF MaxConns

LEMMA IdleClient == Idle \in Client
<1>1. [r \in {0, 1} |-> None] \in [{0, 1} -> 0..MaxDials]
  BY Parameters DEF None
<1> QED
  BY <1>1, Parameters DEF Idle, Client, Pcs, Kinds, None

LEMMA WithPc ==
  ASSUME NEW r \in Client, NEW next \in Pcs
  PROVE  /\ [r EXCEPT !.pc = next] \in Client
         /\ [r EXCEPT !.pc = next].pc = next /\ [r EXCEPT !.pc = next].conn = r.conn
         /\ [r EXCEPT !.pc = next].kind = r.kind
BY DEF Client

LEMMA WithQueued ==
  ASSUME NEW r \in Client, NEW c \in 0..MaxDials
  PROVE  LET q == [r EXCEPT !.pc = "wait", !.conn = c, !.queued = [@ EXCEPT ![r.retry] = c]]
         IN q \in Client /\ q.pc = "wait" /\ q.conn = c
<1>1. [r.queued EXCEPT ![r.retry] = c] \in [{0, 1} -> 0..MaxDials]
  BY DEF Client
<1> QED
  BY <1>1 DEF Client, Pcs

LEMMA WithRetry ==
  ASSUME NEW r \in Client
  PROVE  LET n == [r EXCEPT !.pc = "pick", !.conn = None, !.retry = 1]
             e == [r EXCEPT !.pc = "close", !.retry = 1]
         IN /\ n \in Client /\ n.pc = "pick"
            /\ e \in Client /\ e.pc = "close" /\ e.conn = r.conn
<1>1. None \in 0..MaxDials
  BY Parameters DEF None
<1> QED
  BY <1>1 DEF Client, Pcs

(* What a step makes of one client, whose record becomes r.                   *)
LEMMA ClientStep ==
  ASSUME SInv, NEW x \in Clients, NEW r \in Client, cl' = [cl EXCEPT ![x] = r],
         seq' \in Nat, seq' >= seq,
         r.pc \notin {"idle", "pick", "dial"} => r.conn \in 1..seq'
  PROVE  /\ cl' \in [Clients -> Client] /\ Known'
         /\ \A y \in Clients : cl'[y] = IF y = x THEN r ELSE cl[y]
BY DEF SInv, Shape, Known

LEMMA RetryStep ==
  ASSUME SInv, NEW x \in Clients, Retry(x)
  PROVE  \E r \in Client : cl' = [cl EXCEPT ![x] = r] /\ r.pc \in {"idle", "pick"}
<1>1. cl[x] \in Client
  BY DEF SInv, Shape
<1>2. CASE cl[x].retry = 0
  BY <1>1, <1>2, WithRetry DEF Retry, Set
<1>3. CASE cl[x].retry # 0
  BY <1>3, IdleClient DEF Retry, Finish, Set, Idle
<1> QED
  BY <1>2, <1>3

(* What the critical section of an acquisition leaves behind.                 *)
LEMMA LockedStep ==
  ASSUME SInv, NEW x \in Clients, NEW gone \in SUBSET conns, Locked(x, gone)
  PROVE  /\ cl[x].pc = "pick" /\ evicted[x] = {} /\ conns' = conns \ gone
         /\ evicted' = [evicted EXCEPT ![x] = gone]
         /\ UNCHANGED <<setup, seq, closed, prewarm, pinging>>
         /\ conns' \subseteq 1..seq' /\ evicted' \in [Actors -> SUBSET (1..seq')]
<1>1. Locked(x, gone)
  OBVIOUS
<1> QED
  BY <1>1 DEF Locked, SInv, Shape, Actors

LEMMA ReusableFree ==
  ASSUME NEW x, NEW pool, NEW c \in Reusable(x, pool)
  PROVE  c \in pool /\ Acquirable(c)
BY DEF Reusable, LeastBusy

LEMMA TargetsInPool ==
  ASSUME NEW x, NEW pool, NEW c \in Targets(x, pool)
  PROVE  c \in pool
BY DEF Targets, LeastBusy

LEMMA VictimsInPool ==
  ASSUME NEW x, NEW pool, NEW v \in Victims(x, pool)
  PROVE  v \subseteq pool
BY DEF Victims, Unused

LEMMA ShapeInit == Init => SInv
<1> SUFFICES ASSUME Init PROVE SInv
  OBVIOUS
<1>1. cl \in [Clients -> Client]
  BY IdleClient DEF Init
<1>2. prewarm \in Prewarm
  BY DEF Init, Prewarm
<1>3. Known
  BY DEF Init, Known, Idle
<1> QED
  BY <1>1, <1>2, <1>3, Parameters DEF Init, SInv, Shape, Conns, Actors

(* A step of a client that only changes its record, tokens and what is closed. *)
LEMMA QuietStep ==
  ASSUME SInv, NEW x \in Clients, NEW r \in Client, cl' = [cl EXCEPT ![x] = r],
         r.pc \notin {"idle", "pick", "dial"} => r.conn \in 1..seq,
         token' \in [Conns -> BOOLEAN], closed' \subseteq 1..seq, conns' \subseteq 1..seq,
         UNCHANGED <<setup, seq, creating, prewarm, pinging, evicted>>
  PROVE  SInv'
<1>1. cl' \in [Clients -> Client] /\ Known'
  <2>1. seq' \in Nat /\ seq' >= seq
    BY Parameters DEF SInv, Shape
  <2> QED
    BY <2>1, ClientStep
<1> QED
  BY <1>1 DEF SInv, Shape, Prewarm

(* The critical section of an acquisition.                                    *)
LEMMA PickStep ==
  ASSUME SInv, NEW x \in Clients, NEW gone \in SUBSET conns, Locked(x, gone),
         NEW r \in Client, cl' = [cl EXCEPT ![x] = r],
         r.pc \notin {"idle", "pick", "dial"} => r.conn \in 1..seq,
         token' \in [Conns -> BOOLEAN], creating' \in Int
  PROVE  SInv'
<1>1. /\ UNCHANGED <<setup, seq, closed, prewarm, pinging>>
      /\ conns' \subseteq 1..seq' /\ evicted' \in [Actors -> SUBSET (1..seq')]
  BY LockedStep
<1>2. cl' \in [Clients -> Client] /\ Known'
  <2>1. seq' \in Nat /\ seq' >= seq
    BY <1>1, Parameters DEF SInv, Shape
  <2> QED
    BY <1>1, <2>1, ClientStep
<1> QED
  BY <1>1, <1>2 DEF SInv, Shape, Prewarm

LEMMA AcquireShape ==
  ASSUME SInv, NEW x \in Clients,
         Reuse(x) \/ StartDial(x) \/ Queue(x) \/ Refuse(x)
  PROVE  SInv'
<1>1. cl[x] \in Client /\ token \in [Conns -> BOOLEAN] /\ creating \in Int
  BY DEF SInv, Shape
<1>2. conns \subseteq 1..seq /\ 1..seq \subseteq Conns /\ 1..seq \subseteq 0..MaxDials
  BY Parameters DEF SInv, Shape, Conns
<1>3. CASE Reuse(x)
  <2>1. PICK gone \in SUBSET conns :
          /\ Locked(x, gone)
          /\ \E c \in Reusable(x, conns \ gone) :
               /\ token' = [token EXCEPT ![c] = FALSE]
               /\ Set(x, [cl[x] EXCEPT !.pc = "check", !.conn = c])
          /\ UNCHANGED creating
    BY <1>3 DEF Reuse
  <2>2. PICK c \in Reusable(x, conns \ gone) :
          /\ token' = [token EXCEPT ![c] = FALSE]
          /\ Set(x, [cl[x] EXCEPT !.pc = "check", !.conn = c])
    BY <2>1
  <2>3. c \in 1..seq
    BY <1>2, ReusableFree
  <2> DEFINE r == [cl[x] EXCEPT !.pc = "check", !.conn = c]
  <2>7. c \in 0..MaxDials
    BY <1>2, <2>3
  <2>4. r \in Client /\ r.pc = "check" /\ r.conn = c
    BY <1>1, <2>7 DEF Client, Pcs
  <2>5. token' \in [Conns -> BOOLEAN] /\ creating' \in Int
    BY <1>1, <2>1, <2>2
  <2>6. cl' = [cl EXCEPT ![x] = r]
    BY <2>2 DEF Set
  <2> HIDE DEF r
  <2> QED
    BY <2>1, <2>3, <2>4, <2>5, <2>6, PickStep
<1>4. CASE StartDial(x)
  <2>1. PICK gone \in SUBSET conns : \E v \in Victims(x, conns \ gone) : Locked(x, gone \cup v)
    BY <1>4 DEF StartDial
  <2>2. PICK v \in Victims(x, conns \ gone) : Locked(x, gone \cup v)
    BY <2>1
  <2>3. gone \cup v \in SUBSET conns
    BY VictimsInPool
  <2> DEFINE r == [cl[x] EXCEPT !.pc = "dial"]
  <2>4. r \in Client /\ r.pc = "dial"
    BY <1>1, WithPc DEF Pcs
  <2>5. cl' = [cl EXCEPT ![x] = r] /\ creating' = creating + 1 /\ token' = token
    BY <1>4 DEF StartDial, GoOn, Set
  <2>6. creating' \in Int /\ token' \in [Conns -> BOOLEAN]
    BY <1>1, <2>5
  <2> HIDE DEF r
  <2> QED
    BY <2>2, <2>3, <2>4, <2>5, <2>6, PickStep
<1>5. CASE Queue(x)
  <2>1. PICK gone \in SUBSET conns :
          /\ Locked(x, gone)
          /\ \E c \in Targets(x, conns \ gone) :
               Set(x, [cl[x] EXCEPT !.pc = "wait", !.conn = c,
                                    !.queued = [@ EXCEPT ![cl[x].retry] = c]])
          /\ UNCHANGED <<token, creating>>
    BY <1>5 DEF Queue
  <2>2. PICK c \in Targets(x, conns \ gone) :
          Set(x, [cl[x] EXCEPT !.pc = "wait", !.conn = c,
                               !.queued = [@ EXCEPT ![cl[x].retry] = c]])
    BY <2>1
  <2>3. c \in 1..seq
    BY <1>2, TargetsInPool
  <2> DEFINE r == [cl[x] EXCEPT !.pc = "wait", !.conn = c,
                                !.queued = [@ EXCEPT ![cl[x].retry] = c]]
  <2>4. r \in Client /\ r.pc = "wait" /\ r.conn = c
    BY <1>1, <1>2, <2>3, WithQueued
  <2>5. cl' = [cl EXCEPT ![x] = r]
    BY <2>2 DEF Set
  <2>6. token' \in [Conns -> BOOLEAN] /\ creating' \in Int
    BY <1>1, <2>1
  <2> HIDE DEF r
  <2> QED
    BY <2>1, <2>3, <2>4, <2>5, <2>6, PickStep
<1>6. CASE Refuse(x)
  <2>1. PICK gone \in SUBSET conns : \E v \in Victims(x, conns \ gone) : Locked(x, gone \cup v)
    BY <1>6 DEF Refuse
  <2>2. PICK v \in Victims(x, conns \ gone) : Locked(x, gone \cup v)
    BY <2>1
  <2>3. gone \cup v \in SUBSET conns
    BY VictimsInPool
  <2>4. cl' = [cl EXCEPT ![x] = Idle] /\ UNCHANGED <<token, creating>>
    BY <1>6 DEF Refuse, Finish, Set
  <2>5. Idle.pc = "idle"
    BY DEF Idle
  <2>6. creating' \in Int /\ token' \in [Conns -> BOOLEAN]
    BY <1>1, <2>4
  <2> QED
    BY <2>2, <2>3, <2>4, <2>5, <2>6, IdleClient, PickStep
<1> QED
  BY <1>3, <1>4, <1>5, <1>6
LEMMA FiniteConns ==
  ASSUME SInv PROVE IsFiniteSet(conns) /\ Cardinality(conns) \in Nat
<1>1. IsFiniteSet(1..seq)
  BY FS_Interval, Parameters DEF SInv, Shape
<1> QED
  BY <1>1, FS_Subset, FS_CardinalityType DEF SInv, Shape

LEMMA TargetBound ==
  ASSUME SInv PROVE TargetCount \in Nat /\ TargetCount <= MaxConns
<1>1. MaxConns \in Nat /\ MinIdle \in Nat /\ Utilization \in 1..100
  BY Parameters, OpenAIWSPoolAssumption DEF SInv, Shape
<1>2. IsFiniteSet(conns) /\ Cardinality(conns) \in Nat
  BY FiniteConns
<1>3. InFlight \in Nat
  <2>1. {c \in conns : Leased(c)} \in SUBSET conns
    OBVIOUS
  <2> QED
    BY <1>2, <2>1, FS_Subset, FS_CardinalityType DEF InFlight
<1>4. Waiting \in Nat
  <2>1. IsFiniteSet({0, 1})
    <3>1. IsFiniteSet({0})
      BY FS_Singleton
    <3>2. {0} \cup {1} = {0, 1}
      OBVIOUS
    <3> QED
      BY <3>1, <3>2, FS_AddElement
  <2>2. IsFiniteSet(Waits)
    BY <2>1, FS_Product, OpenAIWSPoolAssumption DEF Waits
  <2>3. {w \in Waits : cl[w[1]].queued[w[2]] \in conns} \in SUBSET Waits
    OBVIOUS
  <2> QED
    BY <2>2, <2>3, FS_Subset, FS_CardinalityType DEF Waiting
<1> DEFINE busy == ((InFlight + Waiting) * 100 + Utilization - 1) \div Utilization
<1>5. busy \in Nat
  BY <1>1, <1>3, <1>4
<1> QED
  BY <1>1, <1>2, <1>3, <1>4, <1>5 DEF TargetCount, AtLeast, AtMost
(* The other steps of an acquisition, and the end of a lease.                 *)
LEMMA ClientShape ==
  ASSUME SInv, NEW x \in Clients,
         \/ Start(x) \/ WaitClosed(x) \/ Check(x) \/ ReleaseFailed(x) \/ CloseFailed(x)
         \/ EvictFailed(x) \/ GrabWaits(x) \/ Wait(x) \/ WaitTimeout(x) \/ Grab(x)
         \/ GrabFails(x) \/ Release(x)
  PROVE  SInv'
<1>1. /\ cl[x] \in Client /\ token \in [Conns -> BOOLEAN] /\ closed \subseteq 1..seq
      /\ conns \subseteq 1..seq
  BY DEF SInv, Shape
<1>2. 1..seq \subseteq Conns /\ 1..seq \subseteq 0..MaxDials
  BY Parameters DEF SInv, Shape, Conns
<1>3. Idle \in Client /\ Idle.pc = "idle"
  BY IdleClient DEF Idle
<1>4. cl[x].pc \notin {"idle", "pick", "dial"} => cl[x].conn \in 1..seq
  BY DEF SInv, Known
(* The client goes on with the same connection.                              *)
<1>5. ASSUME NEW next \in Pcs, GoOn(x, next), cl[x].pc \notin {"idle", "pick", "dial"},
             token' \in [Conns -> BOOLEAN], closed' \subseteq 1..seq, conns' \subseteq 1..seq,
             UNCHANGED <<setup, seq, creating, prewarm, pinging, evicted>>
      PROVE  SInv'
  <2> DEFINE r == [cl[x] EXCEPT !.pc = next]
  <2>1. r \in Client /\ r.conn = cl[x].conn
    BY <1>1, WithPc
  <2>2. cl' = [cl EXCEPT ![x] = r]
    BY <1>5 DEF GoOn, Set
  <2> HIDE DEF r
  <2> QED
    BY <1>4, <1>5, <2>1, <2>2, QuietStep
<1>6. ASSUME Finish(x) \/ Retry(x),
             token' \in [Conns -> BOOLEAN], closed' \subseteq 1..seq, conns' \subseteq 1..seq,
             UNCHANGED <<setup, seq, creating, prewarm, pinging, evicted>>
      PROVE  SInv'
  <2>1. PICK r \in Client : cl' = [cl EXCEPT ![x] = r] /\ r.pc \in {"idle", "pick"}
    BY <1>3, <1>6, RetryStep DEF Finish, Set
  <2> QED
    BY <1>6, <2>1, QuietStep
<1>7. CASE Start(x)
  <2>1. PICK k \in Kinds, p \in 0..seq :
          cl' = [cl EXCEPT ![x] = [Idle EXCEPT !.pc = "pick", !.kind = k, !.preferred = p]]
    BY <1>7, Parameters DEF Start, Set, SInv, Shape
  <2> DEFINE r == [Idle EXCEPT !.pc = "pick", !.kind = k, !.preferred = p]
  <2>2. r \in Client /\ r.pc = "pick"
    <3>1. p \in 0..MaxDials
      BY Parameters DEF SInv, Shape
    <3> QED
      BY <1>3, <3>1 DEF Client, Pcs
  <2> HIDE DEF r
  <2>3. UNCHANGED <<setup, seq, conns, token, closed, creating, prewarm, pinging, evicted>>
    BY <1>7 DEF Start
  <2> QED
    BY <1>1, <2>1, <2>2, <2>3, QuietStep DEF r
<1>8. CASE WaitClosed(x) \/ WaitTimeout(x)
  <2>1. Finish(x) \/ Retry(x)
    BY <1>8 DEF WaitClosed, WaitTimeout
  <2>2. UNCHANGED <<setup, seq, conns, token, closed, creating, prewarm, pinging, evicted>>
    BY <1>8 DEF WaitClosed, WaitTimeout
  <2> QED
    BY <1>1, <1>6, <2>1, <2>2
<1>9. CASE Check(x)
  <2>1. PICK next \in Pcs : GoOn(x, next)
    BY <1>9 DEF Check, Pcs
  <2> QED
    BY <1>1, <1>5, <1>9, <2>1 DEF Check
<1>10. CASE ReleaseFailed(x)
  BY <1>1, <1>5, <1>10 DEF ReleaseFailed, Pcs
<1>11. CASE CloseFailed(x)
  BY <1>1, <1>4, <1>5, <1>11 DEF CloseFailed, Pcs
<1>12. CASE EvictFailed(x)
  BY <1>1, <1>6, <1>12 DEF EvictFailed
<1>13. CASE GrabWaits(x)
  BY <1>1, <1>5, <1>13 DEF GrabWaits, Pcs
<1>14. CASE Wait(x)
  BY <1>1, <1>5, <1>14 DEF Wait, Pcs
<1>15. CASE Grab(x)
  BY <1>1, <1>5, <1>15 DEF Grab, Pcs
<1>16. CASE GrabFails(x)
  <2> DEFINE r == [cl[x] EXCEPT !.pc = "close", !.retry = 1]
  <2>1. r \in Client /\ r.conn = cl[x].conn
    BY <1>1, WithRetry
  <2>2. cl' = [cl EXCEPT ![x] = r]
    BY <1>16 DEF GrabFails, Set
  <2>3. cl[x].conn \in 1..seq
    BY <1>4, <1>16 DEF GrabFails
  <2> HIDE DEF r
  <2> QED
    BY <1>1, <1>16, <2>1, <2>2, <2>3, QuietStep DEF GrabFails
<1>17. CASE Release(x)
  BY <1>1, <1>6, <1>17 DEF Release
<1> QED
  BY <1>7, <1>8, <1>9, <1>10, <1>11, <1>12, <1>13, <1>14, <1>15, <1>16, <1>17
LEMMA DialShape ==
  ASSUME SInv, NEW x \in Clients, Dialled(x) \/ DialFails(x) \/ Ensure(x) \/ MarkBroken(x)
  PROVE  SInv'
<1>1. /\ cl[x] \in Client /\ cl \in [Clients -> Client] /\ token \in [Conns -> BOOLEAN]
      /\ creating \in Int /\ seq \in 0..MaxDials /\ setup \in Settings /\ prewarm \in Prewarm
      /\ conns \subseteq 1..seq /\ closed \subseteq 1..seq /\ pinging \subseteq 1..seq
      /\ evicted \in [Actors -> SUBSET (1..seq)]
  BY DEF SInv, Shape
<1>2. cl[x].pc \notin {"idle", "pick", "dial"} => cl[x].conn \in 1..seq
  BY DEF SInv, Known
<1>3. Idle \in Client /\ Idle.pc = "idle"
  BY IdleClient DEF Idle
<1>4. CASE Dialled(x)
  <2>1. /\ seq' = seq + 1 /\ seq' \in 0..MaxDials /\ 1..seq \subseteq 1..seq'
        /\ seq' \in 1..seq' /\ seq' \in Conns
    BY <1>1, <1>4, Parameters DEF Dialled, Conns
  <2>7. PICK n \in 0..MaxDials : n = seq'
    BY <2>1
  <2> DEFINE r == [cl[x] EXCEPT !.pc = "grab", !.conn = n]
  <2>2. r \in Client /\ r.pc = "grab" /\ r.conn = seq'
    <3>1. "grab" \in Pcs /\ cl[x] \in Client
      BY <1>1 DEF Pcs
    <3>2. r \in Client /\ r.pc = "grab" /\ r.conn = n
      BY <3>1 DEF Client
    <3> QED
      BY <2>7, <3>2
  <2>3. cl' = [cl EXCEPT ![x] = r]
    BY <1>4, <2>7 DEF Dialled, Set
  <2> HIDE DEF r
  <2>4. cl' \in [Clients -> Client] /\ Known'
    <3>1. seq' \in Nat /\ seq' >= seq
      BY <1>1, <2>1
    <3> QED
      BY <2>1, <2>2, <2>3, <3>1, ClientStep
  <2>5. /\ conns' = conns \cup {seq'} /\ token' = [token EXCEPT ![seq'] = TRUE]
        /\ creating' = creating - 1 /\ UNCHANGED <<setup, closed, prewarm, pinging, evicted>>
    BY <1>4 DEF Dialled
  <2>6. evicted' \in [Actors -> SUBSET (1..seq')]
    BY <1>1, <2>1, <2>5
  <2> QED
    BY <1>1, <2>1, <2>4, <2>5, <2>6 DEF SInv, Shape, Prewarm
<1>5. CASE DialFails(x)
  <2>1. cl' = [cl EXCEPT ![x] = Idle] /\ creating' = creating - 1
        /\ UNCHANGED <<setup, seq, conns, token, closed, prewarm, pinging, evicted>>
    BY <1>5 DEF DialFails, Finish, Set
  <2>2. cl' \in [Clients -> Client] /\ Known'
    <3>1. seq' \in Nat /\ seq' >= seq
      BY <1>1, <2>1, Parameters
    <3> QED
      BY <1>3, <2>1, <3>1, ClientStep
  <2> QED
    BY <1>1, <2>1, <2>2 DEF SInv, Shape, Prewarm
<1>6. CASE Ensure(x)
  <2> DEFINE r == [Idle EXCEPT !.pc = "held", !.kind = cl[x].kind, !.conn = cl[x].conn]
  <2>1. r \in Client /\ r.conn = cl[x].conn
    BY <1>1, <1>3 DEF Client, Pcs
  <2>2. cl' = [cl EXCEPT ![x] = r]
        /\ UNCHANGED <<setup, seq, conns, token, closed, pinging, evicted>>
    BY <1>6 DEF Ensure, Set
  <2>3. cl[x].conn \in 1..seq
    BY <1>2, <1>6 DEF Ensure
  <2> HIDE DEF r
  <2>4. cl' \in [Clients -> Client] /\ Known'
    <3>1. seq' \in Nat /\ seq' >= seq
      BY <1>1, <2>2, Parameters
    <3> QED
      BY <2>1, <2>2, <2>3, <3>1, ClientStep
  <2>5. creating' \in Int /\ prewarm' \in Prewarm
    <3>1. TargetCount \in Nat
      BY TargetBound
    <3>2. Cardinality(conns) \in Nat
      BY FiniteConns
    <3>3. CASE UNCHANGED <<creating, prewarm>>
      BY <1>1, <3>3
    <3>4. CASE ~UNCHANGED <<creating, prewarm>>
      <4> DEFINE current == Cardinality(conns) + creating
      <4>1. /\ current < TargetCount /\ creating' = creating + (TargetCount - current)
            /\ prewarm' = [active |-> TRUE, left |-> TargetCount - current]
        BY <1>6, <3>4 DEF Ensure
      <4>2. current \in Int
        BY <1>1, <3>2
      <4> HIDE DEF current
      <4> QED
        BY <1>1, <3>1, <4>1, <4>2 DEF Prewarm
    <3> QED
      BY <3>3, <3>4
  <2> QED
    BY <1>1, <2>2, <2>4, <2>5 DEF SInv, Shape
<1>7. CASE MarkBroken(x)
  <2>1. /\ conns' = conns \ {cl[x].conn} /\ cl[x].conn \in conns
        /\ evicted' = [evicted EXCEPT ![x] = {cl[x].conn}]
        /\ UNCHANGED <<setup, seq, token, closed, creating, prewarm, pinging, cl>>
    BY <1>7 DEF MarkBroken
  <2>2. Known'
    BY <2>1 DEF SInv, Known
  <2> QED
    BY <1>1, <2>1, <2>2 DEF SInv, Shape, Prewarm
<1> QED
  BY <1>4, <1>5, <1>6, <1>7

LEMMA WorkerShape ==
  ASSUME SInv,
         \/ PrewarmDialled \/ PrewarmFails \/ PrewarmEnds \/ \E a \in Actors : CloseEvicted(a)
         \/ Ping \/ Pinged \/ PingFails \/ Cleanup
  PROVE  SInv'
<1>1. /\ cl \in [Clients -> Client] /\ token \in [Conns -> BOOLEAN]
      /\ creating \in Int /\ seq \in 0..MaxDials /\ setup \in Settings /\ prewarm \in Prewarm
      /\ conns \subseteq 1..seq /\ closed \subseteq 1..seq /\ pinging \subseteq 1..seq
      /\ evicted \in [Actors -> SUBSET (1..seq)]
  BY DEF SInv, Shape
<1>2. "prewarm" \in Actors /\ "pinger" \in Actors /\ "cleaner" \in Actors
  BY DEF Actors, Workers
<1>3. CASE PrewarmDialled
  <2>1. /\ seq' = seq + 1 /\ seq' \in 0..MaxDials /\ 1..seq \subseteq 1..seq'
        /\ seq' \in 1..seq' /\ seq' \in Conns
    BY <1>1, <1>3, Parameters DEF PrewarmDialled, Conns
  <2>2. /\ prewarm' = [prewarm EXCEPT !.left = @ - 1] /\ prewarm.left > 0
        /\ creating' = Fewer /\ token' = [token EXCEPT ![seq'] = TRUE]
        /\ conns' \subseteq conns \cup {seq'}
        /\ evicted' = evicted \/ evicted' = [evicted EXCEPT !["prewarm"] = {seq'}]
        /\ UNCHANGED <<setup, closed, pinging, cl>>
    BY <1>3 DEF PrewarmDialled
  <2>3. prewarm' \in Prewarm
    BY <1>1, <2>2 DEF Prewarm
  <2>4. creating' \in Int
    BY <1>1, <2>2 DEF Fewer
  <2>5. evicted' \in [Actors -> SUBSET (1..seq')]
    BY <1>1, <1>2, <2>1, <2>2
  <2>6. Known'
    BY <2>1, <2>2 DEF SInv, Known
  <2> QED
    BY <1>1, <2>1, <2>2, <2>3, <2>4, <2>5, <2>6 DEF SInv, Shape
<1>4. CASE PrewarmFails \/ PrewarmEnds
  <2>1. UNCHANGED <<setup, seq, conns, token, closed, pinging, evicted, cl>>
        /\ (creating' = Fewer \/ creating' = creating)
    BY <1>4 DEF PrewarmFails, PrewarmEnds
  <2>2. prewarm' \in Prewarm
    <3>1. CASE PrewarmFails
      <4>1. prewarm.left > 0 /\ prewarm' = [prewarm EXCEPT !.left = @ - 1]
        BY <3>1 DEF PrewarmFails
      <4> QED
        BY <1>1, <4>1 DEF Prewarm
    <3>2. CASE PrewarmEnds
      <4>1. prewarm' = [prewarm EXCEPT !.active = FALSE]
        BY <3>2 DEF PrewarmEnds
      <4> QED
        BY <1>1, <4>1 DEF Prewarm
    <3> QED
      BY <1>4, <3>1, <3>2
  <2>3. creating' \in Int
    BY <1>1, <2>1 DEF Fewer
  <2>4. Known'
    BY <2>1 DEF SInv, Known
  <2> QED
    BY <1>1, <2>1, <2>2, <2>3, <2>4 DEF SInv, Shape
<1>5. ASSUME NEW a \in Actors, CloseEvicted(a) PROVE SInv'
  <2>1. PICK c \in evicted[a] :
          /\ evicted' = [evicted EXCEPT ![a] = @ \ {c}]
          /\ closed' = closed \cup {c}
          /\ token' = [token EXCEPT ![c] = TRUE]
          /\ UNCHANGED <<setup, seq, conns, creating, prewarm, pinging, cl>>
    BY <1>5 DEF CloseEvicted
  <2>2. c \in 1..seq
    BY <1>1
  <2>3. Known'
    BY <2>1 DEF SInv, Known
  <2>4. evicted' \in [Actors -> SUBSET (1..seq)]
    BY <1>1, <2>1
  <2> QED
    BY <1>1, <2>1, <2>2, <2>3, <2>4 DEF SInv, Shape, Prewarm
<1>6. CASE Ping \/ Pinged
  <2>1. /\ pinging' \subseteq 1..seq
        /\ UNCHANGED <<setup, seq, conns, token, closed, creating, prewarm, evicted, cl>>
    BY <1>1, <1>6 DEF Ping, Pinged, Unused
  <2>2. Known'
    BY <2>1 DEF SInv, Known
  <2> QED
    BY <1>1, <2>1, <2>2 DEF SInv, Shape, Prewarm
<1>7. CASE PingFails
  <2>1. PICK c \in pinging :
          /\ pinging' = pinging \ {c}
          /\ conns' = conns \ {c}
          /\ evicted' = [evicted EXCEPT !["pinger"] = @ \cup ({c} \cap conns)]
          /\ UNCHANGED <<setup, seq, token, closed, creating, prewarm, cl>>
    BY <1>7 DEF PingFails
  <2>2. Known'
    BY <2>1 DEF SInv, Known
  <2>3. evicted' \in [Actors -> SUBSET (1..seq)]
    BY <1>1, <1>2, <2>1
  <2> QED
    BY <1>1, <2>1, <2>2, <2>3 DEF SInv, Shape, Prewarm
<1>8. CASE Cleanup
  <2>1. PICK gone \in SUBSET conns :
          /\ conns' = conns \ gone
          /\ evicted' = [evicted EXCEPT !["cleaner"] = gone]
          /\ UNCHANGED <<setup, seq, token, closed, creating, prewarm, pinging, cl>>
    BY <1>8 DEF Cleanup
  <2>2. Known'
    BY <2>1 DEF SInv, Known
  <2>3. evicted' \in [Actors -> SUBSET (1..seq)]
    BY <1>1, <1>2, <2>1
  <2> QED
    BY <1>1, <2>1, <2>2, <2>3 DEF SInv, Shape, Prewarm
<1> QED
  BY <1>3, <1>4, <1>5, <1>6, <1>7, <1>8

LEMMA ShapeStep == SInv /\ [Next]_vars => SInv'
<1> SUFFICES ASSUME SInv, [Next]_vars PROVE SInv'
  OBVIOUS
<1>1. CASE UNCHANGED vars
  BY <1>1 DEF vars, SInv, Shape, Known, Prewarm
<1>2. ASSUME NEW x \in setup.team,
             \/ Start(x) \/ Acquiring(x) \/ Wait(x) \/ WaitTimeout(x)
             \/ Grab(x) \/ GrabFails(x) \/ MarkBroken(x) \/ Release(x)
      PROVE  SInv'
  <2>1. x \in Clients
    BY Parameters DEF SInv, Shape
  <2> QED
    BY <1>2, <2>1, AcquireShape, ClientShape, DialShape DEF Acquiring
<1> QED
  BY <1>1, <1>2, WorkerShape DEF Next
-----------------------------------------------------------------------------
(* Exclusive leases.  Whoever keeps a connection has taken its token, and the *)
(* only other one there is came with the connection's closing.               *)
Keeping == {"check", "release", "ensure", "held"}
Keeps(x) == cl[x].pc \in Keeping

Lone == \A x, y \in Clients : Keeps(x) /\ Keeps(y) /\ cl[x].conn = cl[y].conn => x = y
Taken == \A x \in Clients : Keeps(x) => cl[x].conn \in closed \/ ~token[cl[x].conn]

LInv == SInv /\ Lone /\ Taken

(* A client's step keeps the leases apart when it puts back no other token    *)
(* than its own, and takes none that is not there.                           *)
LEMMA LeaseStep ==
  ASSUME LInv, NEW x \in Clients, NEW r \in Client, cl' = [cl EXCEPT ![x] = r],
         closed \subseteq closed',
         \A c \in 1..seq : token'[c] => \/ token[c] \/ c \in closed'
                                        \/ Keeps(x) /\ c = cl[x].conn /\ r.pc \notin Keeping,
         r.pc \in Keeping => \/ Keeps(x) /\ r.conn = cl[x].conn
                             \/ Acquirable(r.conn) /\ ~token'[r.conn]
  PROVE  Lone' /\ Taken'
<1>1. \A y \in Clients : cl'[y] = IF y = x THEN r ELSE cl[y]
  BY DEF LInv, SInv, Shape
<1>2. \A y \in Clients : Keeps(y) => cl[y].conn \in 1..seq
  BY DEF LInv, SInv, Known, Keeps, Keeping
<1>3. \A y \in Clients : Keeps(y) /\ Acquirable(cl[y].conn) => FALSE
  BY DEF LInv, Taken, Acquirable
<1>4. Lone'
  <2> SUFFICES ASSUME NEW y \in Clients, NEW z \in Clients, Keeps(y)', Keeps(z)',
                      cl'[y].conn = cl'[z].conn, y # z
               PROVE  FALSE
    BY DEF Lone
  <2>1. CASE y # x /\ z # x
    BY <1>1, <2>1 DEF LInv, Lone, Keeps
  <2>2. CASE y = x
    BY <1>1, <1>3, <2>2 DEF LInv, Lone, Keeps
  <2>3. CASE z = x
    BY <1>1, <1>3, <2>3 DEF LInv, Lone, Keeps
  <2> QED
    BY <2>1, <2>2, <2>3
<1>5. Taken'
  <2> SUFFICES ASSUME NEW y \in Clients, Keeps(y)', cl'[y].conn \notin closed'
               PROVE  ~token'[cl'[y].conn]
    BY DEF Taken
  <2>1. CASE y # x
    <3>1. cl'[y] = cl[y] /\ Keeps(y) /\ cl[y].conn \in 1..seq /\ cl[y].conn \notin closed
      BY <1>1, <1>2, <2>1 DEF Keeps
    <3>2. ~token[cl[y].conn]
      BY <3>1 DEF LInv, Taken
    <3>3. ~(Keeps(x) /\ cl[y].conn = cl[x].conn)
      BY <2>1, <3>1 DEF LInv, Lone
    <3> QED
      BY <3>1, <3>2, <3>3
  <2>2. CASE y = x
    <3>1. cl'[y] = r /\ r.pc \in Keeping
      BY <1>1, <2>2 DEF Keeps
    <3>2. CASE Acquirable(r.conn) /\ ~token'[r.conn]
      BY <3>1, <3>2
    <3>3. CASE Keeps(x) /\ r.conn = cl[x].conn
      <4>1. cl[x].conn \in 1..seq /\ cl[x].conn \notin closed
        BY <1>2, <3>1, <3>3
      <4>2. ~token[cl[x].conn]
        BY <3>3, <4>1 DEF LInv, Taken
      <4> QED
        BY <3>1, <3>3, <4>1, <4>2
    <3> QED
      BY <3>1, <3>2, <3>3
  <2> QED
    BY <2>1, <2>2
<1> QED
  BY <1>4, <1>5

(* The other steps only add tokens to what they close or have dialled.        *)
LEMMA OtherLeases ==
  ASSUME LInv, cl' = cl, closed \subseteq closed',
         \A c \in 1..seq : token'[c] => token[c] \/ c \in closed'
  PROVE  Lone' /\ Taken'
<1>1. \A y \in Clients : Keeps(y) => cl[y].conn \in 1..seq
  BY DEF LInv, SInv, Known, Keeps, Keeping
<1>2. Lone'
  BY DEF LInv, Lone, Keeps
<1>3. Taken'
  BY <1>1 DEF LInv, Taken, Keeps
<1> QED
  BY <1>2, <1>3

LEMMA RetryRecord ==
  ASSUME SInv, NEW x \in Clients, Finish(x) \/ Retry(x)
  PROVE  \E r \in Client : cl' = [cl EXCEPT ![x] = r] /\ r.pc \in {"idle", "pick"}
BY RetryStep, IdleClient DEF Finish, Set, Idle

LEMMA GoOnRecord ==
  ASSUME SInv, NEW x \in Clients, NEW next \in Pcs, GoOn(x, next)
  PROVE  \E r \in Client : cl' = [cl EXCEPT ![x] = r] /\ r.pc = next /\ r.conn = cl[x].conn
<1>1. cl[x] \in Client
  BY DEF SInv, Shape
<1> QED
  BY <1>1, WithPc DEF GoOn, Set

LEMMA AcquireLeases ==
  ASSUME LInv, NEW x \in Clients,
         \/ Start(x) \/ Reuse(x) \/ StartDial(x) \/ Queue(x) \/ Refuse(x)
         \/ WaitClosed(x) \/ WaitTimeout(x) \/ Wait(x) \/ Grab(x) \/ GrabWaits(x) \/ GrabFails(x)
  PROVE  Lone' /\ Taken'
<1>1. /\ SInv /\ cl[x] \in Client /\ token \in [Conns -> BOOLEAN] /\ conns \subseteq 1..seq
      /\ cl \in [Clients -> Client]
  BY DEF LInv, SInv, Shape
<1>2. 1..seq \subseteq Conns /\ 1..seq \subseteq 0..MaxDials
  BY <1>1, Parameters DEF SInv, Shape, Conns
(* Whoever does not keep a connection afterwards, and touches no token.       *)
<1>3. ASSUME NEW r \in Client, cl' = [cl EXCEPT ![x] = r], r.pc \notin Keeping,
             token' = token, closed' = closed
      PROVE  Lone' /\ Taken'
  BY <1>3, LeaseStep
(* Whoever takes a token that is there.                                      *)
<1>4. ASSUME NEW r \in Client, cl' = [cl EXCEPT ![x] = r], r.conn \in 1..seq,
             Acquirable(r.conn), token' = [token EXCEPT ![r.conn] = FALSE], closed' = closed
      PROVE  Lone' /\ Taken'
  <2>1. ~token'[r.conn] /\ \A c \in 1..seq : token'[c] => token[c]
    BY <1>1, <1>2, <1>4
  <2> QED
    BY <1>4, <2>1, LeaseStep
<1>5. CASE Reuse(x)
  <2>1. PICK gone \in SUBSET conns : \E c \in Reusable(x, conns \ gone) :
          /\ token' = [token EXCEPT ![c] = FALSE]
          /\ Set(x, [cl[x] EXCEPT !.pc = "check", !.conn = c])
    BY <1>5 DEF Reuse
  <2>2. PICK c \in Reusable(x, conns \ gone) :
          /\ token' = [token EXCEPT ![c] = FALSE]
          /\ Set(x, [cl[x] EXCEPT !.pc = "check", !.conn = c])
    BY <2>1
  <2>3. c \in 1..seq /\ Acquirable(c)
    BY <1>1, ReusableFree
  <2> DEFINE r == [cl[x] EXCEPT !.pc = "check", !.conn = c]
  <2>4. r \in Client /\ r.conn = c
    BY <1>1, <1>2, <2>3 DEF Client, Pcs
  <2>5. cl' = [cl EXCEPT ![x] = r] /\ closed' = closed
    BY <1>5, <2>2 DEF Reuse, Set, Locked
  <2> HIDE DEF r
  <2> QED
    BY <1>4, <2>2, <2>3, <2>4, <2>5
<1>6. CASE Wait(x) \/ Grab(x)
  <2>1. PICK next \in Pcs : GoOn(x, next)
    BY <1>6 DEF Wait, Grab, Pcs
  <2>2. /\ cl[x].conn \in 1..seq /\ Acquirable(cl[x].conn) /\ closed' = closed
        /\ token' = [token EXCEPT ![cl[x].conn] = FALSE]
    BY <1>1, <1>6 DEF Wait, Grab, SInv, Known
  <2>3. PICK r \in Client : cl' = [cl EXCEPT ![x] = r] /\ r.conn = cl[x].conn
    BY <1>1, <2>1, GoOnRecord
  <2> QED
    BY <1>4, <2>2, <2>3
<1>7. CASE StartDial(x) \/ GrabWaits(x)
  <2>1. PICK next \in Pcs \ Keeping : GoOn(x, next)
    BY <1>7 DEF StartDial, GrabWaits, Pcs, Keeping
  <2>2. token' = token /\ closed' = closed
    BY <1>7 DEF StartDial, GrabWaits, Locked
  <2>3. PICK r \in Client : cl' = [cl EXCEPT ![x] = r] /\ r.pc = next
    BY <1>1, <2>1, GoOnRecord
  <2> QED
    BY <1>3, <2>1, <2>2, <2>3
<1>8. CASE Refuse(x) \/ WaitClosed(x) \/ WaitTimeout(x)
  <2>1. Finish(x) \/ Retry(x)
    BY <1>8 DEF Refuse, WaitClosed, WaitTimeout
  <2>2. token' = token /\ closed' = closed
    BY <1>8 DEF Refuse, WaitClosed, WaitTimeout, Locked
  <2>3. PICK r \in Client : cl' = [cl EXCEPT ![x] = r] /\ r.pc \in {"idle", "pick"}
    BY <1>1, <2>1, RetryRecord
  <2> QED
    BY <1>3, <2>2, <2>3 DEF Keeping
<1>9. CASE Queue(x)
  <2>1. PICK gone \in SUBSET conns : \E c \in Targets(x, conns \ gone) :
          Set(x, [cl[x] EXCEPT !.pc = "wait", !.conn = c,
                               !.queued = [@ EXCEPT ![cl[x].retry] = c]])
    BY <1>9 DEF Queue
  <2>2. PICK c \in Targets(x, conns \ gone) :
          Set(x, [cl[x] EXCEPT !.pc = "wait", !.conn = c,
                               !.queued = [@ EXCEPT ![cl[x].retry] = c]])
    BY <2>1
  <2>3. c \in 0..MaxDials
    BY <1>1, <1>2, TargetsInPool
  <2> DEFINE r == [cl[x] EXCEPT !.pc = "wait", !.conn = c,
                                !.queued = [@ EXCEPT ![cl[x].retry] = c]]
  <2>4. r \in Client /\ r.pc = "wait"
    BY <1>1, <2>3, WithQueued
  <2>5. cl' = [cl EXCEPT ![x] = r] /\ token' = token /\ closed' = closed
    BY <1>9, <2>2 DEF Queue, Set, Locked
  <2> HIDE DEF r
  <2> QED
    BY <1>3, <2>4, <2>5 DEF Keeping
<1>10. CASE GrabFails(x)
  <2> DEFINE r == [cl[x] EXCEPT !.pc = "close", !.retry = 1]
  <2>1. r \in Client /\ r.pc = "close"
    BY <1>1, WithRetry
  <2>2. cl' = [cl EXCEPT ![x] = r] /\ token' = token /\ closed' = closed
    BY <1>10 DEF GrabFails, Set
  <2> HIDE DEF r
  <2> QED
    BY <1>3, <2>1, <2>2 DEF Keeping
<1>11. CASE Start(x)
  <2>1. PICK k \in setup.kinds, p \in 0..seq :
          Set(x, [Idle EXCEPT !.pc = "pick", !.kind = k, !.preferred = p])
    BY <1>11 DEF Start
  <2> DEFINE r == [Idle EXCEPT !.pc = "pick", !.kind = k, !.preferred = p]
  <2>2. r \in Client /\ r.pc = "pick"
    <3>1. p \in 0..MaxDials /\ k \in Kinds
      BY <1>1, Parameters DEF SInv, Shape
    <3> QED
      BY <3>1, IdleClient DEF Client, Pcs
  <2>3. cl' = [cl EXCEPT ![x] = r] /\ token' = token /\ closed' = closed
    BY <1>11, <2>1 DEF Start, Set
  <2> HIDE DEF r
  <2> QED
    BY <1>3, <2>2, <2>3 DEF Keeping
<1> QED
  BY <1>5, <1>6, <1>7, <1>8, <1>9, <1>10, <1>11
LEMMA HolderLeases ==
  ASSUME LInv, NEW x \in Clients,
         \/ Check(x) \/ ReleaseFailed(x) \/ CloseFailed(x) \/ EvictFailed(x) \/ Dialled(x)
         \/ DialFails(x) \/ Ensure(x) \/ MarkBroken(x) \/ Release(x)
  PROVE  Lone' /\ Taken'
<1>1. /\ SInv /\ cl[x] \in Client /\ token \in [Conns -> BOOLEAN] /\ closed \subseteq 1..seq
      /\ cl \in [Clients -> Client]
  BY DEF LInv, SInv, Shape
<1>2. 1..seq \subseteq Conns /\ 1..seq \subseteq 0..MaxDials
  BY <1>1, Parameters DEF SInv, Shape, Conns
<1>3. CASE Check(x)
  <2>1. PICK next \in Pcs : GoOn(x, next)
    BY <1>3 DEF Check, Pcs
  <2>2. PICK r \in Client : cl' = [cl EXCEPT ![x] = r] /\ r.conn = cl[x].conn
    BY <1>1, <2>1, GoOnRecord
  <2>3. Keeps(x) /\ token' = token /\ closed' = closed
    BY <1>3 DEF Check, Keeps, Keeping
  <2> QED
    BY <2>2, <2>3, LeaseStep
<1>4. CASE ReleaseFailed(x)
  <2>1. PICK r \in Client : cl' = [cl EXCEPT ![x] = r] /\ r.pc = "close"
    BY <1>1, <1>4, GoOnRecord DEF ReleaseFailed, Pcs
  <2>2. Keeps(x) /\ token' = [token EXCEPT ![cl[x].conn] = TRUE] /\ closed' = closed
    BY <1>4 DEF ReleaseFailed, Keeps, Keeping
  <2>3. \A c \in 1..seq : token'[c] => token[c] \/ c = cl[x].conn
    BY <1>1, <1>2, <2>2
  <2> QED
    BY <2>1, <2>2, <2>3, LeaseStep DEF Keeping
<1>5. CASE CloseFailed(x)
  <2>1. PICK r \in Client : cl' = [cl EXCEPT ![x] = r] /\ r.pc = "evict"
    BY <1>1, <1>5, GoOnRecord DEF CloseFailed, Pcs
  <2>2. token' = [token EXCEPT ![cl[x].conn] = TRUE] /\ closed' = closed \cup {cl[x].conn}
    BY <1>5 DEF CloseFailed
  <2>3. \A c \in 1..seq : token'[c] => token[c] \/ c \in closed'
    BY <1>1, <1>2, <2>2
  <2> QED
    BY <2>1, <2>2, <2>3, LeaseStep DEF Keeping
<1>6. CASE EvictFailed(x) \/ DialFails(x)
  <2>1. Finish(x) \/ Retry(x)
    BY <1>6 DEF EvictFailed, DialFails
  <2>2. token' = token /\ closed' = closed
    BY <1>6 DEF EvictFailed, DialFails
  <2>3. PICK r \in Client : cl' = [cl EXCEPT ![x] = r] /\ r.pc \in {"idle", "pick"}
    BY <1>1, <2>1, RetryRecord
  <2> QED
    BY <2>2, <2>3, LeaseStep DEF Keeping
<1>7. CASE Dialled(x)
  <2>1. seq' = seq + 1 /\ seq' \in 0..MaxDials /\ seq' \notin 1..seq
    BY <1>1, <1>7, Parameters DEF Dialled, SInv, Shape
  <2>2. PICK n \in 0..MaxDials : n = seq'
    BY <2>1
  <2> DEFINE r == [cl[x] EXCEPT !.pc = "grab", !.conn = n]
  <2>3. r \in Client /\ r.pc = "grab"
    BY <1>1 DEF Client, Pcs
  <2>4. /\ cl' = [cl EXCEPT ![x] = r] /\ closed' = closed
        /\ token' = [token EXCEPT ![seq'] = TRUE]
    BY <1>7, <2>2 DEF Dialled, Set
  <2>5. \A c \in 1..seq : token'[c] => token[c]
    BY <1>1, <1>2, <2>1, <2>4
  <2> HIDE DEF r
  <2> QED
    BY <2>3, <2>4, <2>5, LeaseStep DEF Keeping
<1>8. CASE Ensure(x)
  <2> DEFINE r == [Idle EXCEPT !.pc = "held", !.kind = cl[x].kind, !.conn = cl[x].conn]
  <2>1. r \in Client /\ r.conn = cl[x].conn
    BY <1>1, IdleClient DEF Client, Pcs
  <2>2. cl' = [cl EXCEPT ![x] = r] /\ token' = token /\ closed' = closed /\ Keeps(x)
    BY <1>8 DEF Ensure, Set, Keeps, Keeping
  <2> HIDE DEF r
  <2> QED
    BY <2>1, <2>2, LeaseStep
<1>9. CASE MarkBroken(x)
  BY <1>9, OtherLeases DEF MarkBroken
<1>10. CASE Release(x)
  <2>1. PICK r \in Client : cl' = [cl EXCEPT ![x] = r] /\ r.pc \in {"idle", "pick"}
    BY <1>1, <1>10, RetryRecord DEF Release
  <2>2. Keeps(x) /\ token' = [token EXCEPT ![cl[x].conn] = TRUE] /\ closed' = closed
    BY <1>10 DEF Release, Keeps, Keeping
  <2>3. \A c \in 1..seq : token'[c] => token[c] \/ c = cl[x].conn
    BY <1>1, <1>2, <2>2
  <2> QED
    BY <2>1, <2>2, <2>3, LeaseStep DEF Keeping
<1> QED
  BY <1>3, <1>4, <1>5, <1>6, <1>7, <1>8, <1>9, <1>10

LEMMA WorkerLeases ==
  ASSUME LInv,
         \/ PrewarmDialled \/ PrewarmFails \/ PrewarmEnds \/ \E a \in Actors : CloseEvicted(a)
         \/ Ping \/ Pinged \/ PingFails \/ Cleanup
  PROVE  Lone' /\ Taken'
<1>1. /\ SInv /\ token \in [Conns -> BOOLEAN] /\ evicted \in [Actors -> SUBSET (1..seq)]
      /\ 1..seq \subseteq Conns
  BY Parameters DEF LInv, SInv, Shape, Conns
<1>2. CASE PrewarmDialled
  <2>1. seq' \notin 1..seq
    BY <1>1, <1>2, Parameters DEF PrewarmDialled, SInv, Shape
  <2>2. cl' = cl /\ closed' = closed /\ token' = [token EXCEPT ![seq'] = TRUE]
    BY <1>2 DEF PrewarmDialled
  <2>3. \A c \in 1..seq : token'[c] => token[c]
    BY <1>1, <2>1, <2>2
  <2> QED
    BY <2>2, <2>3, OtherLeases
<1>3. ASSUME NEW a \in Actors, CloseEvicted(a) PROVE Lone' /\ Taken'
  <2>1. PICK c \in evicted[a] :
          cl' = cl /\ closed' = closed \cup {c} /\ token' = [token EXCEPT ![c] = TRUE]
    BY <1>3 DEF CloseEvicted
  <2>2. \A d \in 1..seq : token'[d] => token[d] \/ d \in closed'
    BY <1>1, <2>1
  <2> QED
    BY <2>1, <2>2, OtherLeases
<1>4. CASE PrewarmFails \/ PrewarmEnds \/ Ping \/ Pinged \/ PingFails \/ Cleanup
  <2>1. cl' = cl /\ closed' = closed /\ token' = token
    BY <1>4 DEF PrewarmFails, PrewarmEnds, Ping, Pinged, PingFails, Cleanup
  <2> QED
    BY <2>1, OtherLeases
<1> QED
  BY <1>2, <1>3, <1>4

LEMMA LeasesStep == LInv /\ [Next]_vars => LInv'
<1> SUFFICES ASSUME LInv, [Next]_vars PROVE LInv'
  OBVIOUS
<1>1. SInv'
  BY ShapeStep DEF LInv
<1>2. CASE UNCHANGED vars
  BY <1>1, <1>2, OtherLeases DEF vars, LInv
<1>3. ASSUME NEW x \in setup.team,
             \/ Start(x) \/ Acquiring(x) \/ Wait(x) \/ WaitTimeout(x)
             \/ Grab(x) \/ GrabFails(x) \/ MarkBroken(x) \/ Release(x)
      PROVE  Lone' /\ Taken'
  <2>1. x \in Clients
    BY Parameters DEF LInv, SInv, Shape
  <2> QED
    BY <1>3, <2>1, AcquireLeases, HolderLeases DEF Acquiring
<1> QED
  BY <1>1, <1>2, <1>3, WorkerLeases DEF Next, LInv

(* Two requests never lease the same connection.                             *)
THEOREM LeasesExclusive == Spec => []ExclusiveLease
<1>1. Init => LInv
  BY ShapeInit DEF Init, LInv, Lone, Taken, Keeps, Keeping, Idle
<1>2. LInv => ExclusiveLease
  BY DEF LInv, Lone, Keeps, Keeping, ExclusiveLease, Holds
<1> QED
  BY <1>1, <1>2, LeasesStep, PTL DEF Spec

-----------------------------------------------------------------------------
(* No connection is forgotten.                                               *)
EvictsClosed == \A x \in Clients : cl[x].pc = "evict" => cl[x].conn \in closed

NInv == SInv /\ EvictsClosed /\ NoneForgotten

(* What may happen to a connection that is neither closed nor new.            *)
LEMMA Remembered ==
  ASSUME NoneForgotten, closed \subseteq closed',
         \A c \in 1..seq' : c \in 1..seq \/ c \in conns' \/ \E a \in Actors : c \in evicted'[a],
         \A c \in conns : c \in conns' \/ c \in closed' \/ \E a \in Actors : c \in evicted'[a],
         \A a \in Actors : \A c \in evicted[a] : c \in closed' \/ c \in evicted'[a]
  PROVE  NoneForgotten'
<1> SUFFICES ASSUME NEW c \in 1..seq', c \notin closed', c \notin conns'
             PROVE  \E a \in Actors : c \in evicted'[a]
  BY DEF NoneForgotten
<1>1. CASE c \in 1..seq
  <2>1. c \notin closed
    OBVIOUS
  <2>2. CASE c \in conns
    BY <2>2
  <2>3. CASE c \notin conns
    <3>1. PICK a \in Actors : c \in evicted[a]
      BY <1>1, <2>1, <2>3 DEF NoneForgotten
    <3> QED
      BY <3>1
  <2> QED
    BY <2>2, <2>3
<1> QED
  BY <1>1
(* Where the map and what is being closed stay the same, or lose what is closed. *)
LEMMA SameMap ==
  ASSUME NInv, closed \subseteq closed', seq' = seq, evicted' = evicted,
         conns' = conns \/ \E c \in closed : conns' = conns \ {c}
  PROVE  NoneForgotten'
<1>1. \A c \in 1..seq' : c \in 1..seq
  OBVIOUS
<1>2. \A c \in conns : c \in conns' \/ c \in closed'
  OBVIOUS
<1> QED
  BY <1>1, <1>2, Remembered DEF NInv

(* Where connections are taken out of the map by somebody who will close them. *)
LEMMA Handed ==
  ASSUME NInv, closed' = closed, seq' = seq, NEW gone, NEW a \in Actors, conns' = conns \ gone,
         \/ evicted[a] = {} /\ evicted' = [evicted EXCEPT ![a] = gone]
         \/ evicted' = [evicted EXCEPT ![a] = @ \cup (gone \cap conns)]
  PROVE  NoneForgotten'
<1>1. evicted \in [Actors -> SUBSET (1..seq)]
  BY DEF NInv, SInv, Shape
<1>2. \A c \in 1..seq' : c \in 1..seq
  OBVIOUS
<1>3. \A c \in conns : c \in conns' \/ c \in evicted'[a]
  BY <1>1
<1>4. \A b \in Actors : \A c \in evicted[b] : c \in evicted'[b]
  BY <1>1
<1> QED
  BY <1>2, <1>3, <1>4, Remembered DEF NInv

LEMMA EvictsStep ==
  ASSUME NInv, NEW x \in Clients, NEW r \in Client, cl' = [cl EXCEPT ![x] = r],
         closed \subseteq closed', r.pc = "evict" => r.conn \in closed'
  PROVE  EvictsClosed'
BY DEF NInv, SInv, Shape, EvictsClosed

LEMMA PickRecord ==
  ASSUME SInv, NEW x \in Clients, Reuse(x) \/ Queue(x)
  PROVE  /\ cl'[x].pc \in {"check", "wait"}
         /\ \A y \in Clients : y # x => cl'[y] = cl[y]
<1>1. cl \in [Clients -> Client] /\ cl[x] \in Client
  BY DEF SInv, Shape
<1>2. CASE Reuse(x)
  <2>1. PICK c : cl' = [cl EXCEPT ![x] = [cl[x] EXCEPT !.pc = "check", !.conn = c]]
    BY <1>2 DEF Reuse, Set
  <2>2. [cl[x] EXCEPT !.pc = "check", !.conn = c].pc = "check"
    BY <1>1 DEF Client
  <2> QED
    BY <1>1, <2>1, <2>2
<1>3. CASE Queue(x)
  <2>1. PICK c : cl' = [cl EXCEPT ![x] =
                          [cl[x] EXCEPT !.pc = "wait", !.conn = c,
                                        !.queued = [@ EXCEPT ![cl[x].retry] = c]]]
    BY <1>3 DEF Queue, Set
  <2>2. [cl[x] EXCEPT !.pc = "wait", !.conn = c,
                      !.queued = [@ EXCEPT ![cl[x].retry] = c]].pc = "wait"
    BY <1>1 DEF Client
  <2> QED
    BY <1>1, <2>1, <2>2
<1> QED
  BY <1>2, <1>3

LEMMA PickRemembers ==
  ASSUME NInv, NEW x \in Clients, Reuse(x) \/ StartDial(x) \/ Queue(x) \/ Refuse(x)
  PROVE  EvictsClosed' /\ NoneForgotten'
<1>1. SInv /\ cl[x] \in Client /\ x \in Actors
  BY DEF NInv, SInv, Shape, Actors
<1>2. PICK gone \in SUBSET conns : Locked(x, gone)
  <2>1. CASE Reuse(x) \/ Queue(x)
    BY <2>1 DEF Reuse, Queue
  <2>2. CASE StartDial(x) \/ Refuse(x)
    <3>1. PICK g \in SUBSET conns : \E v \in Victims(x, conns \ g) : Locked(x, g \cup v)
      BY <2>2 DEF StartDial, Refuse
    <3>2. PICK v \in Victims(x, conns \ g) : Locked(x, g \cup v)
      BY <3>1
    <3>3. g \cup v \in SUBSET conns
      BY VictimsInPool
    <3> QED
      BY <3>2, <3>3
  <2> QED
    BY <2>1, <2>2
<1>3. NoneForgotten'
  BY <1>1, <1>2, LockedStep, Handed
<1>4. closed' = closed
  BY <1>1, <1>2, LockedStep
<1>5. EvictsClosed'
  <2>1. CASE StartDial(x)
    <3>1. PICK r \in Client : cl' = [cl EXCEPT ![x] = r] /\ r.pc = "dial"
      BY <1>1, <2>1, GoOnRecord DEF StartDial, Pcs
    <3> QED
      BY <1>4, <3>1, EvictsStep
  <2>2. CASE Refuse(x)
    <3>1. PICK r \in Client : cl' = [cl EXCEPT ![x] = r] /\ r.pc \in {"idle", "pick"}
      BY <1>1, <2>2, RetryRecord DEF Refuse
    <3> QED
      BY <1>4, <3>1, EvictsStep
  <2>3. CASE Reuse(x) \/ Queue(x)
    <3>1. cl'[x].pc \in {"check", "wait"} /\ \A y \in Clients : y # x => cl'[y] = cl[y]
      BY <1>1, <2>3, PickRecord
    <3> QED
      BY <1>4, <3>1 DEF NInv, EvictsClosed
  <2> QED
    BY <2>1, <2>2, <2>3
<1> QED
  BY <1>3, <1>5

LEMMA ClientRemembers ==
  ASSUME NInv, NEW x \in Clients,
         \/ Start(x) \/ WaitClosed(x) \/ WaitTimeout(x) \/ Wait(x) \/ Grab(x) \/ GrabWaits(x)
         \/ GrabFails(x) \/ Check(x) \/ ReleaseFailed(x) \/ CloseFailed(x) \/ EvictFailed(x)
         \/ Dialled(x) \/ DialFails(x) \/ Ensure(x) \/ MarkBroken(x) \/ Release(x)
  PROVE  EvictsClosed' /\ NoneForgotten'
<1>1. SInv /\ cl[x] \in Client /\ x \in Actors /\ cl \in [Clients -> Client]
  BY DEF NInv, SInv, Shape, Actors
<1>2. CASE MarkBroken(x)
  BY <1>1, <1>2, Handed DEF MarkBroken, NInv, EvictsClosed
<1>3. CASE WaitClosed(x) \/ WaitTimeout(x) \/ EvictFailed(x) \/ DialFails(x) \/ Release(x)
  <2>1. Finish(x) \/ Retry(x)
    BY <1>3 DEF WaitClosed, WaitTimeout, EvictFailed, DialFails, Release
  <2>2. /\ seq' = seq /\ closed' = closed /\ evicted' = evicted
        /\ conns' = conns \/ \E c \in closed : conns' = conns \ {c}
    BY <1>3 DEF WaitClosed, WaitTimeout, EvictFailed, DialFails, Release, NInv, EvictsClosed
  <2>3. PICK r \in Client : cl' = [cl EXCEPT ![x] = r] /\ r.pc \in {"idle", "pick"}
    BY <1>1, <2>1, RetryRecord
  <2> QED
    BY <2>2, <2>3, SameMap, EvictsStep
<1>4. CASE Wait(x) \/ Grab(x) \/ GrabWaits(x) \/ Check(x) \/ ReleaseFailed(x)
  <2>1. PICK next \in Pcs \ {"evict"} : GoOn(x, next)
    BY <1>4 DEF Wait, Grab, GrabWaits, Check, ReleaseFailed, Pcs
  <2>2. UNCHANGED <<seq, conns, closed, evicted>>
    BY <1>4 DEF Wait, Grab, GrabWaits, Check, ReleaseFailed
  <2>3. PICK r \in Client : cl' = [cl EXCEPT ![x] = r] /\ r.pc = next
    BY <1>1, <2>1, GoOnRecord
  <2> QED
    BY <2>1, <2>2, <2>3, SameMap, EvictsStep
<1>5. CASE CloseFailed(x)
  <2>1. PICK r \in Client : cl' = [cl EXCEPT ![x] = r] /\ r.conn = cl[x].conn
    BY <1>1, <1>5, GoOnRecord DEF CloseFailed, Pcs
  <2>2. closed' = closed \cup {cl[x].conn} /\ UNCHANGED <<seq, conns, evicted>>
    BY <1>5 DEF CloseFailed
  <2> QED
    BY <2>1, <2>2, SameMap, EvictsStep
<1>6. CASE GrabFails(x)
  <2> DEFINE r == [cl[x] EXCEPT !.pc = "close", !.retry = 1]
  <2>1. r \in Client /\ r.pc = "close"
    BY <1>1, WithRetry
  <2>2. cl' = [cl EXCEPT ![x] = r] /\ UNCHANGED <<seq, conns, closed, evicted>>
    BY <1>6 DEF GrabFails, Set
  <2> HIDE DEF r
  <2> QED
    BY <2>1, <2>2, SameMap, EvictsStep
<1>7. CASE Start(x) \/ Ensure(x)
  <2>1. \A y \in Clients : y # x => cl'[y] = cl[y]
    BY <1>1, <1>7 DEF Start, Ensure, Set
  <2>2. cl'[x].pc \in {"pick", "held"}
    <3>1. CASE Start(x)
      <4>1. PICK k, p : cl' = [cl EXCEPT ![x] = [Idle EXCEPT !.pc = "pick", !.kind = k,
                                                            !.preferred = p]]
        BY <3>1 DEF Start, Set
      <4> QED
        BY <1>1, <4>1 DEF Idle
    <3>2. CASE Ensure(x)
      BY <1>1, <3>2 DEF Ensure, Set, Idle
    <3> QED
      BY <1>7, <3>1, <3>2
  <2>3. UNCHANGED <<seq, conns, closed, evicted>>
    BY <1>7 DEF Start, Ensure
  <2> QED
    BY <2>1, <2>2, <2>3, SameMap DEF NInv, EvictsClosed
<1>8. CASE Dialled(x)
  <2>1. seq' = seq + 1 /\ conns' = conns \cup {seq'} /\ UNCHANGED <<closed, evicted>>
    BY <1>8 DEF Dialled
  <2>2. \A c \in 1..seq' : c \in 1..seq \/ c \in conns'
    BY <1>1, <2>1, Parameters DEF SInv, Shape
  <2>3. \A y \in Clients : y # x => cl'[y] = cl[y]
    BY <1>1, <1>8 DEF Dialled, Set
  <2>4. cl'[x].pc = "grab"
    BY <1>1, <1>8 DEF Dialled, Set, Client
  <2>5. NoneForgotten'
    BY <2>1, <2>2, Remembered DEF NInv
  <2> QED
    BY <2>1, <2>3, <2>4, <2>5 DEF NInv, EvictsClosed
<1> QED
  BY <1>2, <1>3, <1>4, <1>5, <1>6, <1>7, <1>8

LEMMA WorkerRemembers ==
  ASSUME NInv,
         \/ PrewarmDialled \/ PrewarmFails \/ PrewarmEnds \/ \E a \in Actors : CloseEvicted(a)
         \/ Ping \/ Pinged \/ PingFails \/ Cleanup
  PROVE  EvictsClosed' /\ NoneForgotten'
<1>1. /\ SInv /\ evicted \in [Actors -> SUBSET (1..seq)] /\ seq \in Nat
      /\ "prewarm" \in Actors /\ "pinger" \in Actors /\ "cleaner" \in Actors
  BY Parameters DEF NInv, SInv, Shape, Actors, Workers
<1>2. cl' = cl /\ closed \subseteq closed'
  BY DEF PrewarmDialled, PrewarmFails, PrewarmEnds, CloseEvicted, Ping, Pinged, PingFails, Cleanup
<1>3. EvictsClosed'
  BY <1>2 DEF NInv, EvictsClosed
<1>4. CASE PrewarmDialled
  <2>1. /\ seq' = seq + 1 /\ closed' = closed /\ evicted["prewarm"] = {}
        /\ \/ evicted' = [evicted EXCEPT !["prewarm"] = {seq'}] /\ conns' = conns
           \/ evicted' = evicted /\ conns' = conns \cup {seq'}
    BY <1>4 DEF PrewarmDialled
  <2>2. \A c \in 1..seq' : c \in 1..seq \/ c = seq'
    BY <1>1, <2>1
  <2>3. seq' \in conns' \/ seq' \in evicted'["prewarm"]
    BY <1>1, <2>1
  <2>4. \A a \in Actors : \A c \in evicted[a] : c \in evicted'[a]
    BY <1>1, <2>1
  <2>5. \A c \in conns : c \in conns'
    BY <2>1
  <2>6. \A c \in 1..seq' : c \in 1..seq \/ c \in conns' \/ \E a \in Actors : c \in evicted'[a]
    BY <1>1, <2>2, <2>3
  <2> QED
    BY <1>2, <1>3, <2>4, <2>5, <2>6, Remembered DEF NInv
<1>5. ASSUME NEW a \in Actors, CloseEvicted(a) PROVE NoneForgotten'
  <2>1. PICK c \in evicted[a] :
          /\ evicted' = [evicted EXCEPT ![a] = @ \ {c}] /\ closed' = closed \cup {c}
          /\ UNCHANGED <<seq, conns>>
    BY <1>5 DEF CloseEvicted
  <2>2. \A b \in Actors : \A d \in evicted[b] : d \in closed' \/ d \in evicted'[b]
    BY <1>1, <2>1
  <2> QED
    BY <2>1, <2>2, Remembered DEF NInv
<1>6. CASE PingFails
  <2>1. PICK c \in pinging :
          /\ conns' = conns \ {c} /\ UNCHANGED <<seq, closed>>
          /\ evicted' = [evicted EXCEPT !["pinger"] = @ \cup ({c} \cap conns)]
    BY <1>6 DEF PingFails
  <2> QED
    BY <1>3, <1>1, <2>1, Handed
<1>7. CASE Cleanup
  <2>1. PICK gone \in SUBSET conns :
          /\ conns' = conns \ gone /\ UNCHANGED <<seq, closed>> /\ evicted["cleaner"] = {}
          /\ evicted' = [evicted EXCEPT !["cleaner"] = gone]
    BY <1>7 DEF Cleanup
  <2> QED
    BY <1>3, <1>1, <2>1, Handed
<1>8. CASE PrewarmFails \/ PrewarmEnds \/ Ping \/ Pinged
  <2>1. UNCHANGED <<seq, conns, closed, evicted>>
    BY <1>8 DEF PrewarmFails, PrewarmEnds, Ping, Pinged
  <2> QED
    BY <1>3, <2>1, SameMap
<1> QED
  BY <1>3, <1>4, <1>5, <1>6, <1>7, <1>8

LEMMA RemembersStep == NInv /\ [Next]_vars => NInv'
<1> SUFFICES ASSUME NInv, [Next]_vars PROVE NInv'
  OBVIOUS
<1>1. SInv'
  BY ShapeStep DEF NInv
<1>2. CASE UNCHANGED vars
  BY <1>1, <1>2, SameMap DEF vars, NInv, EvictsClosed
<1>3. ASSUME NEW x \in setup.team,
             \/ Start(x) \/ Acquiring(x) \/ Wait(x) \/ WaitTimeout(x)
             \/ Grab(x) \/ GrabFails(x) \/ MarkBroken(x) \/ Release(x)
      PROVE  EvictsClosed' /\ NoneForgotten'
  <2>1. x \in Clients
    BY Parameters DEF NInv, SInv, Shape
  <2> QED
    BY <1>3, <2>1, PickRemembers, ClientRemembers DEF Acquiring
<1> QED
  BY <1>1, <1>2, <1>3, WorkerRemembers DEF Next, NInv

(* A connection that has left the map is closed or about to be.               *)
THEOREM ConnectionsRemembered == Spec => []NoneForgotten
<1>1. Init => NInv
  <2> SUFFICES ASSUME Init PROVE NInv
    OBVIOUS
  <2>1. seq = 0
    BY DEF Init
  <2> QED
    BY <2>1, ShapeInit DEF Init, NInv, EvictsClosed, NoneForgotten, Idle
<1> QED
  BY <1>1, RemembersStep, PTL DEF Spec, NInv

(***************************************************************************)
(* The limit.  What is being dialled is counted once, for a request or for *)
(* the prewarming, whose count is nought when it is not active.            *)
(***************************************************************************)
Dialling == {x \in Clients : cl[x].pc = "dial"}

WInv == SInv /\ (~prewarm.active => prewarm.left = 0) /\ WithinLimit

LEMMA Counted ==
  ASSUME WInv
  PROVE  /\ SInv /\ creating \in Int /\ prewarm \in Prewarm /\ MaxConns \in Nat
         /\ IsFiniteSet(conns) /\ Cardinality(conns) \in Nat
         /\ IsFiniteSet(Dialling) /\ Cardinality(Dialling) \in Nat
         /\ Cardinality(conns) + creating <= MaxConns
         /\ creating = prewarm.left + Cardinality(Dialling)
         /\ ~prewarm.active => prewarm.left = 0
<1>1. SInv /\ creating \in Int /\ prewarm \in Prewarm /\ MaxConns \in Nat
  BY Parameters DEF WInv, SInv, Shape
<1>2. IsFiniteSet(Dialling) /\ Cardinality(Dialling) \in Nat
  <2>1. Dialling \in SUBSET Clients
    BY DEF Dialling
  <2> QED
    BY <2>1, OpenAIWSPoolAssumption, FS_Subset, FS_CardinalityType
<1> QED
  BY <1>1, <1>2, FiniteConns DEF WInv, WithinLimit, Dialling

LEMMA NewConn ==
  ASSUME SInv
  PROVE  Cardinality(conns \cup {seq + 1}) = Cardinality(conns) + 1
<1>1. seq + 1 \notin conns
  BY Parameters DEF SInv, Shape
<1> QED
  BY <1>1, FiniteConns, FS_AddElement

(* Steps that dial nothing.                                                  *)
LEMMA LimitKept ==
  ASSUME WInv, SInv', setup' = setup, prewarm' = prewarm, creating' = creating,
         conns' \subseteq conns, Dialling' = Dialling
  PROVE  WInv'
<1>1. Cardinality(conns') <= Cardinality(conns) /\ Cardinality(conns') \in Nat
  BY Counted, FS_Subset, FS_CardinalityType
<1>2. MaxConns' = MaxConns
  BY DEF MaxConns
<1>3. Cardinality(conns') + creating' <= MaxConns'
  BY <1>1, <1>2, Counted
<1>4. creating' = prewarm'.left + Cardinality(Dialling')
  BY Counted
<1> QED
  BY <1>3, <1>4 DEF WInv, WithinLimit, Dialling

LEMMA SameDialling ==
  ASSUME NEW x \in Clients, \A y \in Clients : y # x => cl'[y] = cl[y],
         cl[x].pc # "dial", cl'[x].pc # "dial"
  PROVE  Dialling' = Dialling
BY DEF Dialling

LEMMA DialStarts ==
  ASSUME WInv, SInv', NEW x \in Clients, StartDial(x)
  PROVE  WInv'
<1>1. cl \in [Clients -> Client] /\ SInv
  BY DEF WInv, SInv, Shape
<1>12. PICK gone \in SUBSET conns : \E v \in Victims(x, conns \ gone) :
         ~Full((conns \ gone) \ v) /\ Locked(x, gone \cup v)
  BY DEF StartDial
<1>2. PICK v \in Victims(x, conns \ gone) :
        ~Full((conns \ gone) \ v) /\ Locked(x, gone \cup v)
  BY <1>12
<1>3. creating' = creating + 1 /\ GoOn(x, "dial")
  BY DEF StartDial
<1>4. gone \cup v \in SUBSET conns
  BY <1>2, VictimsInPool
<1>5. /\ cl[x].pc = "pick" /\ conns' = (conns \ gone) \ v
      /\ setup' = setup /\ prewarm' = prewarm
  BY <1>1, <1>2, <1>4, LockedStep
<1>6. Cardinality(conns') \in Nat
  BY <1>4, <1>5, Counted, FS_Subset, FS_CardinalityType
<1>7. Cardinality(conns') + creating' <= MaxConns
  BY <1>2, <1>3, <1>5, <1>6, Counted DEF Full
<1>8. Dialling' = Dialling \cup {x} /\ x \notin Dialling
  <2>1. PICK r \in Client : cl' = [cl EXCEPT ![x] = r] /\ r.pc = "dial"
    BY <1>1, <1>3, GoOnRecord DEF Pcs
  <2> QED
    BY <1>1, <1>5, <2>1 DEF Dialling
<1>9. Cardinality(Dialling') = Cardinality(Dialling) + 1
  BY <1>8, Counted, FS_AddElement
<1>10. creating' = prewarm'.left + Cardinality(Dialling')
  BY <1>3, <1>5, <1>9, Counted DEF Prewarm
<1>11. MaxConns' = MaxConns
  BY <1>5 DEF MaxConns
<1> QED
  BY <1>5, <1>7, <1>10, <1>11, Counted DEF WInv, WithinLimit, Dialling

LEMMA DialEnds ==
  ASSUME WInv, SInv', NEW x \in Clients, Dialled(x) \/ DialFails(x)
  PROVE  WInv'
<1>1. cl \in [Clients -> Client] /\ SInv
  BY DEF WInv, SInv, Shape
<1>2. /\ cl[x].pc = "dial" /\ creating' = creating - 1
      /\ setup' = setup /\ prewarm' = prewarm
      /\ conns' = conns \/ conns' = conns \cup {seq + 1}
  BY DEF Dialled, DialFails
<1>3. Cardinality(conns') + creating' <= MaxConns
  <2>1. Cardinality(conns') = Cardinality(conns) \/ Cardinality(conns') = Cardinality(conns) + 1
    BY <1>1, <1>2, NewConn
  <2> QED
    BY <1>2, <2>1, Counted
<1>4. Dialling' = Dialling \ {x} /\ x \in Dialling
  <2>1. \A y \in Clients : y # x => cl'[y] = cl[y]
    BY <1>1 DEF Dialled, DialFails, Finish, Set
  <2>2. cl'[x].pc # "dial"
    <3>1. CASE Dialled(x)
      <4>1. cl'[x] = [cl[x] EXCEPT !.pc = "grab", !.conn = seq']
        BY <1>1, <3>1 DEF Dialled, Set
      <4> QED
        BY <1>1, <4>1 DEF Client
    <3>2. CASE DialFails(x)
      BY <1>1, <3>2 DEF DialFails, Finish, Set, Idle
    <3> QED
      BY <3>1, <3>2
  <2> QED
    BY <1>2, <2>1, <2>2 DEF Dialling
<1>5. Cardinality(Dialling') = Cardinality(Dialling) - 1
  BY <1>4, Counted, FS_RemoveElement
<1>6. creating' = prewarm'.left + Cardinality(Dialling')
  BY <1>2, <1>5, Counted DEF Prewarm
<1>7. MaxConns' = MaxConns
  BY <1>2 DEF MaxConns
<1> QED
  BY <1>2, <1>3, <1>6, <1>7, Counted DEF WInv, WithinLimit, Dialling

LEMMA EnsureKeeps ==
  ASSUME WInv, SInv', NEW x \in Clients, Ensure(x)
  PROVE  WInv'
<1>1. cl \in [Clients -> Client] /\ SInv
  BY DEF WInv, SInv, Shape
<1>2. setup' = setup /\ conns' = conns /\ cl[x].pc = "ensure"
  BY DEF Ensure
<1>3. Dialling' = Dialling
  <2>1. cl' = [cl EXCEPT ![x] = [Idle EXCEPT !.pc = "held", !.kind = cl[x].kind, !.conn = cl[x].conn]]
    BY DEF Ensure, Set
  <2>2. [Idle EXCEPT !.pc = "held", !.kind = cl[x].kind, !.conn = cl[x].conn].pc = "held"
    BY DEF Idle
  <2> QED
    BY <1>1, <1>2, <2>1, <2>2, SameDialling
<1>4. CASE UNCHANGED <<creating, prewarm>>
  BY <1>2, <1>3, <1>4, LimitKept
<1>5. CASE ~UNCHANGED <<creating, prewarm>>
  <2> DEFINE T == TargetCount
  <2> DEFINE n == T - (Cardinality(conns) + creating)
  <2>1. /\ ~prewarm.active /\ Cardinality(conns) + creating < T
        /\ creating' = creating + n /\ prewarm' = [active |-> TRUE, left |-> n]
    BY <1>5 DEF Ensure
  <2>2. T \in Nat /\ T <= MaxConns
    BY <1>1, TargetBound
  <2> HIDE DEF T
  <2>3. Cardinality(conns') + creating' <= MaxConns
    BY <1>2, <2>1, <2>2, Counted
  <2>4. creating' = prewarm'.left + Cardinality(Dialling')
    BY <1>3, <2>1, <2>2, Counted
  <2>5. MaxConns' = MaxConns
    BY <1>2 DEF MaxConns
  <2> QED
    BY <2>1, <2>3, <2>4, <2>5 DEF WInv, WithinLimit, Dialling
<1> QED
  BY <1>4, <1>5

LEMMA PrewarmKeeps ==
  ASSUME WInv, SInv', PrewarmDialled \/ PrewarmFails \/ PrewarmEnds
  PROVE  WInv'
<1>1. setup' = setup /\ cl' = cl
  BY DEF PrewarmDialled, PrewarmFails, PrewarmEnds
<1>2. Dialling' = Dialling /\ MaxConns' = MaxConns
  BY <1>1 DEF Dialling, MaxConns
<1>3. CASE PrewarmDialled \/ PrewarmFails
  <2>1. /\ prewarm.left > 0 /\ creating' = Fewer
        /\ prewarm' = [prewarm EXCEPT !.left = @ - 1]
    BY <1>3 DEF PrewarmDialled, PrewarmFails
  <2>2. conns' = conns \/ conns' = conns \cup {seq + 1}
    BY <1>3 DEF PrewarmDialled, PrewarmFails
  <2>3. creating' = creating - 1
    BY <2>1, Counted DEF Fewer, Prewarm
  <2>4. prewarm'.left = prewarm.left - 1 /\ prewarm'.active = prewarm.active
    BY <2>1, Counted DEF Prewarm
  <2>5. Cardinality(conns') = Cardinality(conns) \/ Cardinality(conns') = Cardinality(conns) + 1
    BY <2>2, Counted, NewConn
  <2>6. Cardinality(conns') + creating' <= MaxConns'
    BY <1>2, <2>3, <2>5, Counted
  <2>7. creating' = prewarm'.left + Cardinality(Dialling')
    BY <1>2, <2>3, <2>4, Counted DEF Prewarm
  <2>8. prewarm.active
    BY <2>1, Counted
  <2> QED
    BY <2>4, <2>6, <2>7, <2>8 DEF WInv, WithinLimit, Dialling
<1>4. CASE PrewarmEnds
  <2>1. /\ prewarm.left = 0 /\ prewarm' = [prewarm EXCEPT !.active = FALSE]
        /\ creating' = creating /\ conns' = conns
    BY <1>4 DEF PrewarmEnds
  <2>2. prewarm'.left = 0
    BY <2>1, Counted DEF Prewarm
  <2>3. Cardinality(conns') + creating' <= MaxConns'
    BY <1>2, <2>1, Counted
  <2>4. creating' = prewarm'.left + Cardinality(Dialling')
    BY <1>2, <2>1, <2>2, Counted
  <2> QED
    BY <2>2, <2>3, <2>4 DEF WInv, WithinLimit, Dialling
<1> QED
  BY <1>3, <1>4

LEMMA ClientKeeps ==
  ASSUME WInv, SInv', NEW x \in Clients,
         \/ Start(x) \/ Reuse(x) \/ Queue(x) \/ Refuse(x) \/ WaitClosed(x) \/ WaitTimeout(x)
         \/ Wait(x) \/ Grab(x) \/ GrabWaits(x) \/ GrabFails(x) \/ Check(x) \/ ReleaseFailed(x)
         \/ CloseFailed(x) \/ EvictFailed(x) \/ MarkBroken(x) \/ Release(x)
  PROVE  WInv'
<1>1. SInv /\ cl \in [Clients -> Client] /\ cl[x] \in Client
  BY DEF WInv, SInv, Shape
<1>2. UNCHANGED <<setup, prewarm, creating>> /\ conns' \subseteq conns
  BY DEF Start, Reuse, Queue, Refuse, Locked, WaitClosed, WaitTimeout, Wait, Grab, GrabWaits,
         GrabFails, Check, ReleaseFailed, CloseFailed, EvictFailed, MarkBroken, Release
<1>3. Dialling' = Dialling
  <2>1. CASE MarkBroken(x)
    BY <2>1 DEF MarkBroken, Dialling
  <2>2. CASE ~MarkBroken(x)
    <3>1. cl[x].pc # "dial"
      BY <2>2 DEF Start, Reuse, Queue, Refuse, Locked, WaitClosed, WaitTimeout, Wait, Grab,
                  GrabWaits, GrabFails, Check, ReleaseFailed, CloseFailed, EvictFailed, Release
    <3>2. \A y \in Clients : y # x => cl'[y] = cl[y]
      <4>1. CASE Reuse(x) \/ Queue(x)
        BY <1>1, <4>1, PickRecord
      <4>2. CASE ~(Reuse(x) \/ Queue(x))
        BY <1>1, <2>2, <4>2
           DEF Start, Refuse, WaitClosed, WaitTimeout, Wait, Grab, GrabWaits, GrabFails, Check,
               ReleaseFailed, CloseFailed, EvictFailed, Release, Finish, Retry, GoOn, Set
      <4> QED
        BY <4>1, <4>2
    <3>3. cl'[x].pc # "dial"
      <4>1. CASE Reuse(x) \/ Queue(x)
        BY <1>1, <4>1, PickRecord
      <4>2. CASE Refuse(x) \/ WaitClosed(x) \/ WaitTimeout(x) \/ EvictFailed(x) \/ Release(x)
        <5>1. Finish(x) \/ Retry(x)
          BY <4>2 DEF Refuse, WaitClosed, WaitTimeout, EvictFailed, Release
        <5>2. PICK r \in Client : cl' = [cl EXCEPT ![x] = r] /\ r.pc \in {"idle", "pick"}
          BY <1>1, <5>1, RetryRecord
        <5> QED
          BY <1>1, <5>2
      <4>3. CASE Wait(x) \/ Grab(x) \/ GrabWaits(x) \/ Check(x) \/ ReleaseFailed(x) \/ CloseFailed(x)
        <5>1. PICK next \in Pcs \ {"dial"} : GoOn(x, next)
          BY <4>3 DEF Wait, Grab, GrabWaits, Check, ReleaseFailed, CloseFailed, Pcs
        <5>2. PICK r \in Client : cl' = [cl EXCEPT ![x] = r] /\ r.pc = next
          BY <1>1, <5>1, GoOnRecord
        <5> QED
          BY <1>1, <5>1, <5>2
      <4>4. CASE GrabFails(x)
        <5>1. cl'[x] = [cl[x] EXCEPT !.pc = "close", !.retry = 1]
          BY <1>1, <4>4 DEF GrabFails, Set
        <5> QED
          BY <1>1, <5>1 DEF Client
      <4>5. CASE Start(x)
        <5>1. PICK k, p : cl' = [cl EXCEPT ![x] = [Idle EXCEPT !.pc = "pick", !.kind = k,
                                                              !.preferred = p]]
          BY <4>5 DEF Start, Set
        <5>2. [Idle EXCEPT !.pc = "pick", !.kind = k, !.preferred = p].pc = "pick"
          BY DEF Idle
        <5> QED
          BY <1>1, <5>1, <5>2
      <4> QED
        BY <2>2, <4>1, <4>2, <4>3, <4>4, <4>5
    <3> QED
      BY <3>1, <3>2, <3>3, SameDialling
  <2> QED
    BY <2>1, <2>2
<1> QED
  BY <1>2, <1>3, LimitKept

LEMMA LimitStep == WInv /\ [Next]_vars => WInv'
<1> SUFFICES ASSUME WInv, [Next]_vars PROVE WInv'
  OBVIOUS
<1>1. SInv'
  BY ShapeStep DEF WInv
<1>2. CASE UNCHANGED vars
  BY <1>1, <1>2, LimitKept DEF vars, Dialling
<1>3. ASSUME NEW x \in setup.team,
             \/ Start(x) \/ Acquiring(x) \/ Wait(x) \/ WaitTimeout(x)
             \/ Grab(x) \/ GrabFails(x) \/ MarkBroken(x) \/ Release(x)
      PROVE  WInv'
  <2>1. x \in Clients
    BY Parameters DEF WInv, SInv, Shape
  <2> QED
    BY <1>1, <1>3, <2>1, DialStarts, DialEnds, EnsureKeeps, ClientKeeps DEF Acquiring
<1>4. CASE (\E a \in Actors : CloseEvicted(a)) \/ Ping \/ Pinged \/ PingFails \/ Cleanup
  <2>1. UNCHANGED <<setup, prewarm, creating, cl>> /\ conns' \subseteq conns
    BY <1>4 DEF CloseEvicted, Ping, Pinged, PingFails, Cleanup
  <2> QED
    BY <1>1, <2>1, LimitKept DEF Dialling
<1> QED
  BY <1>1, <1>2, <1>3, <1>4, PrewarmKeeps DEF Next

LEMMA LimitInit == Init => WInv
<1> SUFFICES ASSUME Init PROVE WInv
  OBVIOUS
<1>1. SInv
  BY ShapeInit
<1>2. creating = 0 /\ prewarm.left = 0 /\ conns = {} /\ setup \in Settings
  BY DEF Init
<1>3. Dialling = {}
  BY DEF Init, Dialling, Idle
<1>4. Cardinality(Dialling) = 0 /\ Cardinality(conns) = 0
  BY <1>2, <1>3, FS_EmptySet
<1>5. Cardinality(conns) + creating <= MaxConns
  BY <1>2, <1>4, Parameters
<1>6. creating = prewarm.left + Cardinality(Dialling)
  BY <1>2, <1>4
<1> QED
  BY <1>1, <1>2, <1>5, <1>6 DEF WInv, WithinLimit, Dialling

(* The connections of the account, with those being dialled, stay within its  *)
(* limit, and creating counts the latter.                                     *)
THEOREM ConnectionsWithinLimit == Spec => []WithinLimit
BY LimitInit, LimitStep, PTL DEF Spec, WInv

(* The bounds of the counters follow from the limit.                          *)
THEOREM TypeCorrect == Spec => []TypeOK
<1>1. WInv => TypeOK
  <2> SUFFICES ASSUME WInv PROVE TypeOK
    OBVIOUS
  <2>1. Shape
    BY DEF WInv, SInv
  <2>2. creating \in 0..MaxConns /\ prewarm.left \in 0..MaxConns
    BY Counted DEF Prewarm
  <2>3. prewarm \in [active : BOOLEAN, left : 0..MaxConns]
    BY <2>2, Counted DEF Prewarm
  <2> QED
    BY <2>1, <2>2, <2>3 DEF TypeOK, Shape
<1> QED
  BY <1>1, LimitInit, LimitStep, PTL DEF Spec

----------------------------------------------------------------------------
(* The API key's caches: the invariant.                                      *)

\* What an edit may still have to do.
Steps == {"create", "update", "delete", "del1", "del2", "publish"}
Told  == <<"publish">>
Due   == {<<"del1", "del2", "publish">>, <<"del2", "publish">>}
Rests == {<<>>, Told, <<"delete">>, <<"publish", "delete">>, <<"del2", "publish", "delete">>,
          <<"del1", "del2", "publish", "delete">>,
          <<"create", "del1", "del2", "publish">>, <<"update", "del1", "del2", "publish">>} \cup Due

\* An invalidation has still to pass L2, or to reach the instance.
DueL2    == \E p \in Procs : todo[p] \in Due
DueL1(i) == DueL2 \/ inbox[i] > 0 \/ \E p \in Procs : todo[p] = Told

\* The types, variable by variable.
RowOK    == row \in [ver : Versions, live : BOOLEAN]
L1OK     == l1 \in [Instances -> Entries] /\ \A i \in Instances : l1[i].ttl <= L1TTL
L2OK     == l2 \in Entries /\ l2.ttl <= L2TTL
InboxOK  == inbox \in [Instances -> Nat]
FlightOK == flight \in [Instances -> [step : {"none", "read", "l1", "l2"}, val : Values]]
PcOK     == pc \in [Procs -> {"idle", "l2", "keep", "join", "wait"}]
TodoOK   == todo \in [Procs -> Rests]
HandOK   == hand \in [Procs -> Values]
SetOK    == faults \in FaultSets /\ on \in Placements

Typed == RowOK /\ L1OK /\ L2OK /\ InboxOK /\ FlightOK /\ PcOK /\ TodoOK /\ HandOK /\ SetOK

\* The edits keep their promise: whatever is out of date in a cache, or about to be stored
\* there, without an invalidation having passed it, has an invalidation still to come.
\* InvalidationsComplete speaks of the end of the edits only.
Missed(val) == val.ver # row.ver /\ ~val.late /\ ~val.cut
Reach ==
  faults \subseteq {"slow"} /\ row.live =>
    /\ Stale(l2) /\ ~l2.late => DueL2
    /\ \A i \in Instances : Stale(l1[i]) /\ ~l1[i].late => DueL1(i)
    /\ \A i \in Instances : Flying(i) /\ Missed(flight[i].val) => DueL2
    /\ \A p \in Procs : Holding(p) /\ Missed(hand[p]) => DueL2

\* How long a row may have been a different one, by how long its copy has been where it is.
FreshL2(e) == e # NoEntry => e.ttl >= 1 /\ e.outdated <= LoadTime + L2TTL - e.ttl
FreshL1(e) ==
  e # NoEntry => e.ttl >= 1 /\ e.outdated <= 2 * LoadTime + L2TTL - 1 + L1TTL - e.ttl
Aged ==
  "slow" \notin faults =>
    /\ FreshL2(l2)
    /\ \A i \in Instances : FreshL1(l1[i])
    /\ \A i \in Instances : Flying(i) => flight[i].val.outdated <= flight[i].val.held
    /\ \A p \in Procs : Holding(p) => hand[p].outdated <= hand[p].held + LoadTime + L2TTL - 1

----------------------------------------------------------------------------
(* The API key's caches: entries, values and plans.                          *)

LEMMA Times ==
  /\ LoadTime \in Nat /\ MaxChanges \in Nat
  /\ L1TTL \in Nat /\ L1TTL >= 1 /\ L2TTL \in Nat /\ L2TTL >= 1
  /\ NegativeTTL \in Nat /\ NegativeTTL >= 1 /\ NegativeTTL <= L2TTL
  /\ Bound \in Nat /\ Bound = 2 * LoadTime + L2TTL + L1TTL
BY ApiKeyAuthCacheAssumption DEF Bound

\* What is left of an edit's plan, and when its invalidation is still due.
LEMMA Plans ==
  /\ <<>> \in Rests /\ <<>> \notin Due /\ <<>> # Told
  /\ \A c \in {"create", "update", "delete"} : Plan(c) \in Rests /\ Plan(c) \notin Due /\ Plan(c) # Told
  /\ \A s \in Rests : s \in Seq(Steps)
  /\ \A s \in Rests : s # <<>> =>
       /\ Tail(s) \in Rests
       /\ Head(s) \in {"create", "update"} => Tail(s) \in Due
       /\ s \in Due => Head(s) \in {"del1", "del2"}
       /\ s \in Due /\ Head(s) = "del1" => Tail(s) \in Due
       /\ s \in Due /\ Head(s) = "del2" => Tail(s) = Told
       /\ s = Told => Head(s) = "publish"
BY DEF Rests, Due, Told, Plan, Steps

LEMMA Nothings ==
  /\ NoEntry \in Entries /\ NoEntry.ttl = 0
  /\ Nothing \in Values /\ NoFlight \in [step : {"none", "read", "l1", "l2"}, val : Values]
  /\ NoFlight.step = "none"
<1>1. 0 \in Versions /\ 0 \in 0 .. Bound /\ 0 \in 0 .. LoadTime
  BY Times DEF Versions
<1>2. NoEntry \in Entries /\ NoEntry.ttl = 0
  BY <1>1 DEF NoEntry, Entries
<1>3. Nothing \in Values
  BY <1>1 DEF Nothing, Read, NoEntry, Values
<1>. QED  BY <1>2, <1>3 DEF NoFlight

LEMMA ValueRead ==
  ASSUME NEW e \in Entries
  PROVE  /\ Read(e) \in Values /\ Read(e).ver = e.ver /\ Read(e).outdated = e.outdated
         /\ Read(e).held = 0 /\ (Read(e).late <=> e.late) /\ ~Read(e).cut
<1>1. 0 \in 0 .. LoadTime
  BY Times
<1>. QED  BY <1>1 DEF Read, Entries, Values

\* A value that is stored.
LEMMA ValueStored ==
  ASSUME RowOK, NEW val \in Values, NEW t \in Nat, t >= 1
  PROVE  /\ Entry(val, t) \in Entries /\ Entry(val, t) # NoEntry
         /\ Entry(val, t).ttl = t /\ Entry(val, t).outdated = val.outdated
         /\ Stale(Entry(val, t)) /\ ~Entry(val, t).late => Missed(val)
<1>1. /\ Entry(val, t).ttl = t /\ Entry(val, t).outdated = val.outdated
      /\ Entry(val, t).ver = val.ver
      /\ Entry(val, t).late <=> (val.late \/ (val.cut /\ val.ver # row.ver))
  BY DEF Entry
<1>2. Entry(val, t) # NoEntry
  BY <1>1, Nothings
<1>3. Entry(val, t) \in Entries
  <2>1. (val.late \/ (val.cut /\ val.ver # row.ver)) \in BOOLEAN
    BY Zenon
  <2>. QED  BY <2>1 DEF Entry, Entries, Values
<1>. QED  BY <1>1, <1>2, <1>3 DEF Stale, Missed

LEMMA StoredInL1 ==
  ASSUME RowOK, L1OK, NEW i \in Instances, NEW val \in Values, SetL1(i, val)
  PROVE  /\ L1OK'
         /\ \A j \in Instances :
              l1'[j] = l1[j] \/ \E t \in 1 .. L1TTL : j = i /\ l1'[j] = Entry(val, t)
<1>1. CASE UNCHANGED l1
  BY <1>1 DEF L1OK
<1>2. CASE l1' = [l1 EXCEPT ![i] = Entry(val, IF val.found THEN L1TTL ELSE Lesser(L1TTL, NegativeTTL))]
  <2>1. PICK t \in 1 .. L1TTL : l1' = [l1 EXCEPT ![i] = Entry(val, t)]
    <3>1. (IF val.found THEN L1TTL ELSE Lesser(L1TTL, NegativeTTL)) \in 1 .. L1TTL
      BY Times DEF Lesser
    <3>. QED  BY <1>2, <3>1
  <2>2. t \in Nat /\ t >= 1 /\ t <= L1TTL
    BY Times
  <2>3. Entry(val, t) \in Entries /\ Entry(val, t).ttl = t
    BY <2>2, ValueStored
  <2>4. L1OK'
    BY <2>1, <2>2, <2>3 DEF L1OK
  <2>5. \A j \in Instances : l1'[j] = IF j = i THEN Entry(val, t) ELSE l1[j]
    BY <2>1 DEF L1OK
  <2>. QED  BY <2>4, <2>5
<1>. QED  BY <1>1, <1>2 DEF SetL1

\* Time passes for what is stored, and for what is held.
LEMMA EntryAges ==
  ASSUME RowOK, NEW e \in Entries
  PROVE  /\ Age(e) \in Entries /\ Age(e).ttl <= e.ttl
         /\ Age(e) # NoEntry => /\ e # NoEntry /\ Age(e).ver = e.ver /\ (Age(e).late <=> e.late)
                                /\ Age(e).ttl = e.ttl - 1 /\ e.ttl > 1
                                /\ Age(e).outdated <= e.outdated + 1
<1>1. Outdated(e) \in 0 .. Bound /\ Outdated(e) <= e.outdated + 1
  BY Times DEF Outdated, Lesser, Entries
<1>2. CASE e.ttl <= 1
  BY <1>2, Nothings DEF Age, Entries
<1>3. CASE e.ttl > 1
  <2>1. Age(e) = [e EXCEPT !.ttl = e.ttl - 1, !.outdated = Outdated(e)]
    BY <1>3 DEF Age, Entries
  <2>2. Age(e) = [ver |-> e.ver, found |-> e.found, outdated |-> Outdated(e), ttl |-> e.ttl - 1, late |-> e.late]
    BY <2>1 DEF Entries
  <2>3. e.ttl - 1 \in Nat
    BY <1>3 DEF Entries
  <2>4. Age(e) \in Entries
    BY <1>1, <2>2, <2>3 DEF Entries
  <2>. QED  BY <1>1, <1>3, <2>2, <2>3, <2>4, Nothings DEF Entries
<1>. QED  BY <1>2, <1>3 DEF Entries

LEMMA ValueHeld ==
  ASSUME RowOK, NEW val \in Values, "slow" \in faults \/ val.held < LoadTime
  PROVE  /\ Hold(val) \in Values /\ Hold(val).ver = val.ver /\ (Hold(val).late <=> val.late)
         /\ (Hold(val).cut <=> val.cut)
         /\ "slow" \notin faults => /\ Hold(val).held = val.held + 1
                                    /\ Hold(val).outdated <= val.outdated + 1
<1>. DEFINE h == IF "slow" \in faults THEN 0 ELSE val.held + 1
<1>1. Outdated(val) \in 0 .. Bound /\ Outdated(val) <= val.outdated + 1
  BY Times DEF Outdated, Lesser, Values
<1>2. h \in 0 .. LoadTime
  BY Times DEF Values
<1>3. Hold(val) = [val EXCEPT !.held = h, !.outdated = Outdated(val)]
  BY DEF Hold
<1>. HIDE DEF h
<1>4. Hold(val) = [ver |-> val.ver, found |-> val.found, outdated |-> Outdated(val), held |-> h,
                   cut |-> val.cut, late |-> val.late]
  BY <1>3 DEF Values
<1>5. Hold(val) \in Values
  BY <1>1, <1>2, <1>4 DEF Values
<1>6. Hold(val).held = h /\ Hold(val).outdated = Outdated(val) /\ Hold(val).ver = val.ver
      /\ (Hold(val).late <=> val.late) /\ (Hold(val).cut <=> val.cut)
  BY <1>4
<1>7. "slow" \notin faults => h = val.held + 1
  BY DEF h
<1>. QED  BY <1>1, <1>5, <1>6, <1>7

LEMMA TypedGivesTypes == Typed => AuthTypeOK
<1>. SUFFICES ASSUME Typed PROVE AuthTypeOK
  OBVIOUS
<1>1. todo \in [Procs -> Seq({"create", "update", "delete", "del1", "del2", "publish"})]
  <2>1. \A s \in Rests : s \in Seq({"create", "update", "delete", "del1", "del2", "publish"})
    BY Plans DEF Steps
  <2>. QED  BY <2>1 DEF Typed, TodoOK
<1>. QED
  BY <1>1 DEF Typed, AuthTypeOK, RowOK, L1OK, L2OK, InboxOK, FlightOK, PcOK, HandOK, SetOK

----------------------------------------------------------------------------
(* The API key's caches: every step.                                         *)

\* A flight takes its next step, or ends.
LEMMA FlightMoves ==
  ASSUME FlightOK, PcOK, NEW i \in Instances,
         \/ \E x \in {"read", "l1", "l2"} : flight' = [flight EXCEPT ![i].step = x] /\ UNCHANGED pc
         \/ Land(i)
  PROVE  FlightOK' /\ PcOK' /\ \A p \in Procs : pc'[p] = "keep" => pc[p] = "keep"
<1>1. CASE \E x \in {"read", "l1", "l2"} : flight' = [flight EXCEPT ![i].step = x] /\ UNCHANGED pc
  BY <1>1 DEF FlightOK, PcOK
<1>2. CASE Land(i)
  <2>1. FlightOK'
    BY <1>2, Nothings DEF Land, FlightOK
  <2>2. PcOK' /\ \A p \in Procs : pc'[p] = "keep" => pc[p] = "keep"
    BY <1>2 DEF Land, PcOK
  <2>. QED  BY <2>1, <2>2
<1>. QED  BY <1>1, <1>2

LEMMA RowValue ==
  ASSUME RowOK
  PROVE  /\ RowRead \in Values /\ RowRead.ver = row.ver /\ RowRead.outdated = 0 /\ RowRead.held = 0
<1>1. row.ver \in Versions /\ row.live \in BOOLEAN
  BY DEF RowOK
<1>. DEFINE e == [NoEntry EXCEPT !.ver = row.ver, !.found = row.live]
<1>2. e \in Entries /\ e.ver = row.ver /\ e.outdated = 0
  BY <1>1, Nothings DEF Entries, NoEntry
<1>3. RowRead = Read(e)
  BY DEF RowRead
<1>. HIDE DEF e
<1>. QED  BY <1>2, <1>3, ValueRead

\* An invalidation deletes L2 between the read of a value and its storing.
LEMMA Cuts ==
  ASSUME FlightOK, PcOK, HandOK,
         hand' = [q \in Procs |-> IF pc[q] = "keep" THEN [hand[q] EXCEPT !.cut = TRUE] ELSE hand[q]],
         flight' = [i \in Instances |->
                      IF flight[i].step \in {"l1", "l2"} THEN [flight[i] EXCEPT !.val.cut = TRUE]
                                                         ELSE flight[i]]
  PROVE  /\ HandOK' /\ FlightOK'
         /\ \A q \in Procs : /\ pc[q] = "keep" => hand'[q].cut
                             /\ hand'[q].outdated = hand[q].outdated /\ hand'[q].held = hand[q].held
         /\ \A i \in Instances : /\ flight'[i].step = flight[i].step
                                 /\ flight[i].step \in {"l1", "l2"} => flight'[i].val.cut
                                 /\ flight'[i].val.outdated = flight[i].val.outdated
                                 /\ flight'[i].val.held = flight[i].val.held
<1>1. ASSUME NEW v \in Values
      PROVE  /\ [v EXCEPT !.cut = TRUE] \in Values /\ [v EXCEPT !.cut = TRUE].cut
             /\ [v EXCEPT !.cut = TRUE].outdated = v.outdated /\ [v EXCEPT !.cut = TRUE].held = v.held
  BY DEF Values
<1>2. HandOK' /\ \A q \in Procs : /\ pc[q] = "keep" => hand'[q].cut
                                  /\ hand'[q].outdated = hand[q].outdated /\ hand'[q].held = hand[q].held
  BY <1>1 DEF HandOK
<1>3. ASSUME NEW i \in Instances, flight[i].step \in {"l1", "l2"}
      PROVE  flight'[i] = [step |-> flight[i].step, val |-> [flight[i].val EXCEPT !.cut = TRUE]]
  BY <1>3 DEF FlightOK
<1>4. ASSUME NEW i \in Instances, flight[i].step \notin {"l1", "l2"}
      PROVE  flight'[i] = flight[i]
  BY <1>4
<1>5. ASSUME NEW i \in Instances
      PROVE  /\ flight'[i] \in [step : {"none", "read", "l1", "l2"}, val : Values]
             /\ flight'[i].step = flight[i].step
             /\ flight[i].step \in {"l1", "l2"} => flight'[i].val.cut
             /\ flight'[i].val.outdated = flight[i].val.outdated
             /\ flight'[i].val.held = flight[i].val.held
  <2>1. flight[i].val \in Values /\ flight[i].step \in {"none", "read", "l1", "l2"}
        /\ flight[i] \in [step : {"none", "read", "l1", "l2"}, val : Values]
    BY DEF FlightOK
  <2>2. CASE flight[i].step \in {"l1", "l2"}
    BY <1>1, <1>3, <2>1, <2>2
  <2>3. CASE flight[i].step \notin {"l1", "l2"}
    BY <1>4, <2>1, <2>3
  <2>. QED  BY <2>2, <2>3
<1>6. FlightOK'
  BY <1>5 DEF FlightOK
<1>. QED  BY <1>2, <1>5, <1>6

\* The clock's tick, for what is held.
LEMMA HeldOn ==
  ASSUME RowOK, FlightOK, PcOK, HandOK, Tick
  PROVE  /\ HandOK' /\ FlightOK'
         /\ \A p \in Procs : pc[p] = "keep" => hand'[p] = Hold(hand[p])
         /\ \A i \in Instances : /\ flight'[i].step = flight[i].step
                                 /\ Flying(i) => flight'[i].val = Hold(flight[i].val)
         /\ \A p \in Procs : pc[p] = "keep" => "slow" \in faults \/ hand[p].held < LoadTime
         /\ \A i \in Instances : Flying(i) => "slow" \in faults \/ flight[i].val.held < LoadTime
<1>1. /\ \A p \in Procs : Holding(p) => "slow" \in faults \/ hand[p].held < LoadTime
      /\ \A i \in Instances : Flying(i) => "slow" \in faults \/ flight[i].val.held < LoadTime
      /\ hand' = [p \in Procs |-> IF Holding(p) THEN Hold(hand[p]) ELSE hand[p]]
      /\ flight' = [i \in Instances |->
                      IF Flying(i) THEN [flight[i] EXCEPT !.val = Hold(flight[i].val)] ELSE flight[i]]
  BY DEF Tick
<1>2. \A p \in Procs : hand'[p] \in Values /\ (pc[p] = "keep" => hand'[p] = Hold(hand[p]))
  BY <1>1, ValueHeld DEF HandOK, Holding
<1>3. HandOK'
  BY <1>1, <1>2 DEF HandOK
<1>4. ASSUME NEW i \in Instances
      PROVE  /\ flight'[i] \in [step : {"none", "read", "l1", "l2"}, val : Values]
             /\ flight'[i].step = flight[i].step
             /\ Flying(i) => flight'[i].val = Hold(flight[i].val)
  <2>1. flight[i].val \in Values /\ flight[i].step \in {"none", "read", "l1", "l2"}
        /\ flight[i] \in [step : {"none", "read", "l1", "l2"}, val : Values]
    BY DEF FlightOK
  <2>2. CASE Flying(i)
    <3>1. Hold(flight[i].val) \in Values
      BY <1>1, <2>1, <2>2, ValueHeld
    <3>2. flight'[i] = [step |-> flight[i].step, val |-> Hold(flight[i].val)]
      BY <1>1, <2>1, <2>2
    <3>. QED  BY <2>1, <3>1, <3>2
  <2>3. CASE ~Flying(i)
    BY <1>1, <2>1, <2>3
  <2>. QED  BY <2>2, <2>3
<1>5. FlightOK'
  BY <1>1, <1>4 DEF FlightOK
<1>. QED  BY <1>1, <1>2, <1>3, <1>4, <1>5 DEF Holding

\* Every variable keeps its type.
LEMMA TypedStep == Typed /\ [AuthNext]_authVars => Typed'
<1>. SUFFICES ASSUME Typed, [AuthNext]_authVars PROVE Typed'
  OBVIOUS
<1>0. RowOK /\ L1OK /\ L2OK /\ InboxOK /\ FlightOK /\ PcOK /\ TodoOK /\ HandOK /\ SetOK
  BY DEF Typed
<1>a. /\ UNCHANGED row => RowOK'
      /\ UNCHANGED l1 => L1OK'
      /\ UNCHANGED l2 => L2OK'
      /\ UNCHANGED inbox => InboxOK'
      /\ UNCHANGED flight => FlightOK'
      /\ UNCHANGED pc => PcOK'
      /\ UNCHANGED todo => TodoOK'
      /\ UNCHANGED hand => HandOK'
      /\ UNCHANGED <<faults, on>> => SetOK'
  BY <1>0 DEF RowOK, L1OK, L2OK, InboxOK, FlightOK, PcOK, TodoOK, HandOK, SetOK
<1>p. ASSUME NEW p \in Procs PROVE on[p] \in Instances
  BY <1>0, ApiKeyAuthCacheAssumption DEF SetOK
<1>d. ASSUME NEW p \in Procs, Done(p), todo[p] # <<>> PROVE TodoOK'
  BY <1>0, <1>d, Plans DEF Done, TodoOK
<1>s. ASSUME NEW p \in Procs, todo' = [todo EXCEPT ![p] = <<>>] PROVE TodoOK'
  BY <1>0, <1>s, Plans DEF TodoOK
<1>1. ASSUME NEW p \in Procs, LookupL1(p) PROVE Typed'
  <2>1. PcOK'
    BY <1>0, <1>1, <1>a DEF LookupL1, PcOK
  <2>. QED  BY <1>1, <1>a, <2>1 DEF LookupL1, caches, Typed
<1>2. ASSUME NEW p \in Procs, LookupL2(p) PROVE Typed'
  <2>1. PcOK'
    BY <1>0, <1>2 DEF LookupL2, PcOK
  <2>2. HandOK'
    <3>1. Read(l2) \in Values
      BY <1>0, ValueRead DEF L2OK
    <3>. QED  BY <1>0, <1>2, <1>a, <3>1 DEF LookupL2, HandOK
  <2>. QED  BY <1>2, <1>a, <2>1, <2>2 DEF LookupL2, caches, Typed
<1>3. ASSUME NEW p \in Procs, KeepInL1(p) PROVE Typed'
  <2>1. PcOK' /\ HandOK'
    BY <1>0, <1>3, Nothings DEF KeepInL1, PcOK, HandOK
  <2>2. L1OK'
    <3>1. SetL1(on[p], hand[p]) /\ hand[p] \in Values
      BY <1>0, <1>3 DEF KeepInL1, HandOK
    <3>. QED  BY <1>0, <1>p, <3>1, StoredInL1
  <2>. QED  BY <1>3, <1>a, <2>1, <2>2 DEF KeepInL1, Typed
<1>4. ASSUME NEW p \in Procs, JoinFlight(p) PROVE Typed'
  <2>1. PcOK'
    BY <1>0, <1>4 DEF JoinFlight, PcOK
  <2>2. FlightOK'
    BY <1>0, <1>4, <1>p, <1>a DEF JoinFlight, FlightOK
  <2>. QED  BY <1>4, <1>a, <2>1, <2>2 DEF JoinFlight, caches, Typed
<1>5. ASSUME NEW i \in Instances, LoadRow(i) PROVE Typed'
  <2>1. FlightOK' /\ PcOK'
    <3>1. CASE flight' = [flight EXCEPT ![i] = [step |-> "l1", val |-> RowRead]] /\ UNCHANGED pc
      BY <1>0, <1>a, <3>1, RowValue DEF FlightOK
    <3>2. CASE Land(i)
      BY <1>0, <3>2, FlightMoves
    <3>. QED  BY <1>5, <3>1, <3>2 DEF LoadRow
  <2>. QED  BY <1>5, <1>a, <2>1 DEF LoadRow, caches, Typed
<1>6. ASSUME NEW i \in Instances, StoreL1(i) PROVE Typed'
  <2>1. FlightOK' /\ PcOK'
    BY <1>0, <1>6, FlightMoves DEF StoreL1
  <2>2. L1OK'
    BY <1>0, <1>6, StoredInL1 DEF StoreL1, FlightOK
  <2>. QED  BY <1>6, <1>a, <2>1, <2>2 DEF StoreL1, Typed
<1>7. ASSUME NEW i \in Instances, StoreL2(i) PROVE Typed'
  <2>1. FlightOK' /\ PcOK'
    BY <1>0, <1>7, FlightMoves DEF StoreL2
  <2>2. CASE UNCHANGED l2
    BY <1>7, <1>a, <2>1, <2>2 DEF StoreL2, Typed
  <2>3. CASE \E t \in 1 .. L2TTL : l2' = Entry(flight[i].val, t)
    <3>1. L2OK'
      BY <1>0, <2>3, ValueStored, Times DEF L2OK, FlightOK
    <3>. QED  BY <1>7, <1>a, <2>1, <3>1 DEF StoreL2, Typed
  <2>. QED  BY <1>7, <2>2, <2>3, Times DEF StoreL2
<1>8. ASSUME NEW p \in Procs, Edit(p) PROVE Typed'
  <2>1. TodoOK'
    <3>1. PICK change \in {"create", "update", "delete"} : todo' = [todo EXCEPT ![p] = Plan(change)]
      BY <1>8 DEF Edit
    <3>. QED  BY <1>0, <3>1, Plans DEF TodoOK
  <2>. QED  BY <1>8, <1>a, <2>1 DEF Edit, caches, lookups, Typed
<1>9. ASSUME NEW p \in Procs, Commit(p) PROVE Typed'
  <2>1. TodoOK'
    BY <1>9, <1>d, <1>s DEF Commit, NextIs, Stop
  <2>2. RowOK'
    <3>1. CASE UNCHANGED row
      BY <1>a, <3>1
    <3>2. CASE /\ row.ver < MaxChanges
               /\ \E change \in {"create", "update", "delete"} :
                    row' = [ver |-> row.ver + 1, live |-> (change # "delete")]
      <4>1. PICK b \in BOOLEAN : row' = [ver |-> row.ver + 1, live |-> b]
        BY <3>2
      <4>2. row.ver + 1 \in Versions
        BY <1>0, <3>2, Times DEF RowOK, Versions
      <4>. QED  BY <4>1, <4>2 DEF RowOK
    <3>. QED  BY <1>9, <3>1, <3>2 DEF Commit
  <2>. QED  BY <1>9, <1>a, <2>1, <2>2 DEF Commit, caches, lookups, Typed
<1>10. ASSUME NEW p \in Procs, DeleteL1(p) PROVE Typed'
  <2>1. TodoOK'
    BY <1>10, <1>d DEF DeleteL1, NextIs
  <2>2. L1OK'
    BY <1>0, <1>10, <1>p, Nothings, Times DEF DeleteL1, L1OK
  <2>. QED  BY <1>10, <1>a, <2>1, <2>2 DEF DeleteL1, lookups, Typed
<1>11. ASSUME NEW p \in Procs, DeleteL2(p) PROVE Typed'
  <2>1. TodoOK'
    BY <1>11, <1>d DEF DeleteL2, NextIs
  <2>2. L2OK' /\ HandOK' /\ FlightOK'
    <3>1. CASE UNCHANGED <<l2, hand, flight>>
      BY <3>1, <1>a
    <3>2. CASE l2' = NoEntry /\ ~ UNCHANGED <<l2, hand, flight>>
      <4>1. L2OK'
        BY <3>2, Nothings, Times DEF L2OK
      <4>2. HandOK' /\ FlightOK'
        BY <1>0, <1>11, <3>2, Cuts DEF DeleteL2
      <4>. QED  BY <4>1, <4>2
    <3>. QED  BY <1>11, <3>1, <3>2 DEF DeleteL2
  <2>. QED  BY <1>11, <1>a, <2>1, <2>2 DEF DeleteL2, Typed
<1>12. ASSUME NEW p \in Procs, Publish(p) PROVE Typed'
  <2>1. TodoOK'
    BY <1>12, <1>d DEF Publish, NextIs
  <2>2. InboxOK'
    BY <1>0, <1>12, <1>a DEF Publish, InboxOK
  <2>. QED  BY <1>12, <1>a, <2>1, <2>2 DEF Publish, lookups, Typed
<1>13. ASSUME NEW i \in Instances, Deliver(i) PROVE Typed'
  <2>1. InboxOK'
    BY <1>0, <1>13 DEF Deliver, InboxOK
  <2>2. L1OK'
    BY <1>0, <1>13, <1>a, Nothings, Times DEF Deliver, L1OK
  <2>. QED  BY <1>13, <1>a, <2>1, <2>2 DEF Deliver, lookups, Typed
<1>14. ASSUME NEW p \in Procs, Crash(p) PROVE Typed'
  <2>1. TodoOK'
    BY <1>14, <1>s DEF Crash, Stop
  <2>. QED  BY <1>14, <1>a, <2>1 DEF Crash, caches, lookups, Typed
<1>15. CASE Tick
  <2>1. HandOK' /\ FlightOK'
    BY <1>0, <1>15, HeldOn
  <2>2. L2OK'
    <3>1. l2' = Age(l2)
      BY <1>15 DEF Tick
    <3>2. Age(l2) \in Entries /\ Age(l2).ttl <= l2.ttl
      BY <1>0, EntryAges DEF L2OK
    <3>. QED  BY <1>0, <3>1, <3>2, Times DEF L2OK, Entries
  <2>3. L1OK'
    <3>1. l1' = [i \in Instances |-> Age(l1[i])]
      BY <1>15 DEF Tick
    <3>2. ASSUME NEW i \in Instances PROVE Age(l1[i]) \in Entries /\ Age(l1[i]).ttl <= L1TTL
      <4>1. l1[i] \in Entries /\ l1[i].ttl <= L1TTL /\ l1[i].ttl \in Nat
        BY <1>0 DEF L1OK, Entries
      <4>2. Age(l1[i]) \in Entries /\ Age(l1[i]).ttl <= l1[i].ttl
        BY <1>0, <4>1, EntryAges
      <4>. QED  BY <4>1, <4>2, Times DEF Entries
    <3>. QED  BY <3>1, <3>2 DEF L1OK
  <2>. QED  BY <1>15, <1>a, <2>1, <2>2, <2>3 DEF Tick, Typed
<1>16. CASE UNCHANGED authVars
  BY <1>16, <1>a DEF authVars, caches, lookups, Typed
<1>. QED
  BY <1>1, <1>2, <1>3, <1>4, <1>5, <1>6, <1>7, <1>8, <1>9, <1>10, <1>11, <1>12, <1>13, <1>14, <1>15, <1>16
  DEF AuthNext, Load, Lookup, EditStep

\* A value that was held within LoadTime is stored no older than the invariant allows.
LEMMA AgedL1 ==
  ASSUME RowOK, L1OK, NEW i \in Instances, NEW val \in Values, SetL1(i, val),
         \A j \in Instances : FreshL1(l1[j]), val.outdated <= 2 * LoadTime + L2TTL - 1
  PROVE  \A j \in Instances : FreshL1(l1'[j])
<1>1. ASSUME NEW j \in Instances PROVE FreshL1(l1'[j])
  <2>1. l1'[j] = l1[j] \/ \E t \in 1 .. L1TTL : l1'[j] = Entry(val, t)
    BY StoredInL1
  <2>2. CASE l1'[j] = l1[j]
    BY <2>2
  <2>3. ASSUME NEW t \in 1 .. L1TTL, l1'[j] = Entry(val, t) PROVE FreshL1(l1'[j])
    <3>1. t \in Nat /\ t >= 1 /\ t <= L1TTL
      BY Times
    <3>2. l1'[j].ttl = t /\ l1'[j].outdated = val.outdated
      BY <2>3, <3>1, ValueStored
    <3>3. val.outdated \in Nat
      BY Times DEF Values
    <3>. QED  BY <3>1, <3>2, <3>3, Times DEF FreshL1
  <2>. QED  BY <2>1, <2>2, <2>3
<1>. QED  BY <1>1

\* What is out of date grows old where it is, and is stored again with its age.
LEMMA AgedStep == Typed /\ Aged /\ [AuthNext]_authVars => Aged'
<1>. SUFFICES ASSUME Typed, Aged, [AuthNext]_authVars, "slow" \notin faults' PROVE Aged'
  BY DEF Aged
<1>0. RowOK /\ L1OK /\ L2OK /\ InboxOK /\ FlightOK /\ PcOK /\ TodoOK /\ HandOK /\ SetOK
  BY DEF Typed
<1>f. faults' = faults
  BY DEF AuthNext, Load, Lookup, EditStep, Tick, LoadRow, StoreL1, StoreL2, Deliver, LookupL1, LookupL2,
         KeepInL1, JoinFlight, Edit, Commit, DeleteL1, DeleteL2, Publish, Crash, authVars
<1>g. /\ FreshL2(l2) /\ \A i \in Instances : FreshL1(l1[i])
      /\ \A i \in Instances : Flying(i) => flight[i].val.outdated <= flight[i].val.held
      /\ \A p \in Procs : pc[p] = "keep" => hand[p].outdated <= hand[p].held + LoadTime + L2TTL - 1
  BY <1>f DEF Aged, Holding
<1>v. /\ \A i \in Instances : flight[i].val \in Values
      /\ \A p \in Procs : hand[p] \in Values
      /\ \A val \in Values : val.outdated \in Nat /\ val.held \in Nat /\ val.held <= LoadTime
  BY <1>0, Times DEF FlightOK, HandOK, Values
<1>p. ASSUME NEW p \in Procs PROVE on[p] \in Instances
  BY <1>0, ApiKeyAuthCacheAssumption DEF SetOK
<1>q. ASSUME FreshL2(l2'), \A i \in Instances : FreshL1(l1'[i]),
             \A i \in Instances : flight'[i].step \in {"l1", "l2"} =>
                                    flight'[i].val.outdated <= flight'[i].val.held,
             \A p \in Procs : pc'[p] = "keep" => hand'[p].outdated <= hand'[p].held + LoadTime + L2TTL - 1
      PROVE  Aged'
  BY <1>q DEF Aged, Flying, Holding, FreshL1, FreshL2
<1>l. ASSUME UNCHANGED <<l1, l2>>,
             \A i \in Instances : flight'[i].step \in {"l1", "l2"} =>
                                    flight'[i].val.outdated <= flight'[i].val.held,
             \A p \in Procs : pc'[p] = "keep" => hand'[p].outdated <= hand'[p].held + LoadTime + L2TTL - 1
      PROVE  Aged'
  BY <1>l, <1>g, <1>q
<1>h. ASSUME UNCHANGED flight
      PROVE  \A i \in Instances : flight'[i].step \in {"l1", "l2"} =>
                                    flight'[i].val.outdated <= flight'[i].val.held
  BY <1>h, <1>g DEF Flying
<1>k. ASSUME UNCHANGED hand, \A p \in Procs : pc'[p] = "keep" => pc[p] = "keep"
      PROVE  \A p \in Procs : pc'[p] = "keep" => hand'[p].outdated <= hand'[p].held + LoadTime + L2TTL - 1
  BY <1>k, <1>g
<1>1. ASSUME NEW p \in Procs, LookupL1(p) PROVE Aged'
  <2>1. \A q \in Procs : pc'[q] = "keep" => pc[q] = "keep"
    BY <1>0, <1>1 DEF LookupL1, PcOK
  <2>. QED  BY <1>1, <2>1, <1>h, <1>k, <1>l DEF LookupL1, caches
<1>2. ASSUME NEW p \in Procs, LookupL2(p) PROVE Aged'
  <2>0. UNCHANGED <<l1, l2, flight>>
    BY <1>2 DEF LookupL2, caches
  <2>1. CASE l2 # NoEntry /\ pc' = [pc EXCEPT ![p] = "keep"] /\ hand' = [hand EXCEPT ![p] = Read(l2)]
    <3>1. Read(l2).outdated <= Read(l2).held + LoadTime + L2TTL - 1
      <4>1. l2 \in Entries /\ l2.outdated \in Nat /\ l2.ttl \in Nat
        BY <1>0, Times DEF L2OK, Entries
      <4>2. l2.ttl >= 1 /\ l2.outdated <= LoadTime + L2TTL - l2.ttl
        BY <1>g, <2>1 DEF FreshL2
      <4>3. Read(l2).outdated = l2.outdated /\ Read(l2).held = 0
        BY <4>1, ValueRead
      <4>. QED  BY <4>1, <4>2, <4>3, Times
    <3>2. \A q \in Procs : pc'[q] = "keep" => hand'[q].outdated <= hand'[q].held + LoadTime + L2TTL - 1
      BY <1>0, <1>g, <2>1, <3>1 DEF PcOK, HandOK
    <3>. QED  BY <2>0, <3>2, <1>h, <1>l
  <2>2. CASE pc' = [pc EXCEPT ![p] = "join"] /\ UNCHANGED hand
    <3>1. \A q \in Procs : pc'[q] = "keep" => pc[q] = "keep"
      BY <1>0, <2>2 DEF PcOK
    <3>. QED  BY <2>0, <2>2, <3>1, <1>h, <1>k, <1>l
  <2>. QED  BY <1>2, <2>1, <2>2 DEF LookupL2
<1>3. ASSUME NEW p \in Procs, KeepInL1(p) PROVE Aged'
  <2>0. /\ UNCHANGED <<l2, flight>> /\ pc[p] = "keep" /\ SetL1(on[p], hand[p])
        /\ pc' = [pc EXCEPT ![p] = "idle"] /\ hand' = [hand EXCEPT ![p] = Nothing]
    BY <1>3 DEF KeepInL1
  <2>1. hand[p] \in Values /\ hand[p].outdated <= 2 * LoadTime + L2TTL - 1
    BY <1>g, <1>v, <2>0, Times
  <2>2. \A j \in Instances : FreshL1(l1'[j])
    BY <1>0, <1>g, <1>p, <2>0, <2>1, AgedL1
  <2>3. \A q \in Procs : pc'[q] = "keep" => hand'[q].outdated <= hand'[q].held + LoadTime + L2TTL - 1
    BY <1>0, <1>g, <2>0 DEF PcOK, HandOK
  <2>. QED  BY <1>g, <2>0, <2>2, <2>3, <1>h, <1>q
<1>4. ASSUME NEW p \in Procs, JoinFlight(p) PROVE Aged'
  <2>0. UNCHANGED <<l1, l2, hand>> /\ pc' = [pc EXCEPT ![p] = "wait"]
    BY <1>4 DEF JoinFlight, caches
  <2>1. \A q \in Procs : pc'[q] = "keep" => pc[q] = "keep"
    BY <1>0, <2>0 DEF PcOK
  <2>2. \A i \in Instances : flight'[i].step \in {"l1", "l2"} => flight'[i] = flight[i]
    BY <1>0, <1>4, <1>p DEF JoinFlight, FlightOK
  <2>3. \A i \in Instances : flight'[i].step \in {"l1", "l2"} =>
                               flight'[i].val.outdated <= flight'[i].val.held
    BY <1>g, <2>2 DEF Flying
  <2>. QED  BY <2>0, <2>1, <2>3, <1>k, <1>l
<1>e. ASSUME NEW i \in Instances, Land(i)
      PROVE  /\ \A j \in Instances : flight'[j].step \in {"l1", "l2"} =>
                                       flight'[j].val.outdated <= flight'[j].val.held
             /\ \A q \in Procs : pc'[q] = "keep" => pc[q] = "keep"
  <2>1. \A j \in Instances : flight'[j].step \in {"l1", "l2"} => flight'[j] = flight[j]
    BY <1>0, <1>e, Nothings DEF Land, FlightOK
  <2>. QED  BY <1>0, <1>e, <1>g, <2>1, FlightMoves DEF Flying
<1>5. ASSUME NEW i \in Instances, LoadRow(i) PROVE Aged'
  <2>0. UNCHANGED <<l1, l2, hand>>
    BY <1>5 DEF LoadRow, caches
  <2>1. CASE flight' = [flight EXCEPT ![i] = [step |-> "l1", val |-> RowRead]] /\ UNCHANGED pc
    <3>1. \A j \in Instances : flight'[j].step \in {"l1", "l2"} =>
                                 flight'[j].val.outdated <= flight'[j].val.held
      BY <1>0, <1>g, <2>1, RowValue DEF FlightOK, Flying
    <3>. QED  BY <2>0, <2>1, <3>1, <1>k, <1>l
  <2>2. CASE Land(i)
    BY <2>0, <2>2, <1>e, <1>k, <1>l
  <2>. QED  BY <1>5, <2>1, <2>2 DEF LoadRow
<1>6. ASSUME NEW i \in Instances, StoreL1(i) PROVE Aged'
  <2>0. /\ UNCHANGED <<l2, hand, pc>> /\ flight[i].step = "l1" /\ SetL1(i, flight[i].val)
        /\ flight' = [flight EXCEPT ![i].step = "l2"]
    BY <1>6 DEF StoreL1
  <2>1. flight[i].val \in Values /\ flight[i].val.outdated <= 2 * LoadTime + L2TTL - 1
    <3>1. flight[i].val.outdated <= flight[i].val.held
      BY <1>g, <2>0 DEF Flying
    <3>. QED  BY <1>v, <3>1, Times
  <2>2. \A j \in Instances : FreshL1(l1'[j])
    BY <1>0, <1>g, <2>0, <2>1, AgedL1
  <2>3. \A j \in Instances : flight'[j].step \in {"l1", "l2"} =>
                               flight'[j].val.outdated <= flight'[j].val.held
    <3>1. \A j \in Instances : flight'[j].val = flight[j].val
                               /\ (flight'[j].step \in {"l1", "l2"} => Flying(j))
      BY <1>0, <2>0 DEF FlightOK, Flying
    <3>. QED  BY <1>g, <3>1
  <2>. QED  BY <1>g, <2>0, <2>2, <2>3, <1>k, <1>q
<1>7. ASSUME NEW i \in Instances, StoreL2(i) PROVE Aged'
  <2>0. UNCHANGED <<l1, hand>> /\ Land(i) /\ flight[i].step = "l2"
    BY <1>7 DEF StoreL2
  <2>1. FreshL2(l2')
    <3>1. CASE UNCHANGED l2
      BY <1>g, <3>1
    <3>2. CASE \E t \in 1 .. L2TTL : l2' = Entry(flight[i].val, t)
      <4>1. PICK t \in 1 .. L2TTL : l2' = Entry(flight[i].val, t)
        BY <3>2
      <4>2. t \in Nat /\ t >= 1 /\ t <= L2TTL
        BY Times
      <4>3. l2'.ttl = t /\ l2'.outdated = flight[i].val.outdated
        BY <1>0, <1>v, <4>1, <4>2, ValueStored
      <4>4. flight[i].val.outdated <= LoadTime /\ flight[i].val.outdated \in Nat
        <5>1. flight[i].val.outdated <= flight[i].val.held
          BY <1>g, <2>0 DEF Flying
        <5>. QED  BY <1>v, <5>1, Times
      <4>. QED  BY <4>2, <4>3, <4>4, Times DEF FreshL2
    <3>. QED  BY <1>7, <3>1, <3>2, Times DEF StoreL2
  <2>. QED  BY <1>g, <2>0, <2>1, <1>e, <1>k, <1>q
<1>8. ASSUME NEW p \in Procs, Edit(p) \/ Commit(p) \/ Publish(p) \/ Crash(p) PROVE Aged'
  <2>1. UNCHANGED <<l1, l2, flight, pc, hand>>
    BY <1>8 DEF Edit, Commit, Publish, Crash, caches, lookups
  <2>. QED  BY <2>1, <1>h, <1>k, <1>l
<1>9. ASSUME NEW p \in Procs, DeleteL1(p) PROVE Aged'
  <2>0. UNCHANGED <<l2, flight, pc, hand>> /\ l1' = [l1 EXCEPT ![on[p]] = NoEntry]
    BY <1>9 DEF DeleteL1, lookups
  <2>1. \A j \in Instances : FreshL1(l1'[j])
    BY <1>0, <1>g, <2>0 DEF L1OK, FreshL1
  <2>. QED  BY <1>g, <2>0, <2>1, <1>h, <1>k, <1>q
<1>10. ASSUME NEW p \in Procs, DeleteL2(p) PROVE Aged'
  <2>0. UNCHANGED <<l1, pc>>
    BY <1>10 DEF DeleteL2
  <2>1. CASE UNCHANGED <<l2, hand, flight>>
    BY <2>0, <2>1, <1>h, <1>k, <1>l
  <2>2. CASE l2' = NoEntry /\ ~ UNCHANGED <<l2, hand, flight>>
    <3>1. FreshL2(l2')
      BY <2>2 DEF FreshL2
    <3>2. /\ \A q \in Procs : hand'[q].outdated = hand[q].outdated /\ hand'[q].held = hand[q].held
          /\ \A i \in Instances : /\ flight'[i].step = flight[i].step
                                  /\ flight'[i].val.outdated = flight[i].val.outdated
                                  /\ flight'[i].val.held = flight[i].val.held
      BY <1>0, <1>10, <2>2, Cuts DEF DeleteL2
    <3>. QED  BY <1>g, <2>0, <3>1, <3>2, <1>q DEF Flying
  <2>. QED  BY <1>10, <2>1, <2>2 DEF DeleteL2
<1>11. ASSUME NEW i \in Instances, Deliver(i) PROVE Aged'
  <2>0. /\ UNCHANGED <<l2, flight, pc, hand>>
        /\ l1' = [l1 EXCEPT ![i] = NoEntry] \/ UNCHANGED l1
    BY <1>11 DEF Deliver, lookups
  <2>1. \A j \in Instances : FreshL1(l1'[j])
    BY <1>0, <1>g, <2>0 DEF L1OK, FreshL1
  <2>. QED  BY <1>g, <2>0, <2>1, <1>h, <1>k, <1>q
<1>12. CASE Tick
  <2>0. UNCHANGED pc /\ l2' = Age(l2) /\ l1' = [i \in Instances |-> Age(l1[i])]
    BY <1>12 DEF Tick
  <2>1. FreshL2(l2')
    <3>1. l2 \in Entries /\ l2.outdated \in Nat /\ l2.ttl \in Nat
      BY <1>0, Times DEF L2OK, Entries
    <3>2. CASE Age(l2) # NoEntry
      <4>1. /\ l2 # NoEntry /\ l2'.ttl = l2.ttl - 1 /\ l2.ttl > 1
            /\ l2'.outdated <= l2.outdated + 1 /\ l2' \in Entries
        BY <1>0, <2>0, <3>1, <3>2, EntryAges
      <4>2. l2'.outdated \in Nat /\ l2.outdated <= LoadTime + L2TTL - l2.ttl
        BY <1>g, <4>1, Times DEF FreshL2, Entries
      <4>. QED  BY <3>1, <4>1, <4>2, Times DEF FreshL2
    <3>3. CASE Age(l2) = NoEntry
      BY <2>0, <3>3 DEF FreshL2
    <3>. QED  BY <3>2, <3>3
  <2>2. ASSUME NEW i \in Instances PROVE FreshL1(l1'[i])
    <3>0. l1'[i] = Age(l1[i])
      BY <2>0
    <3>1. l1[i] \in Entries /\ l1[i].outdated \in Nat /\ l1[i].ttl \in Nat
      BY <1>0, Times DEF L1OK, Entries
    <3>2. CASE Age(l1[i]) # NoEntry
      <4>1. /\ l1[i] # NoEntry /\ l1'[i].ttl = l1[i].ttl - 1 /\ l1[i].ttl > 1
            /\ l1'[i].outdated <= l1[i].outdated + 1 /\ l1'[i] \in Entries
        BY <1>0, <3>0, <3>1, <3>2, EntryAges
      <4>2. l1'[i].outdated \in Nat /\ l1[i].outdated <= 2 * LoadTime + L2TTL - 1 + L1TTL - l1[i].ttl
        BY <1>g, <4>1, Times DEF FreshL1, Entries
      <4>. QED  BY <3>1, <4>1, <4>2, Times DEF FreshL1
    <3>3. CASE Age(l1[i]) = NoEntry
      BY <3>0, <3>3 DEF FreshL1
    <3>. QED  BY <3>2, <3>3
  <2>3. /\ \A p \in Procs : pc[p] = "keep" => hand'[p] = Hold(hand[p])
        /\ \A i \in Instances : /\ flight'[i].step = flight[i].step
                                /\ Flying(i) => flight'[i].val = Hold(flight[i].val)
        /\ \A p \in Procs : pc[p] = "keep" => hand[p].held < LoadTime
        /\ \A i \in Instances : Flying(i) => flight[i].val.held < LoadTime
    BY <1>0, <1>12, <1>f, HeldOn
  <2>4. ASSUME NEW val \in Values, val.held < LoadTime
        PROVE  /\ Hold(val) \in Values /\ Hold(val).held = val.held + 1
               /\ Hold(val).outdated <= val.outdated + 1
    BY <1>0, <1>f, <2>4, ValueHeld
  <2>5. ASSUME NEW p \in Procs, pc'[p] = "keep"
        PROVE  hand'[p].outdated <= hand'[p].held + LoadTime + L2TTL - 1
    <3>1. /\ hand'[p].held = hand[p].held + 1 /\ hand'[p].outdated <= hand[p].outdated + 1
          /\ hand'[p] \in Values
      BY <1>v, <2>0, <2>3, <2>4, <2>5
    <3>2. hand[p].outdated <= hand[p].held + LoadTime + L2TTL - 1
      BY <1>g, <2>0, <2>5
    <3>3. hand'[p].outdated \in Nat /\ hand[p].outdated \in Nat /\ hand[p].held \in Nat
      BY <1>v, <3>1
    <3>. QED  BY <3>1, <3>2, <3>3, Times
  <2>6. ASSUME NEW i \in Instances, flight'[i].step \in {"l1", "l2"}
        PROVE  flight'[i].val.outdated <= flight'[i].val.held
    <3>0. Flying(i)
      BY <2>3, <2>6 DEF Flying
    <3>1. /\ flight'[i].val.held = flight[i].val.held + 1
          /\ flight'[i].val.outdated <= flight[i].val.outdated + 1
          /\ flight'[i].val \in Values
      BY <1>v, <2>3, <2>4, <3>0
    <3>2. flight[i].val.outdated <= flight[i].val.held
      BY <1>g, <3>0
    <3>3. flight'[i].val.outdated \in Nat /\ flight[i].val.outdated \in Nat /\ flight[i].val.held \in Nat
      BY <1>v, <3>1
    <3>. QED  BY <3>1, <3>2, <3>3
  <2>. QED  BY <2>1, <2>2, <2>5, <2>6, <1>q
<1>13. CASE UNCHANGED authVars
  <2>1. UNCHANGED <<l1, l2, flight, pc, hand>>
    BY <1>13 DEF authVars, caches, lookups
  <2>. QED  BY <2>1, <1>h, <1>k, <1>l
<1>. QED
  BY <1>1, <1>2, <1>3, <1>4, <1>5, <1>6, <1>7, <1>8, <1>9, <1>10, <1>11, <1>12, <1>13
  DEF AuthNext, Load, Lookup, EditStep

\* An entry that no invalidation has passed shows another version.
Behind(e) == Stale(e) /\ ~e.late

LEMMA ReachL1 ==
  ASSUME RowOK, L1OK, NEW i \in Instances, NEW val \in Values, SetL1(i, val),
         \A j \in Instances : Behind(l1[j]) => DueL1(j), Missed(val) => DueL2
  PROVE  \A j \in Instances : Behind(l1'[j]) => DueL1(j)
<1>1. ASSUME NEW j \in Instances, Behind(l1'[j]) PROVE DueL1(j)
  <2>1. CASE l1'[j] = l1[j]
    BY <1>1, <2>1
  <2>2. ASSUME NEW t \in 1 .. L1TTL, l1'[j] = Entry(val, t) PROVE DueL1(j)
    <3>1. t \in Nat /\ t >= 1
      BY Times
    <3>2. Missed(val)
      BY <1>1, <2>2, <3>1, ValueStored DEF Behind
    <3>. QED  BY <3>2 DEF DueL1
  <2>. QED  BY <2>1, <2>2, StoredInL1
<1>. QED  BY <1>1

\* An edit that goes on keeps its invalidation due until it has been made.
LEMMA StillDue ==
  ASSUME TodoOK, NEW p \in Procs, todo[p] # <<>>, Done(p)
  PROVE  /\ DueL2 => DueL2' \/ (todo[p] \in Due /\ Head(todo[p]) = "del2" /\ todo'[p] = Told)
         /\ Head(todo[p]) # "del2" /\ DueL2 => DueL2'
         /\ todo[p] # Told => \A q \in Procs : todo[q] = Told => todo'[q] = Told
         /\ Head(todo[p]) \in {"create", "update"} => DueL2'
<1>1. todo' = [todo EXCEPT ![p] = Tail(todo[p])] /\ todo[p] \in Rests /\ DOMAIN todo = Procs
  BY DEF Done, TodoOK
<1>2. /\ todo'[p] = Tail(todo[p]) /\ \A q \in Procs \ {p} : todo'[q] = todo[q]
  BY <1>1
<1>3. /\ Head(todo[p]) \in {"create", "update"} => todo'[p] \in Due
      /\ todo[p] \in Due => Head(todo[p]) \in {"del1", "del2"}
      /\ todo[p] \in Due /\ Head(todo[p]) = "del1" => todo'[p] \in Due
      /\ todo[p] \in Due /\ Head(todo[p]) = "del2" => todo'[p] = Told
  BY <1>1, <1>2, Plans
<1>4. DueL2' <=> \E q \in Procs : todo'[q] \in Due
  BY DEF DueL2
<1>5. ASSUME DueL2, todo[p] \notin Due \/ Head(todo[p]) # "del2" PROVE DueL2'
  BY <1>2, <1>3, <1>4, <1>5 DEF DueL2
<1>6. DueL2 => DueL2' \/ (todo[p] \in Due /\ Head(todo[p]) = "del2" /\ todo'[p] = Told)
  BY <1>3, <1>5
<1>7. todo[p] # Told => \A q \in Procs : todo[q] = Told => todo'[q] = Told
  BY <1>2
<1>. QED  BY <1>3, <1>4, <1>5, <1>6, <1>7

\* Whatever misses one invalidation has another to come.
LEMMA ReachStep == Typed /\ Reach /\ [AuthNext]_authVars => Reach'
<1>. SUFFICES ASSUME Typed, Reach, [AuthNext]_authVars, faults' \subseteq {"slow"}, row'.live
     PROVE  Reach'
  BY DEF Reach
<1>0. RowOK /\ L1OK /\ L2OK /\ InboxOK /\ FlightOK /\ PcOK /\ TodoOK /\ HandOK /\ SetOK
  BY DEF Typed
<1>f. faults' = faults
  BY DEF AuthNext, Load, Lookup, EditStep, Tick, LoadRow, StoreL1, StoreL2, Deliver, LookupL1, LookupL2,
         KeepInL1, JoinFlight, Edit, Commit, DeleteL1, DeleteL2, Publish, Crash, authVars
<1>r. ~RedisFails /\ "crash" \notin faults
  BY <1>f DEF RedisFails
<1>v. /\ \A i \in Instances : flight[i].val \in Values
      /\ \A p \in Procs : hand[p] \in Values
  BY <1>0 DEF FlightOK, HandOK
<1>p. ASSUME NEW p \in Procs PROVE on[p] \in Instances
  BY <1>0, ApiKeyAuthCacheAssumption DEF SetOK
<1>g. ASSUME row' = row
      PROVE  /\ Behind(l2) => DueL2
             /\ \A i \in Instances : Behind(l1[i]) => DueL1(i)
             /\ \A i \in Instances : flight[i].step \in {"l1", "l2"} /\ Missed(flight[i].val) => DueL2
             /\ \A p \in Procs : pc[p] = "keep" /\ Missed(hand[p]) => DueL2
  BY <1>f, <1>g DEF Reach, Behind, Flying, Holding
<1>q. ASSUME row' = row, Behind(l2') => DueL2',
             \A i \in Instances : Behind(l1'[i]) => DueL1(i)',
             \A i \in Instances : flight'[i].step \in {"l1", "l2"} /\ Missed(flight'[i].val) => DueL2',
             \A p \in Procs : pc'[p] = "keep" /\ Missed(hand'[p]) => DueL2'
      PROVE  Reach'
  BY <1>q DEF Reach, Behind, Stale, Missed, Flying, Holding
\* A step that leaves the edits and the messages alone.
<1>l. ASSUME UNCHANGED <<row, todo, inbox>>, Behind(l2') => DueL2,
             \A i \in Instances : Behind(l1'[i]) => DueL1(i),
             \A i \in Instances : flight'[i].step \in {"l1", "l2"} /\ Missed(flight'[i].val) => DueL2,
             \A p \in Procs : pc'[p] = "keep" /\ Missed(hand'[p]) => DueL2
      PROVE  Reach'
  <2>1. DueL2' = DueL2 /\ \A i \in Instances : DueL1(i)' = DueL1(i)
    BY <1>l DEF DueL2, DueL1
  <2>. QED  BY <1>l, <1>q, <2>1
\* A step of the edits that leaves what the lookups hold alone.
<1>m. ASSUME UNCHANGED <<row, flight, pc, hand>>, DueL2 => DueL2',
             Behind(l2') => Behind(l2),
             \A i \in Instances : Behind(l1'[i]) => DueL1(i)'
      PROVE  Reach'
  BY <1>m, <1>g, <1>q
<1>1. ASSUME NEW p \in Procs, LookupL1(p) PROVE Reach'
  <2>1. \A q \in Procs : pc'[q] = "keep" => pc[q] = "keep"
    BY <1>0, <1>1 DEF LookupL1, PcOK
  <2>. QED  BY <1>1, <2>1, <1>g, <1>l DEF LookupL1, caches
<1>2. ASSUME NEW p \in Procs, LookupL2(p) PROVE Reach'
  <2>0. UNCHANGED <<row, todo, inbox, l1, l2, flight>>
    BY <1>2 DEF LookupL2, caches
  <2>1. CASE l2 # NoEntry /\ pc' = [pc EXCEPT ![p] = "keep"] /\ hand' = [hand EXCEPT ![p] = Read(l2)]
    <3>1. Missed(Read(l2)) => Behind(l2)
      <4>1. l2 \in Entries
        BY <1>0 DEF L2OK
      <4>. QED  BY <2>1, <4>1, ValueRead DEF Missed, Behind, Stale
    <3>2. \A q \in Procs : pc'[q] = "keep" /\ Missed(hand'[q]) => DueL2
      BY <1>0, <1>g, <2>0, <2>1, <3>1 DEF PcOK, HandOK
    <3>. QED  BY <2>0, <3>2, <1>g, <1>l
  <2>2. CASE pc' = [pc EXCEPT ![p] = "join"] /\ UNCHANGED hand
    <3>1. \A q \in Procs : pc'[q] = "keep" => pc[q] = "keep"
      BY <1>0, <2>2 DEF PcOK
    <3>. QED  BY <2>0, <2>2, <3>1, <1>g, <1>l
  <2>. QED  BY <1>2, <2>1, <2>2 DEF LookupL2
<1>3. ASSUME NEW p \in Procs, KeepInL1(p) PROVE Reach'
  <2>0. /\ UNCHANGED <<row, todo, inbox, l2, flight>> /\ pc[p] = "keep" /\ SetL1(on[p], hand[p])
        /\ pc' = [pc EXCEPT ![p] = "idle"] /\ hand' = [hand EXCEPT ![p] = Nothing]
    BY <1>3 DEF KeepInL1
  <2>1. hand[p] \in Values /\ (Missed(hand[p]) => DueL2)
    BY <1>g, <1>v, <2>0
  <2>2. \A j \in Instances : Behind(l1'[j]) => DueL1(j)
    BY <1>0, <1>g, <1>p, <2>0, <2>1, ReachL1
  <2>3. \A q \in Procs : pc'[q] = "keep" => pc[q] = "keep" /\ hand'[q] = hand[q]
    BY <1>0, <2>0 DEF PcOK, HandOK
  <2>. QED  BY <1>g, <2>0, <2>2, <2>3, <1>l
<1>4. ASSUME NEW p \in Procs, JoinFlight(p) PROVE Reach'
  <2>0. UNCHANGED <<row, todo, inbox, l1, l2, hand>> /\ pc' = [pc EXCEPT ![p] = "wait"]
    BY <1>4 DEF JoinFlight, caches
  <2>1. \A q \in Procs : pc'[q] = "keep" => pc[q] = "keep"
    BY <1>0, <2>0 DEF PcOK
  <2>2. \A i \in Instances : flight'[i].step \in {"l1", "l2"} => flight'[i] = flight[i]
    BY <1>0, <1>4, <1>p DEF JoinFlight, FlightOK
  <2>. QED  BY <1>g, <2>0, <2>1, <2>2, <1>l
<1>e. ASSUME NEW i \in Instances, Land(i)
      PROVE  /\ \A j \in Instances : flight'[j].step \in {"l1", "l2"} => flight'[j] = flight[j]
             /\ \A q \in Procs : pc'[q] = "keep" => pc[q] = "keep"
  <2>1. \A j \in Instances : flight'[j].step \in {"l1", "l2"} => flight'[j] = flight[j]
    BY <1>0, <1>e, Nothings DEF Land, FlightOK
  <2>. QED  BY <1>0, <1>e, <2>1, FlightMoves
<1>5. ASSUME NEW i \in Instances, LoadRow(i) PROVE Reach'
  <2>0. UNCHANGED <<row, todo, inbox, l1, l2, hand>>
    BY <1>5 DEF LoadRow, caches
  <2>1. CASE flight' = [flight EXCEPT ![i] = [step |-> "l1", val |-> RowRead]] /\ UNCHANGED pc
    <3>1. ~Missed(RowRead)
      BY <1>0, RowValue DEF Missed
    <3>2. \A j \in Instances : flight'[j].step \in {"l1", "l2"} /\ Missed(flight'[j].val) => DueL2
      BY <1>0, <1>g, <2>0, <2>1, <3>1 DEF FlightOK
    <3>. QED  BY <1>g, <2>0, <2>1, <3>2, <1>l
  <2>2. CASE Land(i)
    BY <1>g, <2>0, <2>2, <1>e, <1>l
  <2>. QED  BY <1>5, <2>1, <2>2 DEF LoadRow
<1>6. ASSUME NEW i \in Instances, StoreL1(i) PROVE Reach'
  <2>0. /\ UNCHANGED <<row, todo, inbox, l2, hand, pc>> /\ flight[i].step = "l1" /\ SetL1(i, flight[i].val)
        /\ flight' = [flight EXCEPT ![i].step = "l2"]
    BY <1>6 DEF StoreL1
  <2>1. flight[i].val \in Values /\ (Missed(flight[i].val) => DueL2)
    BY <1>g, <1>v, <2>0
  <2>2. \A j \in Instances : Behind(l1'[j]) => DueL1(j)
    BY <1>0, <1>g, <2>0, <2>1, ReachL1
  <2>3. \A j \in Instances : flight'[j].val = flight[j].val
                             /\ (flight'[j].step \in {"l1", "l2"} => flight[j].step \in {"l1", "l2"})
    BY <1>0, <2>0 DEF FlightOK
  <2>. QED  BY <1>g, <2>0, <2>2, <2>3, <1>l
<1>7. ASSUME NEW i \in Instances, StoreL2(i) PROVE Reach'
  <2>0. UNCHANGED <<row, todo, inbox, l1, hand>> /\ Land(i) /\ flight[i].step = "l2"
    BY <1>7 DEF StoreL2
  <2>1. Behind(l2') => DueL2
    <3>1. CASE UNCHANGED l2
      BY <1>g, <2>0, <3>1
    <3>2. CASE \E t \in 1 .. L2TTL : l2' = Entry(flight[i].val, t)
      <4>1. PICK t \in 1 .. L2TTL : l2' = Entry(flight[i].val, t)
        BY <3>2
      <4>2. t \in Nat /\ t >= 1
        BY Times
      <4>3. Behind(l2') => Missed(flight[i].val)
        BY <1>0, <1>v, <4>1, <4>2, ValueStored DEF Behind
      <4>. QED  BY <1>g, <2>0, <4>3
    <3>. QED  BY <1>7, <3>1, <3>2, Times DEF StoreL2
  <2>. QED  BY <1>g, <2>0, <2>1, <1>e, <1>l
<1>8. ASSUME NEW p \in Procs, Edit(p) PROVE Reach'
  <2>0. UNCHANGED <<row, l1, l2, inbox, flight, pc, hand>> /\ todo[p] = <<>>
    BY <1>8 DEF Edit, Free, caches, lookups
  <2>1. PICK c \in {"create", "update", "delete"} : todo' = [todo EXCEPT ![p] = Plan(c)]
    BY <1>8 DEF Edit
  <2>2. \A q \in Procs : (todo[q] \in Due => todo'[q] \in Due) /\ (todo[q] = Told => todo'[q] = Told)
    BY <1>0, <2>0, <2>1, Plans DEF TodoOK
  <2>3. DueL2 => DueL2'
    BY <2>2 DEF DueL2
  <2>4. \A i \in Instances : DueL1(i) => DueL1(i)'
    BY <2>0, <2>2, <2>3 DEF DueL1
  <2>. QED  BY <1>g, <1>m, <2>0, <2>3, <2>4
<1>9. ASSUME NEW p \in Procs, Commit(p) PROVE Reach'
  <2>0. UNCHANGED <<l1, l2, inbox, flight, pc, hand>>
    BY <1>9 DEF Commit, caches, lookups
  <2>1. PICK c \in {"create", "update", "delete"} :
          /\ NextIs(p, c)
          /\ \/ Stop(p) /\ UNCHANGED row
             \/ row' = [ver |-> row.ver + 1, live |-> (c # "delete")] /\ Done(p)
    BY <1>9 DEF Commit
  <2>2. todo[p] # <<>> /\ Head(todo[p]) = c
    BY <2>1 DEF NextIs
  <2>3. todo[p] \notin Due /\ todo[p] # Told
    BY <1>0, <2>2, Plans DEF TodoOK
  <2>4. CASE Stop(p) /\ UNCHANGED row
    <3>1. \A q \in Procs : (todo[q] \in Due => todo'[q] \in Due) /\ (todo[q] = Told => todo'[q] = Told)
      BY <1>0, <2>3, <2>4 DEF Stop, TodoOK
    <3>2. DueL2 => DueL2'
      BY <3>1 DEF DueL2
    <3>3. \A i \in Instances : DueL1(i) => DueL1(i)'
      BY <2>0, <3>1, <3>2 DEF DueL1
    <3>. QED  BY <1>g, <1>m, <2>0, <2>4, <3>2, <3>3
  <2>5. CASE row' = [ver |-> row.ver + 1, live |-> (c # "delete")] /\ Done(p)
    <3>1. c \in {"create", "update"}
      BY <2>5
    <3>2. DueL2'
      BY <1>0, <2>2, <2>5, <3>1, StillDue
    <3>. QED  BY <3>2 DEF Reach, DueL1
  <2>. QED  BY <2>1, <2>4, <2>5
<1>10. ASSUME NEW p \in Procs, DeleteL1(p) PROVE Reach'
  <2>0. /\ UNCHANGED <<row, l2, inbox, flight, pc, hand>> /\ l1' = [l1 EXCEPT ![on[p]] = NoEntry]
        /\ todo[p] # <<>> /\ Head(todo[p]) = "del1" /\ Done(p)
    BY <1>10 DEF DeleteL1, NextIs, lookups
  <2>1. /\ DueL2 => DueL2'
        /\ \A q \in Procs : todo[q] = Told => todo'[q] = Told
    <3>1. todo[p] # Told
      BY <2>0 DEF Told
    <3>. QED  BY <1>0, <2>0, <3>1, StillDue
  <2>2. \A i \in Instances : DueL1(i) => DueL1(i)'
    BY <2>0, <2>1 DEF DueL1
  <2>3. \A i \in Instances : Behind(l1'[i]) => Behind(l1[i])
    BY <1>0, <2>0 DEF L1OK, Behind, Stale
  <2>. QED  BY <1>g, <1>m, <2>0, <2>1, <2>2, <2>3
<1>11. ASSUME NEW p \in Procs, DeleteL2(p) PROVE Reach'
  <2>0. /\ UNCHANGED <<row, l1, inbox, pc>> /\ l2' = NoEntry
        /\ todo[p] # <<>> /\ Head(todo[p]) = "del2" /\ Done(p)
        /\ hand' = [q \in Procs |-> IF pc[q] = "keep" THEN [hand[q] EXCEPT !.cut = TRUE] ELSE hand[q]]
        /\ flight' = [i \in Instances |->
                        IF flight[i].step \in {"l1", "l2"} THEN [flight[i] EXCEPT !.val.cut = TRUE]
                                                           ELSE flight[i]]
    BY <1>11, <1>r DEF DeleteL2, NextIs
  <2>1. /\ \A q \in Procs : pc[q] = "keep" => hand'[q].cut
        /\ \A i \in Instances : flight'[i].step \in {"l1", "l2"} => flight'[i].val.cut
    BY <1>0, <2>0, Cuts
  <2>2. \A i \in Instances : DueL1(i) => DueL1(i)'
    <3>1. todo[p] # Told
      BY <2>0 DEF Told
    <3>2. /\ DueL2 => DueL2' \/ todo'[p] = Told
          /\ \A q \in Procs : todo[q] = Told => todo'[q] = Told
      BY <1>0, <2>0, <3>1, StillDue
    <3>. QED  BY <2>0, <3>2 DEF DueL1
  <2>3. ~Behind(l2')
    BY <2>0 DEF Behind, Stale
  <2>. QED  BY <1>g, <1>q, <2>0, <2>1, <2>2, <2>3 DEF Missed
<1>12. ASSUME NEW p \in Procs, Publish(p) PROVE Reach'
  <2>0. /\ UNCHANGED <<row, l1, l2, flight, pc, hand>> /\ inbox' = [i \in Instances |-> inbox[i] + 1]
        /\ todo[p] # <<>> /\ Head(todo[p]) = "publish" /\ Done(p)
    BY <1>12, <1>r DEF Publish, NextIs, lookups
  <2>1. DueL2 => DueL2'
    BY <1>0, <2>0, StillDue
  <2>2. \A i \in Instances : inbox'[i] > 0
    BY <1>0, <2>0 DEF InboxOK
  <2>3. \A i \in Instances : DueL1(i)'
    BY <2>2 DEF DueL1
  <2>. QED  BY <1>m, <2>0, <2>1, <2>3
<1>13. ASSUME NEW i \in Instances, Deliver(i) PROVE Reach'
  <2>0. /\ UNCHANGED <<row, l2, flight, pc, hand, todo>> /\ l1' = [l1 EXCEPT ![i] = NoEntry]
        /\ inbox' = [inbox EXCEPT ![i] = inbox[i] - 1]
    BY <1>13, <1>r DEF Deliver, lookups
  <2>1. DueL2' = DueL2
    BY <2>0 DEF DueL2
  <2>2. \A j \in Instances : Behind(l1'[j]) => j # i /\ Behind(l1[j])
    BY <1>0, <2>0 DEF L1OK, Behind, Stale
  <2>3. \A j \in Instances : j # i => inbox'[j] = inbox[j]
    BY <1>0, <2>0 DEF InboxOK
  <2>4. \A j \in Instances : j # i => (DueL1(j) => DueL1(j)')
    BY <2>0, <2>1, <2>3 DEF DueL1
  <2>. QED  BY <1>g, <1>m, <2>0, <2>1, <2>2, <2>4
<1>14. ASSUME NEW p \in Procs, Crash(p) PROVE Reach'
  BY <1>14, <1>r DEF Crash
<1>15. CASE Tick
  <2>0. UNCHANGED <<row, todo, inbox, pc>> /\ l2' = Age(l2) /\ l1' = [i \in Instances |-> Age(l1[i])]
    BY <1>15 DEF Tick
  <2>1. ASSUME NEW e \in Entries PROVE Behind(Age(e)) => Behind(e)
    BY <1>0, EntryAges DEF Behind, Stale
  <2>2. Behind(l2') => Behind(l2)
    BY <1>0, <2>0, <2>1 DEF L2OK
  <2>3. \A i \in Instances : Behind(l1'[i]) => Behind(l1[i])
    BY <1>0, <2>0, <2>1 DEF L1OK
  <2>4. /\ \A p \in Procs : pc[p] = "keep" => hand'[p] = Hold(hand[p])
        /\ \A i \in Instances : /\ flight'[i].step = flight[i].step
                                /\ Flying(i) => flight'[i].val = Hold(flight[i].val)
        /\ \A p \in Procs : pc[p] = "keep" => "slow" \in faults \/ hand[p].held < LoadTime
        /\ \A i \in Instances : Flying(i) => "slow" \in faults \/ flight[i].val.held < LoadTime
    BY <1>0, <1>15, HeldOn
  <2>5. ASSUME NEW val \in Values, "slow" \in faults \/ val.held < LoadTime
        PROVE  Missed(Hold(val)) => Missed(val)
    BY <1>0, <2>5, ValueHeld DEF Missed
  <2>6. \A p \in Procs : pc'[p] = "keep" /\ Missed(hand'[p]) => pc[p] = "keep" /\ Missed(hand[p])
    BY <1>v, <2>0, <2>4, <2>5
  <2>7. \A i \in Instances : flight'[i].step \in {"l1", "l2"} /\ Missed(flight'[i].val)
                               => flight[i].step \in {"l1", "l2"} /\ Missed(flight[i].val)
    BY <1>v, <2>4, <2>5 DEF Flying
  <2>. QED  BY <1>g, <1>l, <2>0, <2>2, <2>3, <2>6, <2>7
<1>16. CASE UNCHANGED authVars
  <2>1. UNCHANGED <<row, todo, inbox, l1, l2, flight, pc, hand>>
    BY <1>16 DEF authVars, caches, lookups
  <2>. QED  BY <1>g, <1>l, <2>1
<1>. QED
  BY <1>1, <1>2, <1>3, <1>4, <1>5, <1>6, <1>7, <1>8, <1>9, <1>10, <1>11, <1>12, <1>13, <1>14, <1>15, <1>16
  DEF AuthNext, Load, Lookup, EditStep

LEMMA AuthInitHolds == AuthInit => Typed /\ Reach /\ Aged
<1>. SUFFICES ASSUME AuthInit PROVE Typed /\ Reach /\ Aged
  OBVIOUS
<1>0. /\ row = [ver |-> 0, live |-> FALSE] /\ l1 = [i \in Instances |-> NoEntry] /\ l2 = NoEntry
      /\ inbox = [i \in Instances |-> 0] /\ flight = [i \in Instances |-> NoFlight]
      /\ pc = [p \in Procs |-> "idle"] /\ todo = [p \in Procs |-> <<>>]
      /\ hand = [p \in Procs |-> Nothing] /\ faults \in FaultSets /\ on \in Placements
  BY DEF AuthInit
<1>1. RowOK
  BY <1>0, Times DEF RowOK, Versions
<1>2. L1OK /\ L2OK /\ InboxOK
  BY <1>0, Nothings, Times DEF L1OK, L2OK, InboxOK
<1>3. FlightOK /\ PcOK /\ TodoOK /\ HandOK /\ SetOK
  BY <1>0, Nothings, Plans DEF FlightOK, PcOK, TodoOK, HandOK, SetOK
<1>4. Reach
  BY <1>0 DEF Reach
<1>5. Aged
  BY <1>0, Nothings DEF Aged, FreshL1, FreshL2, Flying, Holding
<1>. QED  BY <1>1, <1>2, <1>3, <1>4, <1>5 DEF Typed

\* Invalidations are complete: without failures, and once the edits of a live key and their
\* messages are through, what is out of date was stored by a lookup that had read it before
\* the invalidation (deleteAuthCache, after the change is committed).
THEOREM InvalidationsReachAll == AuthSpec => []InvalidationsComplete
<1>1. AuthInit => Typed /\ Reach
  BY AuthInitHolds
<1>2. Typed /\ Reach /\ [AuthNext]_authVars => (Typed /\ Reach)'
  BY TypedStep, ReachStep
<1>3. Typed /\ Reach => InvalidationsComplete
  <2>. SUFFICES ASSUME Typed, Reach PROVE InvalidationsComplete
    OBVIOUS
  <2>1. AuthTypeOK
    BY TypedGivesTypes
  <2>2. ASSUME faults \subseteq {"slow"}, row.live, \A p \in Procs : todo[p] = <<>>,
               \A i \in Instances : inbox[i] = 0
        PROVE  /\ Stale(l2) => l2.late
               /\ \A i \in Instances : Stale(l1[i]) => l1[i].late
    <3>1. ~DueL2 /\ \A i \in Instances : ~DueL1(i)
      BY <2>2, Plans DEF DueL2, DueL1
    <3>. QED  BY <2>2, <3>1 DEF Reach
  <2>. QED  BY <2>1, <2>2 DEF InvalidationsComplete
<1>. QED  BY <1>1, <1>2, <1>3, PTL DEF AuthSpec

\* What is out of date is bounded: unless lookups are slower than LoadTime no request is
\* answered from a version that was replaced longer ago than the two TTLs and two lookups,
\* with any failures (getAuthCacheEntry, setAuthCacheEntry and their TTLs).
THEOREM StalenessIsBounded == AuthSpec => []StaleIsBounded
<1>1. AuthInit => Typed /\ Aged
  BY AuthInitHolds
<1>2. Typed /\ Aged /\ [AuthNext]_authVars => (Typed /\ Aged)'
  BY TypedStep, AgedStep
<1>3. Typed /\ Aged => StaleIsBounded
  <2>. SUFFICES ASSUME Typed, Aged, "slow" \notin faults PROVE StaleIsBounded
    BY DEF StaleIsBounded
  <2>1. ASSUME NEW i \in Instances, Stale(l1[i]) PROVE l1[i].outdated < Bound
    <3>1. l1[i] \in Entries
      BY DEF Typed, L1OK
    <3>2. l1[i].outdated \in Nat /\ l1[i].ttl \in Nat
      BY <3>1, Times DEF Entries
    <3>3. l1[i].ttl >= 1 /\ l1[i].outdated <= 2 * LoadTime + L2TTL - 1 + L1TTL - l1[i].ttl
      BY <2>1 DEF Aged, FreshL1, Stale
    <3>. QED  BY <3>2, <3>3, Times
  <2>2. ASSUME NEW p \in Procs, pc[p] = "keep" PROVE hand[p].outdated < Bound
    <3>1. hand[p] \in Values
      BY DEF Typed, HandOK
    <3>2. hand[p].outdated \in Nat /\ hand[p].held \in Nat /\ hand[p].held <= LoadTime
      BY <3>1, Times DEF Values
    <3>3. hand[p].outdated <= hand[p].held + LoadTime + L2TTL - 1
      BY <2>2 DEF Aged, Holding
    <3>. QED  BY <3>2, <3>3, Times
  <2>. QED  BY <2>1, <2>2 DEF StaleIsBounded
<1>. QED  BY <1>1, <1>2, <1>3, PTL DEF AuthSpec
=============================================================================
