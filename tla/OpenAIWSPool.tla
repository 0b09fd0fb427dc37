---------------------------- MODULE OpenAIWSPool ----------------------------
(***************************************************************************)
(* The pool of upstream websocket connections of one OpenAI account.  The  *)
(* account's mutex guards the map of connections and the number of those   *)
(* being dialled; a lease is the one token of a connection's channel, and  *)
(* tokens, closing, dialling and pings happen outside the mutex.  A        *)
(* critical section is one step.  Ages, idle times and the pauses between  *)
(* prewarmings are abstracted: what depends on them may happen or not.     *)
(***************************************************************************)
EXTENDS Naturals, FiniteSets

CONSTANTS
  Clients,      \* requests and sessions that lease connections
  MaxDials,     \* bound on the connections dialled, which are numbered
  MinIdle, MaxIdle,
  QueueLimit,   \* queueLimitPerConn
  Utilization,  \* targetUtilization, in hundredths
  Settings      \* the account's limit, a bound on dials, the clients that take part,
                \* the kinds of their requests, and which of the other goroutines run

\* Any connection, a PreferredConnID, ForcePreferredConn, ForceNewConn.
Kinds == {"any", "prefer", "only", "new"}
Workers == {"pinger", "cleaner", "prewarm"}

ASSUME OpenAIWSPoolAssumption ==
  /\ MaxDials \in Nat /\ QueueLimit \in Nat \ {0}
  /\ MinIdle \in Nat /\ MaxIdle \in Nat /\ Utilization \in 1..100
  /\ IsFiniteSet(Clients) /\ Clients \cap Workers = {}
  /\ Settings \subseteq [limit : Nat \ {0}, dials : 0..MaxDials, team : SUBSET Clients,
                          kinds : SUBSET Kinds, workers : SUBSET Workers]

None == 0
Conns == 1..MaxDials
Actors == Clients \cup Workers

VARIABLES
  setup,      \* chosen once
  seq,        \* connections dialled
  conns,      \* the map
  token,      \* leaseCh holds the token
  closed,
  creating,
  prewarm,    \* prewarmActive, and how many the goroutine has yet to dial
  pinging,    \* connections the background sweep pings
  evicted,    \* taken out of the map, to be closed by the one who did it
  cl          \* the clients

vars == <<setup, seq, conns, token, closed, creating, prewarm, pinging, evicted, cl>>

MaxConns == setup.limit   \* effectiveMaxConnsByAccount

\* "queued" holds the connections whose waiters count the client: a retry runs inside the
\* first attempt, whose deferred decrement comes at the end.
Idle == [pc |-> "idle", kind |-> "any", preferred |-> None, conn |-> None,
         retry |-> 0, queued |-> [r \in {0, 1} |-> None]]

Pcs == {"idle", "pick", "dial", "grab", "grabwait", "wait", "check", "release", "close",
        "evict", "ensure", "held"}
Client == [pc : Pcs, kind : Kinds, preferred : 0..MaxDials, conn : 0..MaxDials,
           retry : {0, 1}, queued : [{0, 1} -> 0..MaxDials]]

\* Every variable stays within its type; connections are numbered as they are dialled.
TypeOK ==
  /\ setup \in Settings
  /\ seq \in 0..MaxDials /\ conns \subseteq 1..seq /\ closed \subseteq 1..seq
  /\ token \in [Conns -> BOOLEAN] /\ creating \in 0..MaxConns
  /\ prewarm \in [active : BOOLEAN, left : 0..MaxConns]
  /\ pinging \subseteq 1..seq /\ evicted \in [Actors -> SUBSET (1..seq)]
  /\ cl \in [Clients -> Client]

Init ==
  /\ setup \in Settings
  /\ seq = 0 /\ conns = {} /\ closed = {} /\ creating = 0
  /\ token = [c \in Conns |-> FALSE]
  /\ prewarm = [active |-> FALSE, left |-> 0]
  /\ pinging = {} /\ evicted = [a \in Actors |-> {}]
  /\ cl = [x \in Clients |-> Idle]

----------------------------------------------------------------------------
Waits == Clients \X {0, 1}
Waiters(c) == Cardinality({w \in Waits : cl[w[1]].queued[w[2]] = c})
Leased(c) == ~token[c]
Acquirable_Woken(c) == token[c]
Acquirable(c) == token[c] /\ c \notin closed
Unused(pool) == {c \in pool : ~Leased(c) /\ Waiters(c) = 0}
LeastBusy(pool) == {c \in pool : \A d \in pool : Waiters(c) <= Waiters(d)}
Full(pool) == Cardinality(pool) + creating >= MaxConns

IdleLimit == IF MaxIdle > MaxConns THEN MaxConns ELSE MaxIdle

\* What cleanupAccountLocked takes out: closed connections, old ones that are not leased,
\* and unused ones beyond the limit on idle connections.
Cleaned(gone) ==
  \E old \in SUBSET {c \in conns : ~Leased(c)} :
    LET rest == conns \ (closed \cup old)
        excess == IF Cardinality(rest) > IdleLimit THEN Cardinality(rest) - IdleLimit ELSE 0
        unused == Cardinality(Unused(rest))
    IN \E redundant \in SUBSET Unused(rest) :
         /\ Cardinality(redundant) = IF excess > unused THEN unused ELSE excess
         /\ gone = (conns \ rest) \cup redundant

\* An acquisition cleans up first when the last cleanup is openAIWSAcquireCleanupInterval old.
Swept(gone) == gone = {} \/ Cleaned(gone)

\* The connections a request may lease at once.
Reusable(x, pool) ==
  LET free == {c \in pool : Acquirable(c)}
  IN CASE cl[x].kind = "new" -> {}
       [] cl[x].kind = "only" -> {cl[x].preferred} \cap free
       [] cl[x].kind = "prefer" /\ cl[x].preferred \in free -> {cl[x].preferred}
       [] OTHER -> IF LeastBusy(pool) \subseteq free THEN LeastBusy(pool) ELSE free

\* pickOldestIdleConnLocked, for a forced new connection when the pool is full.
Victims(x, pool) ==
  IF cl[x].kind = "new" /\ Full(pool) /\ Unused(pool) # {}
  THEN {{c} : c \in Unused(pool)} ELSE {{}}

\* Where a request that cannot dial waits.
Targets(x, pool) ==
  IF cl[x].preferred \in pool THEN {cl[x].preferred}
  ELSE IF cl[x].kind = "only" THEN {} ELSE LeastBusy(pool)

Set(x, r) == cl' = [cl EXCEPT ![x] = r]
GoOn(x, pc) == Set(x, [cl[x] EXCEPT !.pc = pc])
Finish(x) == Set(x, Idle)
Retry(x) == IF cl[x].retry = 0
            THEN Set(x, [cl[x] EXCEPT !.pc = "pick", !.conn = None, !.retry = 1])
            ELSE Finish(x)
Waited(x) == cl[x].queued[cl[x].retry] # None

Locked_LeavesOpen(x, gone) ==
  /\ cl[x].pc = "pick" /\ evicted[x] = {}
  /\ conns' = conns \ gone
  /\ UNCHANGED <<setup, seq, closed, prewarm, pinging, evicted>>

\* The client x has the mutex and takes the connections of gone out of the map.
Locked(x, gone) ==
  /\ cl[x].pc = "pick" /\ evicted[x] = {}
  /\ conns' = conns \ gone
  /\ evicted' = [evicted EXCEPT ![x] = gone]
  /\ UNCHANGED <<setup, seq, closed, prewarm, pinging>>

----------------------------------------------------------------------------
(* Acquire.                                                                *)
Start(x) ==
  /\ cl[x].pc = "idle" /\ evicted[x] = {}
  /\ \E k \in setup.kinds, p \in 0..seq :
       /\ k \in {"any", "new"} => p = None
       /\ Set(x, [Idle EXCEPT !.pc = "pick", !.kind = k, !.preferred = p])
  /\ UNCHANGED <<setup, seq, conns, token, closed, creating, prewarm, pinging, evicted>>

Reuse(x) == \E gone \in SUBSET conns :
  /\ Swept(gone) /\ Locked(x, gone)
  /\ \E c \in Reusable(x, conns \ gone) :
       /\ token' = [token EXCEPT ![c] = FALSE]
       /\ Set(x, [cl[x] EXCEPT !.pc = "check", !.conn = c])
  /\ UNCHANGED creating

StartDial(x) == \E gone \in SUBSET conns :
  LET pool == conns \ gone
  IN /\ Swept(gone) /\ cl[x].kind # "only" /\ Reusable(x, pool) = {}
     /\ \E v \in Victims(x, pool) : ~Full(pool \ v) /\ Locked(x, gone \cup v)
     /\ creating' = creating + 1
     /\ GoOn(x, "dial")
     /\ UNCHANGED token

Queue(x) == \E gone \in SUBSET conns :
  LET pool == conns \ gone
  IN /\ Swept(gone) /\ Locked(x, gone)
     /\ cl[x].kind # "new" /\ Reusable(x, pool) = {}
     /\ cl[x].kind = "only" \/ Full(pool)
     /\ \E c \in Targets(x, pool) :
          /\ Waiters(c) < QueueLimit
          /\ Set(x, [cl[x] EXCEPT !.pc = "wait", !.conn = c,
                                  !.queued = [@ EXCEPT ![cl[x].retry] = c]])
     /\ UNCHANGED <<token, creating>>

\* No connection to wait for, or too many wait for it: Acquire returns an error.
Refuse(x) == \E gone \in SUBSET conns :
  LET pool == conns \ gone
  IN /\ Swept(gone) /\ Reusable(x, pool) = {}
     /\ \E v \in Victims(x, pool) :
          /\ cl[x].kind = "only" \/ Full(pool \ v)
          /\ Locked(x, gone \cup v)
     /\ \/ cl[x].kind = "new" \/ Targets(x, pool) = {}
        \/ \E c \in Targets(x, pool) : Waiters(c) >= QueueLimit
     /\ Finish(x)
     /\ UNCHANGED <<token, creating>>

Wait(x) ==
  /\ cl[x].pc = "wait" /\ evicted[x] = {} /\ Acquirable(cl[x].conn)
  /\ token' = [token EXCEPT ![cl[x].conn] = FALSE]
  /\ GoOn(x, "check")
  /\ UNCHANGED <<setup, seq, conns, closed, creating, prewarm, pinging, evicted>>

WaitClosed(x) ==
  /\ cl[x].pc = "wait" /\ evicted[x] = {} /\ cl[x].conn \in closed
  /\ Retry(x)
  /\ UNCHANGED <<setup, seq, conns, token, closed, creating, prewarm, pinging, evicted>>

WaitTimeout(x) ==
  /\ cl[x].pc = "wait" /\ evicted[x] = {}
  /\ Finish(x)
  /\ UNCHANGED <<setup, seq, conns, token, closed, creating, prewarm, pinging, evicted>>

\* A connection that was idle for long is pinged before it is handed out.
Check(x) ==
  /\ cl[x].pc = "check" /\ evicted[x] = {}
  /\ GoOn(x, "ensure") \/ GoOn(x, IF Waited(x) THEN "release" ELSE "close")
  /\ UNCHANGED <<setup, seq, conns, token, closed, creating, prewarm, pinging, evicted>>

ReleaseFailed(x) ==
  /\ cl[x].pc = "release"
  /\ token' = [token EXCEPT ![cl[x].conn] = TRUE]
  /\ GoOn(x, "close")
  /\ UNCHANGED <<setup, seq, conns, closed, creating, prewarm, pinging, evicted>>

CloseFailed(x) ==
  /\ cl[x].pc = "close"
  /\ closed' = closed \cup {cl[x].conn}
  /\ token' = [token EXCEPT ![cl[x].conn] = TRUE]
  /\ GoOn(x, "evict")
  /\ UNCHANGED <<setup, seq, conns, creating, prewarm, pinging, evicted>>

\* evictConn, whose close finds the connection closed already.
EvictFailed(x) ==
  /\ cl[x].pc = "evict"
  /\ conns' = conns \ {cl[x].conn}
  /\ Retry(x)
  /\ UNCHANGED <<setup, seq, token, closed, creating, prewarm, pinging, evicted>>

Dialled(x) ==
  /\ cl[x].pc = "dial" /\ evicted[x] = {} /\ seq < setup.dials
  /\ seq' = seq + 1
  /\ conns' = conns \cup {seq'}
  /\ token' = [token EXCEPT ![seq'] = TRUE]
  /\ creating' = creating - 1
  /\ Set(x, [cl[x] EXCEPT !.pc = "grab", !.conn = seq'])
  /\ UNCHANGED <<setup, closed, prewarm, pinging, evicted>>

DialFails(x) ==
  /\ cl[x].pc = "dial" /\ evicted[x] = {}
  /\ creating' = creating - 1
  /\ Finish(x)
  /\ UNCHANGED <<setup, seq, conns, token, closed, prewarm, pinging, evicted>>

\* The new connection has been in the map since the mutex was released.
Grab(x) ==
  /\ cl[x].pc \in {"grab", "grabwait"} /\ Acquirable(cl[x].conn)
  /\ token' = [token EXCEPT ![cl[x].conn] = FALSE]
  /\ GoOn(x, "ensure")
  /\ UNCHANGED <<setup, seq, conns, closed, creating, prewarm, pinging, evicted>>

GrabWaits(x) ==
  /\ cl[x].pc = "grab" /\ ~Acquirable(cl[x].conn)
  /\ GoOn(x, "grabwait")
  /\ UNCHANGED <<setup, seq, conns, token, closed, creating, prewarm, pinging, evicted>>

\* Closed or out of time.  The connection is closed, whoever leases it, and the
\* acquisition fails without another attempt.
GrabFails(x) ==
  /\ cl[x].pc = "grabwait"
  /\ Set(x, [cl[x] EXCEPT !.pc = "close", !.retry = 1])
  /\ UNCHANGED <<setup, seq, conns, token, closed, creating, prewarm, pinging, evicted>>

----------------------------------------------------------------------------
(* Prewarming.                                                             *)
InFlight == Cardinality({c \in conns : Leased(c)})
Waiting == Cardinality({w \in Waits : cl[w[1]].queued[w[2]] \in conns})

AtLeast(n, low) == IF n < low THEN low ELSE n
AtMost(n, high) == IF n > high THEN high ELSE n

TargetCount_Uncapped ==
  LET demand == InFlight + Waiting
      busy == IF demand = 1 THEN 1 ELSE (demand * 100 + Utilization - 1) \div Utilization
  IN IF demand = 0 THEN AtMost(MinIdle, MaxConns)
     ELSE AtLeast(IF Waiting > 0 THEN AtLeast(busy, Cardinality(conns) + 1) ELSE busy, MinIdle)

\* targetConnCountLocked
TargetCount ==
  LET demand == InFlight + Waiting
      busy == IF demand = 1 THEN 1 ELSE (demand * 100 + Utilization - 1) \div Utilization
      one == IF Waiting > 0 THEN AtLeast(busy, Cardinality(conns) + 1) ELSE busy
  IN IF demand = 0 THEN AtMost(MinIdle, MaxConns)
     ELSE AtMost(AtLeast(one, AtMost(MinIdle, MaxConns)), MaxConns)

\* ensureTargetIdleAsync, after which Acquire returns the lease.  It may be too early, or
\* suppressed by failures.
Ensure(x) ==
  /\ cl[x].pc = "ensure"
  /\ \/ UNCHANGED <<creating, prewarm>>
     \/ LET current == Cardinality(conns) + creating
        IN /\ "prewarm" \in setup.workers /\ ~prewarm.active /\ current < TargetCount
           /\ creating' = creating + (TargetCount - current)
           /\ prewarm' = [active |-> TRUE, left |-> TargetCount - current]
  /\ Set(x, [Idle EXCEPT !.pc = "held", !.kind = cl[x].kind, !.conn = cl[x].conn])
  /\ UNCHANGED <<setup, seq, conns, token, closed, pinging, evicted>>

Fewer == IF creating > 0 THEN creating - 1 ELSE creating

PrewarmDialled ==
  /\ prewarm.left > 0 /\ evicted["prewarm"] = {} /\ seq < setup.dials
  /\ prewarm' = [prewarm EXCEPT !.left = @ - 1]
  /\ creating' = Fewer
  /\ seq' = seq + 1
  /\ token' = [token EXCEPT ![seq'] = TRUE]
  /\ IF Cardinality(conns) >= MaxConns
     THEN /\ evicted' = [evicted EXCEPT !["prewarm"] = {seq'}]
          /\ UNCHANGED conns
     ELSE /\ conns' = conns \cup {seq'}
          /\ UNCHANGED evicted
  /\ UNCHANGED <<setup, closed, pinging, cl>>

PrewarmFails ==
  /\ prewarm.left > 0 /\ evicted["prewarm"] = {}
  /\ prewarm' = [prewarm EXCEPT !.left = @ - 1]
  /\ creating' = Fewer
  /\ UNCHANGED <<setup, seq, conns, token, closed, pinging, evicted, cl>>

PrewarmEnds ==
  /\ prewarm.active /\ prewarm.left = 0 /\ evicted["prewarm"] = {}
  /\ prewarm' = [prewarm EXCEPT !.active = FALSE]
  /\ UNCHANGED <<setup, seq, conns, token, closed, creating, pinging, evicted, cl>>

----------------------------------------------------------------------------
(* Leases, and the background workers.                                     *)
MarkBroken(x) ==
  /\ cl[x].pc = "held" /\ evicted[x] = {} /\ cl[x].conn \in conns
  /\ conns' = conns \ {cl[x].conn}
  /\ evicted' = [evicted EXCEPT ![x] = {cl[x].conn}]
  /\ UNCHANGED <<setup, seq, token, closed, creating, prewarm, pinging, cl>>

Release_Forgotten(x) ==
  /\ cl[x].pc = "held" /\ evicted[x] = {}
  /\ Finish(x)
  /\ UNCHANGED <<setup, seq, conns, token, closed, creating, prewarm, pinging, evicted>>

Release(x) ==
  /\ cl[x].pc = "held" /\ evicted[x] = {}
  /\ token' = [token EXCEPT ![cl[x].conn] = TRUE]
  /\ Finish(x)
  /\ UNCHANGED <<setup, seq, conns, closed, creating, prewarm, pinging, evicted>>

\* close wakes who waits for the connection with a token of its own.
CloseEvicted(a) == \E c \in evicted[a] :
  /\ evicted' = [evicted EXCEPT ![a] = @ \ {c}]
  /\ closed' = closed \cup {c}
  /\ token' = [token EXCEPT ![c] = TRUE]
  /\ UNCHANGED <<setup, seq, conns, creating, prewarm, pinging, cl>>

Ping == \E c \in Unused(conns) \ pinging :
  /\ "pinger" \in setup.workers
  /\ pinging' = pinging \cup {c}
  /\ UNCHANGED <<setup, seq, conns, token, closed, creating, prewarm, evicted, cl>>

Pinged == \E c \in pinging \ closed :
  /\ pinging' = pinging \ {c}
  /\ UNCHANGED <<setup, seq, conns, token, closed, creating, prewarm, evicted, cl>>

PingFails == \E c \in pinging :
  /\ pinging' = pinging \ {c}
  /\ conns' = conns \ {c}
  /\ evicted' = [evicted EXCEPT !["pinger"] = @ \cup ({c} \cap conns)]
  /\ UNCHANGED <<setup, seq, token, closed, creating, prewarm, cl>>

Cleanup == \E gone \in SUBSET conns :
  /\ "cleaner" \in setup.workers /\ evicted["cleaner"] = {} /\ Cleaned(gone)
  /\ conns' = conns \ gone
  /\ evicted' = [evicted EXCEPT !["cleaner"] = gone]
  /\ UNCHANGED <<setup, seq, token, closed, creating, prewarm, pinging, cl>>

----------------------------------------------------------------------------
Acquiring(x) ==
  \/ Reuse(x) \/ StartDial(x) \/ Queue(x) \/ Refuse(x) \/ WaitClosed(x) \/ Check(x)
  \/ ReleaseFailed(x) \/ CloseFailed(x) \/ EvictFailed(x) \/ Dialled(x) \/ DialFails(x)
  \/ GrabWaits(x) \/ Ensure(x)

Next ==
  \/ \E x \in setup.team : \/ Start(x) \/ Acquiring(x) \/ Wait(x) \/ WaitTimeout(x)
                        \/ Grab(x) \/ GrabFails(x) \/ MarkBroken(x) \/ Release(x)
  \/ PrewarmDialled \/ PrewarmFails \/ PrewarmEnds
  \/ \E a \in Actors : CloseEvicted(a)
  \/ Ping \/ Pinged \/ PingFails \/ Cleanup

Spec == Init /\ [][Next]_vars

Progress(x) ==
  \/ Acquiring(x) \/ Wait(x) \/ Grab(x) \/ Release(x) \/ CloseEvicted(x)
  \/ cl[x].conn \in closed /\ GrabFails(x)

\* Goroutines go on and a lease is released in the end.  The fairness is strong because
\* a channel hands its token to the receiver that has waited longest.
FairSpec ==
  /\ Spec
  /\ \A x \in Clients : SF_vars(Progress(x))
  /\ WF_vars(\E a \in Workers : CloseEvicted(a))

----------------------------------------------------------------------------
Holds(x) == cl[x].pc \in {"check", "ensure", "held"}

\* Two requests never lease the same connection: the token that close puts back, so that
\* waiters wake, is not taken for the lease's end.
ExclusiveLease ==
  \A x, y \in Clients : Holds(x) /\ Holds(y) /\ cl[x].conn = cl[y].conn => x = y

\* The account never has more connections than it may, those being dialled included, and
\* the count of the latter is exact: a reservation of creating is given back once.
WithinLimit ==
  /\ Cardinality(conns) + creating <= MaxConns
  /\ creating = prewarm.left + Cardinality({x \in Clients : cl[x].pc = "dial"})

\* A connection that is out of the map is closed, or whoever took it out is about to close
\* it: none is left open that the pool has forgotten.
NoneForgotten ==
  \A c \in 1..seq : c \in closed \/ c \in conns \/ \E a \in Actors : c \in evicted[a]

\* Every acquisition ends, without its deadline: a request waits for a connection only as
\* long as another one leases it, and wakes when it is closed.
AcquireEnds ==
  \A x \in Clients : cl[x].pc = "pick" ~> cl[x].pc \in {"idle", "held"}
=============================================================================
