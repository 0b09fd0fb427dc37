-------------------------- MODULE ApiKeyAuthCache --------------------------
(***************************************************************************)
(* How requests look up one API key: the row in the database, an entry in  *)
(* Redis that all instances share (L2), and one in the memory of every     *)
(* instance (L1), each with a TTL.  A miss is loaded once per instance     *)
(* (singleflight).  Whoever changes the key deletes the entries and        *)
(* publishes a message that makes every instance delete its own.           *)
(*                                                                         *)
(* Time passes in ticks.  An entry says which version of the row it shows. *)
(***************************************************************************)
EXTENDS Naturals, Sequences

CONSTANTS
  Procs,        \* concurrent requests: lookups and edits
  Instances,    \* instances of the gateway
  Placements,   \* which instance each request may run in
  L1TTL, L2TTL, NegativeTTL,   \* the largest TTLs, after jitter, in ticks
  LoadTime,     \* the most ticks between a read and the writes that follow from it
  MaxChanges,   \* bound on the number of times the row changes
  MaxPending,   \* bound: no edit starts while more messages wait for an instance
  FaultSets     \* the sets of faults the key is exposed to

\* "redis": calls to Redis fail, messages get lost.  "crash": an edit stops between two
\* steps.  "slow": a lookup takes longer than LoadTime.
Faults == {"redis", "crash", "slow"}

ASSUME ApiKeyAuthCacheAssumption ==
  /\ L1TTL \in Nat \ {0} /\ L2TTL \in Nat \ {0} /\ NegativeTTL \in 1 .. L2TTL
  /\ Placements \subseteq [Procs -> Instances]
  /\ LoadTime \in Nat /\ MaxChanges \in Nat /\ MaxPending \in Nat
  /\ FaultSets \subseteq SUBSET Faults

VARIABLES
  faults,   \* chosen at the start
  row,      \* the row: its version, and whether the key exists
  l1, l2,   \* the entries
  inbox,    \* messages published and not yet delivered, for every instance
  flight,   \* the load under way in every instance
  on,       \* the instance each request runs in
  pc,       \* what a lookup does next
  todo,     \* what an edit still has to do
  hand      \* the entry a lookup has read from L2

caches   == <<l1, l2, inbox>>
lookups  == <<flight, pc, hand>>
authVars == <<faults, row, caches, lookups, on, todo>>

Versions == 0 .. MaxChanges
\* The longest way a replaced version can go: read from the database, held for LoadTime,
\* stored in L2, read at the end of its TTL, held again, stored in L1 until the end.
Bound == 2 * LoadTime + L2TTL + L1TTL

\* outdated: for how many ticks the row has been a different one.  late: when the entry
\* was stored, the invalidation for a newer version had already passed L2.
NoEntry == [ver |-> 0, found |-> FALSE, outdated |-> 0, ttl |-> 0, late |-> FALSE]

\* What has been read and not stored yet.  cut: an invalidation deleted the L2 entry since.
Read(e) == [ver |-> e.ver, found |-> e.found, outdated |-> e.outdated, late |-> e.late,
            held |-> 0, cut |-> FALSE]
Nothing == Read(NoEntry)
NoFlight == [step |-> "none", val |-> Nothing]

AuthInit ==
  /\ faults \in FaultSets
  /\ row = [ver |-> 0, live |-> FALSE]
  /\ l1 = [i \in Instances |-> NoEntry] /\ l2 = NoEntry
  /\ inbox = [i \in Instances |-> 0]
  /\ flight = [i \in Instances |-> NoFlight]
  /\ on \in Placements
  /\ pc = [p \in Procs |-> "idle"]
  /\ todo = [p \in Procs |-> <<>>]
  /\ hand = [p \in Procs |-> Nothing]

-----------------------------------------------------------------------------
RedisFails == "redis" \in faults
Free(p)    == pc[p] = "idle" /\ todo[p] = <<>>

\* setAuthCacheL1, setAuthCacheEntry: a value becomes an entry.
Entry(val, ttl) == [ver |-> val.ver, found |-> val.found, outdated |-> val.outdated, ttl |-> ttl,
                    late |-> val.late \/ (val.cut /\ val.ver # row.ver)]

Lesser(a, b) == IF a < b THEN a ELSE b

\* A local cache under pressure may drop the value.
SetL1(i, val) ==
  \/ l1' = [l1 EXCEPT ![i] = Entry(val, IF val.found THEN L1TTL ELSE Lesser(L1TTL, NegativeTTL))]
  \/ UNCHANGED l1

\* GetByKey, getAuthCacheEntry: an entry in L1 is the answer.
LookupL1(p) ==
  /\ Free(p)
  /\ \/ l1[on[p]] # NoEntry /\ UNCHANGED pc
     \/ l1[on[p]] = NoEntry /\ pc' = [pc EXCEPT ![p] = "l2"]
  /\ UNCHANGED <<faults, row, caches, flight, hand, on, todo>>

\* An entry in L2 is kept in L1 before it is the answer.
LookupL2(p) ==
  /\ pc[p] = "l2"
  /\ \/ /\ l2 # NoEntry
        /\ pc' = [pc EXCEPT ![p] = "keep"]
        /\ hand' = [hand EXCEPT ![p] = Read(l2)]
     \/ /\ l2 = NoEntry \/ RedisFails
        /\ pc' = [pc EXCEPT ![p] = "join"]
        /\ UNCHANGED hand
  /\ UNCHANGED <<faults, row, caches, flight, on, todo>>

\* Mutant: the entry is stored in both caches, so that a look at it prolongs its life.
KeepInL1_WriteBack(p) ==
  /\ pc[p] = "keep"
  /\ SetL1(on[p], hand[p])
  /\ l2' = Entry(hand[p], L2TTL)
  /\ pc' = [pc EXCEPT ![p] = "idle"]
  /\ hand' = [hand EXCEPT ![p] = Nothing]
  /\ UNCHANGED <<faults, row, inbox, flight, on, todo>>

KeepInL1(p) ==
  /\ pc[p] = "keep"
  /\ SetL1(on[p], hand[p])
  /\ pc' = [pc EXCEPT ![p] = "idle"]
  /\ hand' = [hand EXCEPT ![p] = Nothing]
  /\ UNCHANGED <<faults, row, l2, inbox, flight, on, todo>>

\* authGroup.Do: the first request loads, the others wait for its result.
JoinFlight(p) ==
  /\ pc[p] = "join"
  /\ pc' = [pc EXCEPT ![p] = "wait"]
  /\ IF flight[on[p]] = NoFlight
     THEN flight' = [flight EXCEPT ![on[p]].step = "read"]
     ELSE UNCHANGED flight
  /\ UNCHANGED <<faults, row, caches, hand, on, todo>>

\* The flight of instance i ends, with an answer or an error for all who wait.
Land(i) ==
  /\ flight' = [flight EXCEPT ![i] = NoFlight]
  /\ pc' = [p \in Procs |-> IF pc[p] = "wait" /\ on[p] = i THEN "idle" ELSE pc[p]]

RowRead == Read([NoEntry EXCEPT !.ver = row.ver, !.found = row.live])

\* loadAuthCacheEntry: the row, or the fact that there is none.
LoadRow(i) ==
  /\ flight[i].step = "read"
  /\ \/ /\ flight' = [flight EXCEPT ![i] = [step |-> "l1", val |-> RowRead]]
        /\ UNCHANGED pc
     \/ Land(i)                                              \* the query fails
  /\ UNCHANGED <<faults, row, caches, hand, on, todo>>

StoreL1(i) ==
  /\ flight[i].step = "l1"
  /\ SetL1(i, flight[i].val)
  /\ flight' = [flight EXCEPT ![i].step = "l2"]
  /\ UNCHANGED <<faults, row, l2, inbox, pc, hand, on, todo>>

StoreL2(i) ==
  /\ flight[i].step = "l2"
  /\ \/ l2' = Entry(flight[i].val, IF flight[i].val.found THEN L2TTL ELSE NegativeTTL)
     \/ RedisFails /\ UNCHANGED l2
  /\ Land(i)
  /\ UNCHANGED <<faults, row, l1, inbox, hand, on, todo>>

-----------------------------------------------------------------------------
\* Mutant: the entries are deleted before the change is committed.
Plan_InvalidateFirst(change) == <<"del1", "del2", "publish", change>>

\* Create, Update and the administrators' changes commit first; Delete commits last.
Plan(change) == IF change = "delete" THEN <<"del1", "del2", "publish", "delete">>
                                     ELSE <<change, "del1", "del2", "publish">>

Edit(p) ==
  /\ Free(p) /\ row.ver < MaxChanges /\ \A i \in Instances : inbox[i] <= MaxPending
  /\ \/ row.live /\ \E change \in {"update", "delete"} : todo' = [todo EXCEPT ![p] = Plan(change)]
     \/ ~row.live /\ todo' = [todo EXCEPT ![p] = Plan("create")]
  /\ UNCHANGED <<faults, row, caches, lookups, on>>

NextIs(p, step) == todo[p] # <<>> /\ Head(todo[p]) = step
Done(p)         == todo' = [todo EXCEPT ![p] = Tail(todo[p])]
Stop(p)         == todo' = [todo EXCEPT ![p] = <<>>]

\* The transaction; it fails when another edit created or deleted the key meanwhile.
Commit(p) ==
  /\ \E change \in {"create", "update", "delete"} :
       /\ NextIs(p, change)
       /\ IF row.live = (change # "create")
          THEN /\ row.ver < MaxChanges                   \* bound
               /\ row' = [ver |-> row.ver + 1, live |-> (change # "delete")]
               /\ Done(p)
          ELSE Stop(p) /\ UNCHANGED row
  /\ UNCHANGED <<faults, caches, lookups, on>>

\* deleteAuthCache, in three steps.
DeleteL1(p) ==
  /\ NextIs(p, "del1")
  /\ l1' = [l1 EXCEPT ![on[p]] = NoEntry]
  /\ Done(p)
  /\ UNCHANGED <<faults, row, l2, inbox, lookups, on>>

DeleteL2(p) ==
  /\ NextIs(p, "del2")
  /\ \/ /\ l2' = NoEntry
        /\ hand' = [q \in Procs |-> IF pc[q] = "keep" THEN [hand[q] EXCEPT !.cut = TRUE] ELSE hand[q]]
        /\ flight' = [i \in Instances |->
                        IF flight[i].step \in {"l1", "l2"} THEN [flight[i] EXCEPT !.val.cut = TRUE]
                                                           ELSE flight[i]]
     \/ RedisFails /\ UNCHANGED <<l2, hand, flight>>
  /\ Done(p)
  /\ UNCHANGED <<faults, row, l1, inbox, pc, on>>

\* Mutant: the message reaches the other instances only.
Publish_OthersOnly(p) ==
  /\ NextIs(p, "publish")
  /\ inbox' = [i \in Instances |-> IF i = on[p] THEN inbox[i] ELSE inbox[i] + 1]
  /\ Done(p)
  /\ UNCHANGED <<faults, row, l1, l2, lookups, on>>

\* Every instance is subscribed, the publisher's too.
Publish(p) ==
  /\ NextIs(p, "publish")
  /\ \/ inbox' = [i \in Instances |-> inbox[i] + 1]
     \/ RedisFails /\ UNCHANGED inbox
  /\ Done(p)
  /\ UNCHANGED <<faults, row, l1, l2, lookups, on>>

\* The subscriber of instance i.
Deliver(i) ==
  /\ inbox[i] > 0
  /\ inbox' = [inbox EXCEPT ![i] = @ - 1]
  /\ \/ l1' = [l1 EXCEPT ![i] = NoEntry]
     \/ RedisFails /\ UNCHANGED l1
  /\ UNCHANGED <<faults, row, l2, lookups, on, todo>>

-----------------------------------------------------------------------------
Crash(p) ==
  /\ "crash" \in faults /\ todo[p] # <<>>
  /\ Stop(p)
  /\ UNCHANGED <<faults, row, caches, lookups, on>>

Outdated(e) == IF e.ver = row.ver THEN 0 ELSE Lesser(e.outdated + 1, Bound)
Age(e)      == IF e.ttl <= 1 THEN NoEntry ELSE [e EXCEPT !.ttl = @ - 1, !.outdated = Outdated(e)]
Hold(val)   == [val EXCEPT !.held = IF "slow" \in faults THEN 0 ELSE @ + 1,
                           !.outdated = Outdated(val)]

Holding(p) == pc[p] = "keep"
Flying(i)  == flight[i].step \in {"l1", "l2"}

Tick ==
  /\ \/ "slow" \in faults
     \/ /\ \A p \in Procs : Holding(p) => hand[p].held < LoadTime
        /\ \A i \in Instances : Flying(i) => flight[i].val.held < LoadTime
  /\ l1' = [i \in Instances |-> Age(l1[i])] /\ l2' = Age(l2)
  /\ hand' = [p \in Procs |-> IF Holding(p) THEN Hold(hand[p]) ELSE hand[p]]
  /\ flight' = [i \in Instances |->
                  IF Flying(i) THEN [flight[i] EXCEPT !.val = Hold(@)] ELSE flight[i]]
  /\ UNCHANGED <<faults, row, inbox, pc, on, todo>>

Lookup(p)   == LookupL2(p) \/ KeepInL1(p) \/ JoinFlight(p)
Load(i)     == LoadRow(i) \/ StoreL1(i) \/ StoreL2(i)
EditStep(p) == Commit(p) \/ DeleteL1(p) \/ DeleteL2(p) \/ Publish(p)

AuthNext == \/ Tick
            \/ \E i \in Instances : Load(i) \/ Deliver(i)
            \/ \E p \in Procs : LookupL1(p) \/ Lookup(p) \/ Edit(p) \/ EditStep(p) \/ Crash(p)

AuthSpec == AuthInit /\ [][AuthNext]_authVars

\* The clock runs, and lookups that were started go on.
AuthFairSpec == /\ AuthSpec /\ WF_authVars(Tick)
                /\ \A p \in Procs : WF_authVars(Lookup(p))
                /\ \A i \in Instances : WF_authVars(Load(i))
-----------------------------------------------------------------------------
Entries == [ver : Versions, found : BOOLEAN, outdated : 0 .. Bound, ttl : Nat, late : BOOLEAN]
Values  == [ver : Versions, found : BOOLEAN, outdated : 0 .. Bound, held : 0 .. LoadTime,
            cut : BOOLEAN, late : BOOLEAN]

\* Every variable stays within its type; no entry outlives its cache's TTL.
AuthTypeOK ==
  /\ faults \in FaultSets
  /\ row \in [ver : Versions, live : BOOLEAN]
  /\ l1 \in [Instances -> Entries] /\ \A i \in Instances : l1[i].ttl <= L1TTL
  /\ l2 \in Entries /\ l2.ttl <= L2TTL
  /\ inbox \in [Instances -> Nat]
  /\ flight \in [Instances -> [step : {"none", "read", "l1", "l2"}, val : Values]]
  /\ on \in Placements
  /\ pc \in [Procs -> {"idle", "l2", "keep", "join", "wait"}]
  /\ todo \in [Procs -> Seq({"create", "update", "delete", "del1", "del2", "publish"})]
  /\ hand \in [Procs -> Values]

Stale(e) == e # NoEntry /\ e.ver # row.ver

\* Without faults, and once no invalidation is under way, an entry of a live key that is
\* out of date got there by a lookup that read it before the invalidation and stored it
\* afterwards.  (Delete invalidates before it commits, so that nothing is said of a key
\* that is gone.)  No entry is ever given more than its cache's TTL (AuthTypeOK).
InvalidationsComplete ==
  /\ AuthTypeOK
  /\ (/\ faults \subseteq {"slow"} /\ row.live
      /\ \A p \in Procs : todo[p] = <<>>
      /\ \A i \in Instances : inbox[i] = 0)
     => /\ Stale(l2) => l2.late
        /\ \A i \in Instances : Stale(l1[i]) => l1[i].late

\* Whatever gets lost, no request is answered from a version that was replaced longer ago
\* than the two TTLs and two slow lookups take.
StaleIsBounded ==
  "slow" \notin faults =>
    /\ \A i \in Instances : Stale(l1[i]) => l1[i].outdated < Bound
    /\ \A p \in Procs : pc[p] = "keep" /\ hand[p].ver # row.ver => hand[p].outdated < Bound

\* Under all faults, once the key is left alone every entry shows its last version.
EventuallyAgrees == <>[](~Stale(l2) /\ \A i \in Instances : ~Stale(l1[i]))
=============================================================================
