------------------------- MODULE SchedulerSnapshot -------------------------
(***************************************************************************)
(* How the scheduler learns of changed accounts.  The rows are in the      *)
(* database; Redis holds, for one bucket (a group's accounts of one        *)
(* platform), a versioned list of the schedulable accounts, and beside it  *)
(* a copy of every account.  Whoever changes a row writes an event to the  *)
(* outbox and may refresh the account's copy at once.  Pollers handle the  *)
(* events beyond a watermark: they refresh the copy and rebuild the list,  *)
(* under a lock.  A periodic job rebuilds it too, and a request that finds *)
(* no usable list builds one without the lock.                             *)
(***************************************************************************)
EXTENDS Naturals, Sequences

CONSTANTS
  Accounts,
  Pollers,     \* outbox workers, one per instance
  Periodic,    \* full rebuild workers
  Requests,    \* requests that may fall back to the database
  Editors,     \* concurrent changes of accounts
  MaxFailures, \* bound on failures
  FirstRows,   \* the rows at the start
  Settings     \* the bucket's platform, who takes part, the faults they are exposed
               \* to, and a bound on changes and uses of accounts

\* "fail": a call of a worker fails.  "crash": a worker dies.  "lost": a change is not
\* followed by its event or by its refresh.  "burst": an account changes twice within
\* schedulerOutboxDedupWindow, or while the first change goes on.  "late": a transaction
\* commits after later events were written.  "overlap": several workers are at work at the
\* same time.  "slow": a rebuild outlives its lock.
Faults == {"fail", "crash", "lost", "burst", "late", "overlap", "slow"}

Workers == Pollers \cup Periodic \cup Requests

ASSUME SchedulerSnapshotAssumption ==
  /\ FirstRows \subseteq [Accounts -> {"on", "off"}]
  /\ Settings \subseteq [platform : {"grok", "other"}, team : SUBSET (Workers \cup Editors),
                   faults : SUBSET Faults, changes : Nat]
  /\ MaxFailures \in Nat /\ Accounts # {}
  /\ Pollers \cap Periodic = {} /\ Pollers \cap Requests = {} /\ Periodic \cap Requests = {}

VARIABLES
  platform, team, faults,   \* chosen once
  changes, failures,  \* left
  db,                 \* the rows
  outbox,             \* the events, by id; one of a transaction is visible once it commits
  acc,                \* the copies of the accounts
  active,             \* the list that is active
  drawn,              \* workers with a version newer than the active one, oldest first
  lock,               \* the bucket's rebuild lock
  watermark,
  work, edit,         \* what the workers and the editors do
  handled             \* events that a poller has dealt with

setup == <<platform, team, faults>>
bucket == <<active, drawn, lock>>
vars == <<platform, team, faults, changes, failures, db, outbox, acc, active, drawn, lock,
          watermark, work, edit, handled>>

\* "spent": the account's quota is used up.  The queries list it nevertheless; it is
\* refused by IsSchedulable.
Rows == {"on", "off", "spent", "gone"}
Listed(rows) == {a \in Accounts : rows[a] \in {"on", "spent"}}

Resting == [pc |-> "idle", todo |-> {}, last |-> 0, seen |-> FALSE, hand |-> "none", rows |-> [a \in Accounts |-> "off"]]
Start(a, pc) == [pc |-> pc, acct |-> a, type |-> "account", groups |-> FALSE, sync |-> FALSE, hand |-> "none", id |-> 0]
Still == Start(CHOOSE a \in Accounts : TRUE, "idle")

Init ==
  /\ \E s \in Settings : platform = s.platform /\ team = s.team /\ faults = s.faults /\ changes = s.changes
  /\ failures = MaxFailures
  /\ db \in FirstRows
  /\ outbox = <<>> /\ watermark = 0 /\ handled = {}
  /\ acc = [a \in Accounts |-> "none"]
  /\ active = {} /\ drawn = <<>> /\ lock = FALSE
  /\ work = [w \in Workers |-> Resting]
  /\ edit = [e \in Editors |-> Still]

-----------------------------------------------------------------------------
(* Changes *)

InTransaction(e) == edit[e].pc = "commit"
\* A transaction that has changed a row keeps others from changing it.
RowFree(a) ==
  \A e \in Editors : edit[e].acct = a => IF "burst" \in faults THEN ~InTransaction(e) ELSE edit[e].pc = "idle"
\* Ids are drawn when rows are inserted.
MayDraw == "late" \in faults \/ \A e \in Editors : ~InTransaction(e)

\* The insertion is left out within a second of an event of the same kind and account.
Repeated(a, type) ==
  /\ type = "account" /\ "burst" \in faults
  /\ \E i \in DOMAIN outbox : outbox[i].visible /\ outbox[i].acct = a /\ outbox[i].type = type

Insert(a, type, groups, visible) ==
  /\ MayDraw
  /\ outbox' = Append(outbox, [acct |-> a, type |-> type, groups |-> groups, visible |-> visible])

Begin(e) == edit[e].pc = "idle" /\ changes > 0 /\ changes' = changes - 1

\* SetSchedulable, SetError, SetRateLimited, SetOverloaded, ResetQuotaUsed, Update, BulkUpdate
\* and the like: whether they name the groups, or refresh the copy, differs.
Change(e) ==
  /\ Begin(e)
  /\ \E a \in Accounts, row \in {"on", "off"}, type \in {"account", "bulk"}, groups, sync \in BOOLEAN :
        /\ db[a] \notin {"gone", row} /\ RowFree(a)
        /\ type = "bulk" => ~groups /\ sync = (row = "off")
        /\ db' = [db EXCEPT ![a] = row]
        /\ edit' = [edit EXCEPT ![e] = [Start(a, "enqueue") EXCEPT !.type = type, !.groups = groups, !.sync = sync]]
  /\ UNCHANGED <<outbox, acc>>

Delete(e) ==
  /\ Begin(e)
  /\ \E a \in Accounts :
        /\ db[a] # "gone" /\ RowFree(a)
        /\ db' = [db EXCEPT ![a] = "gone"]
        /\ edit' = [edit EXCEPT ![e] = [Start(a, "forget") EXCEPT !.groups = TRUE]]
  /\ UNCHANGED <<outbox, acc>>

Forget(e) ==
  /\ edit[e].pc = "forget"
  /\ edit' = [edit EXCEPT ![e].pc = "enqueue"]
  /\ \/ acc' = [acc EXCEPT ![edit[e].acct] = "none"]
     \/ "lost" \in faults /\ UNCHANGED acc
  /\ UNCHANGED <<changes, db, outbox>>

\* A charge uses up the quota, in a transaction that also writes the event.
Charge(e) ==
  /\ Begin(e)
  /\ \E a \in Accounts :
        /\ db[a] = "on" /\ RowFree(a)
        /\ \/ /\ Insert(a, "account", FALSE, FALSE)
              /\ edit' = [edit EXCEPT ![e] = [Start(a, "commit") EXCEPT !.id = Len(outbox) + 1]]
           \/ /\ Repeated(a, "account")
              /\ edit' = [edit EXCEPT ![e] = Start(a, "commit")]
              /\ UNCHANGED outbox
  /\ UNCHANGED <<db, acc>>

Commit(e) ==
  /\ InTransaction(e)
  /\ edit' = [edit EXCEPT ![e] = Still]
  /\ \/ /\ db' = [db EXCEPT ![edit[e].acct] = "spent"]
        /\ outbox' = IF edit[e].id = 0 THEN outbox ELSE [outbox EXCEPT ![edit[e].id].visible = TRUE]
     \/ UNCHANGED <<db, outbox>>
  /\ UNCHANGED <<changes, acc>>

\* UpdateLastUsed.
Use(e) ==
  /\ Begin(e)
  /\ \E a \in Accounts : db[a] # "gone" /\ Insert(a, "used", FALSE, TRUE)
  /\ UNCHANGED <<db, acc, edit>>

Enqueue(e) ==
  /\ edit[e].pc = "enqueue"
  /\ \/ Insert(edit[e].acct, edit[e].type, edit[e].groups, TRUE)
     \/ Repeated(edit[e].acct, edit[e].type) /\ UNCHANGED outbox
     \/ "lost" \in faults /\ UNCHANGED outbox
  /\ edit' = [edit EXCEPT ![e] = IF edit[e].sync THEN Start(edit[e].acct, "read") ELSE Still]
  /\ UNCHANGED <<changes, db, acc>>

\* syncSchedulerAccountSnapshot.
SyncRead(e) ==
  /\ edit[e].pc = "read"
  /\ edit' = [edit EXCEPT ![e] = IF db[edit[e].acct] = "gone" THEN Still
                                 ELSE [Start(edit[e].acct, "write") EXCEPT !.hand = db[edit[e].acct]]]
  /\ UNCHANGED <<changes, db, outbox, acc>>

SyncWrite(e) ==
  /\ edit[e].pc = "write"
  /\ edit' = [edit EXCEPT ![e] = Still]
  /\ \/ acc' = [acc EXCEPT ![edit[e].acct] = edit[e].hand]
     \/ "lost" \in faults /\ UNCHANGED acc
  /\ UNCHANGED <<changes, db, outbox>>

Edit(e) ==
  /\ e \in team
  /\ \/ Change(e) \/ Delete(e) \/ Forget(e) \/ Charge(e) \/ Commit(e) \/ Use(e)
     \/ Enqueue(e) \/ SyncRead(e) \/ SyncWrite(e)
  /\ UNCHANGED <<failures, bucket, watermark, work, handled>>

-----------------------------------------------------------------------------
(* The workers *)

Go(w, pc) == work' = [work EXCEPT ![w].pc = pc]
Rest(w) == work' = [work EXCEPT ![w] = Resting]

Alone(w) == "overlap" \in faults \/ \A v \in Workers : work[v].pc = "idle"

\* pollOutbox: the watermark, and the events beyond it.
Beyond == {i \in DOMAIN outbox : i > watermark /\ outbox[i].visible}

Newest == CHOOSE i \in Beyond : \A j \in Beyond : j <= i

Poll(p) ==
  /\ p \in Pollers /\ work[p].pc = "idle" /\ Beyond # {} /\ Alone(p)
  /\ work' = [work EXCEPT ![p].pc = "get", ![p].todo = Beyond, ![p].last = Newest, ![p].seen = FALSE]
  /\ UNCHANGED <<acc, bucket, watermark, handled>>

Least(p) == CHOOSE i \in work[p].todo : \A j \in work[p].todo : i <= j
Event(p) == outbox[Least(p)]

\* handleAccountEvent and handleBulkAccountEvent read the row, handleLastUsedEvent the copy.
GetAccount(p) ==
  /\ work[p].pc = "get"
  /\ work' = [work EXCEPT ![p].pc = "set",
                          ![p].hand = IF Event(p).type = "used" THEN acc[Event(p).acct] ELSE db[Event(p).acct]]
  /\ UNCHANGED <<acc, bucket, watermark, handled>>

\* Whether the event leads to this bucket, which it does once per poll.  Those that rebuild
\* by group leave out Grok; without the row only the event can name the groups.
Concerns(p) ==
  /\ ~work[p].seen
  /\ \/ Event(p).type = "account" /\ work[p].hand # "gone"
     \/ Event(p).type = "account" /\ work[p].hand = "gone" /\ Event(p).groups /\ platform # "grok"
     \/ Event(p).type = "bulk" /\ work[p].hand # "gone" /\ platform # "grok"

\* Mutant: every event counts as a rebuild.
SetAccount_AlwaysSeen(p) ==
  /\ work[p].pc = "set"
  /\ acc' = [acc EXCEPT ![Event(p).acct] = IF work[p].hand = "gone" THEN "none" ELSE work[p].hand]
  /\ work' = [work EXCEPT ![p].pc = IF Concerns(p) THEN "lock" ELSE "next", ![p].seen = TRUE]
  /\ UNCHANGED <<bucket, watermark, handled>>

SetAccount(p) ==
  /\ work[p].pc = "set"
  /\ acc' = [acc EXCEPT ![Event(p).acct] = IF work[p].hand = "gone" THEN "none" ELSE work[p].hand]
  /\ work' = [work EXCEPT ![p].pc = IF Concerns(p) THEN "lock" ELSE "next", ![p].seen = @ \/ Concerns(p)]
  /\ UNCHANGED <<bucket, watermark, handled>>

NextEvent(p) ==
  /\ work[p].pc = "next"
  /\ handled' = handled \cup {Least(p)}
  /\ LET rest == work[p].todo \ {Least(p)}
     IN  work' = [work EXCEPT ![p].todo = rest, ![p].hand = "none", ![p].pc = IF rest = {} THEN "mark" ELSE "get"]
  /\ UNCHANGED <<acc, bucket, watermark>>

SetWatermark(p) ==
  /\ work[p].pc = "mark"
  /\ watermark' = work[p].last
  /\ Rest(p)
  /\ UNCHANGED <<acc, bucket, handled>>

\* GetSnapshot: an empty list and one with an account that has no copy are misses.
Hit == active # {} /\ \A a \in active : acc[a] # "none"

Building == {"load", "number", "write", "activate", "unlock"}

\* triggerFullRebuild.
StartPeriodic(w) ==
  /\ w \in Periodic /\ work[w].pc = "idle" /\ Alone(w)
  /\ Go(w, "lock")
  /\ UNCHANGED <<acc, bucket, watermark, handled>>

\* ListSchedulableAccounts.
Fallback(w) ==
  /\ w \in Requests /\ work[w].pc = "idle" /\ ~Hit /\ Alone(w)
  /\ Go(w, "load")
  /\ UNCHANGED <<acc, bucket, watermark, handled>>

\* A poller goes on with its events.
Done(w) == IF w \in Pollers THEN Go(w, "next") ELSE Rest(w)

\* rebuildBucket: a bucket that is locked counts as rebuilt.
TryLock(w) ==
  /\ work[w].pc = "lock"
  /\ lock' = TRUE
  /\ IF lock THEN Done(w) ELSE Go(w, "load")
  /\ UNCHANGED <<acc, active, drawn, watermark, handled>>

Load(w) ==
  /\ work[w].pc = "load"
  /\ work' = [work EXCEPT ![w].pc = "number", ![w].rows = db]
  /\ UNCHANGED <<acc, bucket, watermark, handled>>

\* SetSnapshot draws the version once the rows are read, writes the accounts and the list,
\* and makes it active unless a newer one is.
Number(w) ==
  /\ work[w].pc = "number"
  /\ drawn' = Append(drawn, w)
  /\ Go(w, "write")
  /\ UNCHANGED <<acc, active, lock, watermark, handled>>

WriteAccounts(w) ==
  /\ work[w].pc = "write"
  /\ acc' = [a \in Accounts |-> IF a \in Listed(work[w].rows) THEN work[w].rows[a] ELSE acc[a]]
  /\ Go(w, "activate")
  /\ UNCHANGED <<bucket, watermark, handled>>

Overtaken(w) == \A i \in DOMAIN drawn : drawn[i] # w

Activate(w) ==
  /\ work[w].pc = "activate"
  /\ \/ \E i \in DOMAIN drawn :
           /\ drawn[i] = w
           /\ drawn' = SubSeq(drawn, i + 1, Len(drawn))
           /\ active' = Listed(work[w].rows)
     \/ Overtaken(w) /\ UNCHANGED <<active, drawn>>
  /\ IF w \in Requests THEN Rest(w) ELSE work' = [work EXCEPT ![w].pc = "unlock", ![w].rows = Resting.rows]
  /\ UNCHANGED <<acc, lock, watermark, handled>>

\* The lock is deleted, whoever holds it.
Unlock(w) ==
  /\ work[w].pc = "unlock"
  /\ lock' = FALSE
  /\ Done(w)
  /\ UNCHANGED <<acc, active, drawn, watermark, handled>>

Handle(p) == Poll(p) \/ GetAccount(p) \/ SetAccount(p) \/ NextEvent(p) \/ SetWatermark(p)
Rebuild(w) ==
  \/ TryLock(w) \/ Load(w) \/ Number(w) \/ WriteAccounts(w) \/ Activate(w) \/ Unlock(w)
Work(w) ==
  /\ w \in team
  /\ Handle(w) \/ StartPeriodic(w) \/ Fallback(w) \/ Rebuild(w)
  /\ UNCHANGED <<changes, failures, db, outbox, edit>>

Holds(w) == w \notin Requests /\ work[w].pc \in Building

\* A worker fails in the middle of its work, and deletes the lock, or dies.
Interrupted(w) ==
  /\ work[w].pc \notin {"idle", "next"} /\ failures > 0 /\ failures' = failures - 1
  /\ \/ "fail" \in faults /\ lock' = (lock /\ ~Holds(w))
     \/ {"fail", "slow"} \subseteq faults /\ UNCHANGED lock
     \/ "crash" \in faults /\ UNCHANGED lock
  /\ \/ \E i \in DOMAIN drawn :
           drawn[i] = w /\ drawn' = SubSeq(drawn, 1, i - 1) \o SubSeq(drawn, i + 1, Len(drawn))
     \/ Overtaken(w) /\ UNCHANGED drawn
  /\ UNCHANGED <<changes, db, outbox, acc, active, watermark, edit, handled>>

\* Mutant: a failed event does not keep the poller from the next ones.
Fail_Continues(w) ==
  /\ Interrupted(w)
  /\ IF work[w].todo = {} THEN Rest(w)
     ELSE LET rest == work[w].todo \ {Least(w)}
          IN  work' = [work EXCEPT ![w] = [Resting EXCEPT !.todo = rest, !.last = work[w].last,
                                                          !.pc = IF rest = {} THEN "mark" ELSE "get"]]

\* A poll ends at the first event that fails; the watermark stays.
Fail(w) == Interrupted(w) /\ Rest(w)

\* Mutant: the lock has no TTL.
LockExpires_NoTTL == FALSE /\ UNCHANGED vars

LockExpires ==
  /\ lock /\ ("slow" \in faults \/ \A w \in Workers : ~Holds(w))
  /\ lock' = FALSE
  /\ UNCHANGED <<changes, failures, db, outbox, acc, active, drawn, watermark, work, edit, handled>>

Next ==
  /\ \/ \E e \in Editors : Edit(e)
     \/ \E w \in Workers : Work(w) \/ Fail(w)
     \/ LockExpires
  /\ UNCHANGED setup

Spec == Init /\ [][Next]_vars

\* Changes are completed, pollers and the periodic job go on, a rebuild that began ends, and
\* Redis lets the lock expire.
Fairness ==
  /\ \A e \in Editors : WF_vars(UNCHANGED setup /\ edit[e].pc # "idle" /\ Edit(e))
  /\ \A w \in Workers \ Requests : WF_vars(UNCHANGED setup /\ Work(w))
  /\ \A w \in Requests : WF_vars(UNCHANGED setup /\ work[w].pc # "idle" /\ Work(w))
  /\ WF_vars(UNCHANGED setup /\ LockExpires)
FairSpec == Spec /\ Fairness

-----------------------------------------------------------------------------

\* Every variable stays within its type.
TypeOK ==
  /\ platform \in {"grok", "other"} /\ team \subseteq Workers \cup Editors /\ faults \subseteq Faults
  /\ changes \in Nat /\ failures \in 0 .. MaxFailures
  /\ db \in [Accounts -> Rows]
  /\ outbox \in Seq([acct : Accounts, type : {"account", "bulk", "used"}, groups : BOOLEAN, visible : BOOLEAN])
  /\ acc \in [Accounts -> (Rows \ {"gone"}) \cup {"none"}]
  /\ active \subseteq Accounts /\ drawn \in Seq(Workers) /\ lock \in BOOLEAN
  /\ watermark \in Nat /\ handled \subseteq Nat
  /\ work \in [Workers -> [pc : {"idle", "get", "set", "lock", "next", "mark"} \cup Building, todo : SUBSET Nat,
                           last : Nat, seen : BOOLEAN, hand : Rows \cup {"none"}, rows : [Accounts -> Rows]]]
  /\ edit \in [Editors -> [pc : {"idle", "enqueue", "read", "write", "forget", "commit"}, acct : Accounts,
                           type : {"account", "bulk"}, groups : BOOLEAN, sync : BOOLEAN,
                           hand : Rows \cup {"none"}, id : Nat]]

\* Nothing is under way, and no event is waiting.
Settled ==
  /\ \A e \in Editors : edit[e].pc = "idle"
  /\ \A w \in Workers : work[w].pc = "idle"
  /\ Beyond = {}

\* What GetSnapshot shows of an account: its metadata, without the quota.
Metadata(row) == IF row = "spent" THEN "on" ELSE row

\* The accounts a request may choose from.
Served == IF Hit THEN {a \in active : Metadata(acc[a]) = "on"} ELSE {a \in Accounts : db[a] = "on"}

\* No event below the watermark was passed over, whichever call failed and however many
\* instances poll, unless it became visible after a later one (scheduler_snapshot_service.go:245).
EventsHandled ==
  "late" \notin faults =>
      \A i \in DOMAIN outbox : outbox[i].visible /\ i <= watermark => i \in handled

\* Once every event is handled the list is that of the database, for every order of changes,
\* refreshes and rebuilds, and whichever calls fail (scheduler_snapshot_service.go:411).
ListCurrent ==
  faults \subseteq {"fail"} /\ platform # "grok" /\ Settled /\ Hit => active = Listed(db)

\* Once every event is handled the copy of an account, which sticky sessions and the chosen
\* account are read from, is that of the database (scheduler_snapshot_service.go:436,
\* gateway_service.go:2831).
CopyCurrent ==
  faults \subseteq {"fail", "crash", "slow"} /\ Settled =>
      \A a \in Accounts : acc[a] \in {"none", db[a]}

\* Once every event is handled, what requests are served from is the database's: the list,
\* and the copies of the accounts (scheduler_snapshot_service.go:411, :436).
SnapshotCurrent == ListCurrent /\ CopyCurrent

\* Whatever was lost, overtaken or overwritten, once the accounts no longer change requests
\* are served the accounts of the database (scheduler_snapshot_service.go:210).
ServiceHeals == team \cap Periodic # {} => <>[](Hit => Served = Listed(db))
=============================================================================
