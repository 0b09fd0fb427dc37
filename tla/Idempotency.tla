---------------------------- MODULE Idempotency ----------------------------
(***************************************************************************)
(* One record of idempotency_records and the two clients of the table:     *)
(* IdempotencyCoordinator.Execute, which runs a write request once per     *)
(* Idempotency-Key and replays its answer, and SystemOperationLockService, *)
(* which uses the record of a fixed key as a lock with a lease that its    *)
(* holder renews.  Every call runs once: it reads the clock when it        *)
(* begins and compares all that it sees later with that reading.  A        *)
(* repeated request is another call.                                       *)
(***************************************************************************)
EXTENDS Naturals

CONSTANTS
    Clients,    \* calls of Execute, or operations that ask for the lock
    Kinds,      \* who uses the record: "request" or "system"
    FaultSets,  \* the faults of a behaviour are one of these sets
    Payloads,   \* request fingerprints; a system operation's is its own id
    TTL,        \* DefaultTTL, SystemOperationTTL
    Lease,      \* ProcessingTimeout
    Backoff,    \* FailedRetryBackoff
    Horizon     \* bound of the clock

\* "lost": a call of the database fails without effect; "ambiguous": it takes
\* effect and its answer is lost; "crash": an instance dies; "long": executions
\* and operations take any time; "slow": so do the steps before; "late": renewals
\* miss their time.
Faults == {"lost", "ambiguous", "crash", "long", "slow", "late"}

ASSUME IdempotencyAssumption ==
    /\ Kinds \subseteq {"request", "system"}
    /\ FaultSets \subseteq SUBSET Faults
    /\ TTL \in Nat /\ Lease \in Nat /\ Backoff \in Nat /\ Horizon \in Nat
    /\ 2 < Lease /\ Lease < TTL /\ Backoff < TTL

VARIABLES
    kind, faults,   \* chosen once
    now,            \* the clock
    row,            \* the record; id 0 is no record, until 0 is NULL
    ids,            \* records created so far
    run,            \* the calls
    effects         \* calls whose execution took effect

setup == <<kind, faults>>
vars == <<kind, faults, now, row, ids, run, effects>>

None == "none"
NoRow == [id |-> 0, fp |-> None, status |-> None, until |-> 0, expires |-> 0, response |-> None]
Statuses == {"processing", "succeeded", "failed_retryable"}

\* Steps of a call, and the answers it ends with.
Steps == {"begin", "create", "get", "reclaimExpired", "getAgain", "reclaim", "work", "succeeded", "failed"}
Answers == {"ok", "error", "replayed", "conflict", "inProgress", "backoff", "busy", "unavailable", "died"}

Init ==
    /\ kind \in Kinds
    /\ faults \in FaultSets
    /\ now = 1
    /\ row = NoRow
    /\ ids = 0
    /\ run = [c \in Clients |->
                [pc |-> "begin", at |-> 0, fp |-> None, id |-> 0, seen |-> None, via |-> None,
                 data |-> None, renewing |-> FALSE, beat |-> 0]]
    /\ effects = {}

-----------------------------------------------------------------------------

Goto(c, pc) == run' = [run EXCEPT ![c].pc = pc]

\* A failed call of the database ends the call as unavailable.
Unavailable(c) ==
    /\ "lost" \in faults
    /\ Goto(c, "unavailable")
    /\ UNCHANGED <<row, ids>>

\* The call owns the record and executes, if it learns of it; a lock is renewed
\* from now on.
Own(c, id, via) ==
    \E pc \in {"work"} \cup IF "ambiguous" \in faults THEN {"unavailable"} ELSE {} :
        run' = [run EXCEPT ![c].pc = pc, ![c].id = id, ![c].via = via, ![c].beat = now,
                           ![c].renewing = (pc = "work" /\ kind = "system")]

Begin(c) ==
    /\ run[c].pc = "begin"
    /\ \E fp \in IF kind = "system" THEN {c} ELSE Payloads :
           run' = [run EXCEPT ![c].pc = "create", ![c].at = now, ![c].fp = fp]
    /\ UNCHANGED <<row, ids, effects>>

\* INSERT ... ON CONFLICT DO NOTHING.
CreateProcessing(c) ==
    /\ run[c].pc = "create"
    /\ \/ /\ row = NoRow
          /\ row' = [id |-> ids + 1, fp |-> run[c].fp, status |-> "processing",
                     until |-> run[c].at + Lease, expires |-> run[c].at + TTL, response |-> None]
          /\ ids' = ids + 1
          /\ Own(c, ids + 1, "new")
       \/ /\ row # NoRow
          /\ Goto(c, "get")
          /\ UNCHANGED <<row, ids>>
       \/ Unavailable(c)
    /\ UNCHANGED effects

\* What a request answers, or does, about the record that it found.  An answer
\* longer than MaxStoredResponseLen was stored truncated and cannot be decoded.
Decide(c) ==
    CASE row.status = "succeeded" ->
            \/ run' = [run EXCEPT ![c].pc = "replayed", ![c].data = row.response]
            \/ Goto(c, "unavailable")
      [] row.status = "processing" -> Goto(c, "inProgress")
      [] row.status = "failed_retryable" /\ row.until > run[c].at -> Goto(c, "backoff")
      [] row.status = "failed_retryable" /\ row.until <= run[c].at ->
            run' = [run EXCEPT ![c].pc = "reclaim", ![c].seen = row.status, ![c].id = row.id]

\* Mutant: the fingerprint is not compared.
GetRequest_AnyPayload(c) ==
    IF row.expires <= run[c].at
    THEN run' = [run EXCEPT ![c].pc = "reclaimExpired", ![c].seen = row.status, ![c].id = row.id]
    ELSE Decide(c)

GetRequest(c) ==
    CASE row.fp # run[c].fp -> Goto(c, "conflict")
      [] row.fp = run[c].fp /\ row.expires <= run[c].at ->
            run' = [run EXCEPT ![c].pc = "reclaimExpired", ![c].seen = row.status, ![c].id = row.id]
      [] row.fp = run[c].fp /\ row.expires > run[c].at -> Decide(c)

GetLock(c) ==
    IF row.status = "processing" /\ row.until > run[c].at
    THEN Goto(c, "busy")
    ELSE run' = [run EXCEPT ![c].pc = "reclaim", ![c].seen = row.status, ![c].id = row.id]

\* GetByScopeAndKeyHash, and what follows from it.
GetExisting(c) ==
    /\ run[c].pc = "get"
    /\ \/ row = NoRow /\ Goto(c, "unavailable")
       \/ row # NoRow /\ kind = "request" /\ GetRequest(c)
       \/ row # NoRow /\ kind = "system" /\ GetLock(c)
       \/ Unavailable(c)
    /\ UNCHANGED <<row, ids, effects>>

\* The record could not be reclaimed as expired: its expiry is not compared again.
GetAgain(c) ==
    /\ run[c].pc = "getAgain"
    /\ \/ row = NoRow /\ Goto(c, "unavailable")
       \/ row # NoRow /\ row.fp # run[c].fp /\ Goto(c, "conflict")
       \/ row # NoRow /\ row.fp = run[c].fp /\ Decide(c)
       \/ Unavailable(c)
    /\ UNCHANGED <<row, ids, effects>>

\* Mutants: the lease, or the status, is not compared.
Reclaimable_AnyLease(c) == row.id = run[c].id /\ row.status = run[c].seen
Reclaimable_AnyStatus(c) == row.id = run[c].id /\ row.until <= run[c].at

\* UPDATE ... WHERE id, status and a lease that is over.  The fingerprint of the
\* record stays that of its creator.
Reclaimable(c) == row.id = run[c].id /\ row.status = run[c].seen /\ row.until <= run[c].at

TryReclaim(c) ==
    /\ run[c].pc \in {"reclaimExpired", "reclaim"}
    /\ \/ /\ Reclaimable(c)
          /\ row' = [row EXCEPT !.status = "processing", !.until = run[c].at + Lease, !.expires = run[c].at + TTL]
          /\ Own(c, row.id, IF run[c].pc = "reclaim" THEN "retry" ELSE "expired")
       \/ /\ ~Reclaimable(c)
          /\ Goto(c, CASE run[c].pc = "reclaimExpired" -> "getAgain"
                       [] kind = "system" -> "busy"
                       [] OTHER -> "inProgress")
          /\ UNCHANGED row
       \/ "lost" \in faults /\ Goto(c, "unavailable") /\ UNCHANGED row
    /\ UNCHANGED <<ids, effects>>

Execute(c) ==
    /\ run[c].pc = "work" /\ kind = "request"
    /\ \/ Goto(c, "succeeded") /\ effects' = effects \cup {c}
       \/ Goto(c, "failed") /\ UNCHANGED effects
    /\ UNCHANGED <<row, ids>>

-----------------------------------------------------------------------------

\* UPDATE ... WHERE id, whatever the status and whoever owns the record now.
Matches(c) == row.id = run[c].id

MarkSucceeded(c, expires) ==
    row' = IF Matches(c)
           THEN [row EXCEPT !.status = "succeeded", !.until = 0, !.expires = expires, !.response = c]
           ELSE row

MarkFailedRetryable(c, until, expires) ==
    row' = IF Matches(c)
           THEN [row EXCEPT !.status = "failed_retryable", !.until = until, !.expires = expires]
           ELSE row

\* The answer of an execution is given once it is stored.
StoreSuccess(c) ==
    /\ run[c].pc = "succeeded"
    /\ \/ /\ MarkSucceeded(c, run[c].at + TTL)
          /\ \/ Goto(c, "ok")
             \/ "ambiguous" \in faults /\ Goto(c, "unavailable")
       \/ "lost" \in faults /\ Goto(c, "unavailable") /\ UNCHANGED row
    /\ UNCHANGED <<ids, effects>>

StoreFailure(c) ==
    /\ run[c].pc = "failed"
    /\ Goto(c, "error")
    /\ \/ MarkFailedRetryable(c, now + Backoff, run[c].at + TTL)
       \/ "lost" \in faults /\ UNCHANGED row
    /\ UNCHANGED <<ids, effects>>

\* The system operation ends; an error of Release is ignored.
Release(c) ==
    /\ run[c].pc = "work" /\ kind = "system"
    /\ \E answer \in {"ok", "error"} :
          /\ run' = [run EXCEPT ![c].pc = answer, ![c].renewing = FALSE]
          /\ \/ answer = "ok" /\ MarkSucceeded(c, now + TTL)
             \/ answer = "error" /\ MarkFailedRetryable(c, now, now + TTL)
             \/ "lost" \in faults /\ UNCHANGED row
    /\ UNCHANGED <<ids, effects>>

\* renewLoop: one call of ExtendProcessingLock per interval.  The loop ends when
\* no row matches; an error leaves it running.
Renew(c) ==
    /\ run[c].renewing /\ run[c].beat < now
    /\ \/ /\ row.id = run[c].id /\ row.status = "processing" /\ row.fp = run[c].fp
          /\ row' = [row EXCEPT !.until = now + Lease, !.expires = now + TTL]
          /\ run' = [run EXCEPT ![c].beat = now]
       \/ /\ ~(row.id = run[c].id /\ row.status = "processing" /\ row.fp = run[c].fp)
          /\ run' = [run EXCEPT ![c].renewing = FALSE]
          /\ UNCHANGED row
       \/ /\ "lost" \in faults
          /\ run' = [run EXCEPT ![c].beat = now]
          /\ UNCHANGED row
    /\ UNCHANGED <<ids, effects>>

Active(c) == run[c].pc \in Steps \ {"begin"}

Crash(c) ==
    /\ "crash" \in faults
    /\ Active(c)
    /\ run' = [run EXCEPT ![c].pc = "died", ![c].renewing = FALSE]
    /\ UNCHANGED <<row, ids, effects>>

Continue(c) ==
    \/ Begin(c) \/ CreateProcessing(c) \/ GetExisting(c) \/ GetAgain(c) \/ TryReclaim(c)
    \/ Execute(c) \/ StoreSuccess(c) \/ StoreFailure(c)
    \/ Release(c) \/ Renew(c)

\* The cleanup job.
DeleteExpired ==
    /\ row # NoRow /\ row.expires <= now
    /\ row' = NoRow
    /\ UNCHANGED <<now, ids, run, effects>>

\* Calls own their record before its lease is nearly over, unless "slow"; unless
\* "long" a request ends within the TTL, and a system operation within the lease
\* that it began with.
InTime(c) ==
    CASE run[c].pc = "begin" \/ run[c].pc \in Answers -> TRUE
      [] run[c].pc \in {"work", "succeeded", "failed"} ->
            "long" \in faults \/ now + 1 < run[c].at + (IF kind = "request" THEN TTL ELSE Lease)
      [] OTHER -> "slow" \in faults \/ now + 2 < run[c].at + Lease

Tick ==
    /\ now < Horizon
    /\ \A c \in Clients : InTime(c)
    /\ "late" \in faults \/ \A c \in Clients : run[c].renewing => run[c].beat = now
    /\ now' = now + 1
    /\ UNCHANGED <<row, ids, run, effects>>

Next ==
    /\ \/ \E c \in Clients : (Continue(c) \/ Crash(c)) /\ UNCHANGED now
       \/ DeleteExpired
       \/ Tick
    /\ UNCHANGED setup

Spec == Init /\ [][Next]_vars

-----------------------------------------------------------------------------

\* Every variable stays within its type, the clock within its bound.
TypeOK ==
    /\ kind \in Kinds
    /\ faults \in FaultSets
    /\ now \in 1..(Horizon + 1)
    /\ ids \in Nat
    /\ row \in [id : Nat, fp : Payloads \cup Clients \cup {None}, status : Statuses \cup {None},
                until : Nat, expires : Nat, response : Clients \cup {None}]
    /\ run \in [Clients -> [pc : Steps \cup Answers, at : Nat, fp : Payloads \cup Clients \cup {None},
                            id : Nat, seen : Statuses \cup {None}, via : {None, "new", "retry", "expired"},
                            data : Clients \cup {None}, renewing : BOOLEAN, beat : Nat]]
    /\ effects \subseteq Clients

Owners == {c \in Clients : run[c].pc \in {"work", "succeeded", "failed"}}

\* One call at a time executes, or holds the lock, as long as no call outlives the
\* time it owns the record for: whatever is lost, however calls race for a record
\* that is new, failed, expired or just deleted (idempotency.go:263, :298, :337).
OneOwner == faults \cap {"long", "slow"} = {} => \A c, d \in Owners : c = d

\* e reclaimed the record as expired although c had just made it fresh.
ReclaimedFresh(e, c) ==
    e # c /\ run[e].via = "expired" /\ run[c].beat <= run[e].beat /\ run[e].beat < run[c].at + TTL

\* Of two calls, one took the record when that of the other had reached its TTL.
Apart(c, d) == run[c].at + TTL <= run[d].beat \/ run[d].at + TTL <= run[c].beat

\* Two executions of one key that took effect are a TTL apart, unless the record was
\* reclaimed as expired although one of them had just made it fresh, by the other or by
\* a third call, or a call took longer than its record lived (idempotency.go:298-305).
EffectsApart ==
    faults \cap {"long", "slow"} = {} =>
        \A c, d \in effects :
            c = d \/ Apart(c, d) \/ \E e \in Clients : ReclaimedFresh(e, c) \/ ReclaimedFresh(e, d)

\* An answer that is replayed is that of an execution of the same payload that took
\* effect, also when records are deleted and created again while calls are under way
\* (idempotency.go:290, :341; idempotency_repo.go:175).
ReplayIsOfSamePayload ==
    \A c \in Clients : run[c].pc = "replayed" =>
        run[c].data \in effects /\ run[run[c].data].fp = run[c].fp

\* Once a request was told that it succeeded, the record says so until it expires, so
\* that every repetition is answered with the same result (idempotency.go:427).
SuccessStands ==
    faults \cap {"long", "slow"} = {} =>
        \A c \in Clients :
            kind = "request" /\ run[c].pc = "ok" /\ now < run[c].at + TTL
                /\ ~(\E d \in Clients : ReclaimedFresh(d, c))
            => row.id = run[c].id /\ row.status = "succeeded" /\ row.response = c
=============================================================================
