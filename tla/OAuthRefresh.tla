---------------------------- MODULE OAuthRefresh ----------------------------
(* Refreshing the OAuth credentials of one upstream account.                *)
(* (src/backend/internal/service/oauth_refresh_api.go,                       *)
(*  token_refresh_service.go, grok_credential_failure.go, admin_service.go,   *)
(*  handler/admin/account_handler.go, repository/gemini_token_cache.go,      *)
(*  repository/account_repo.go, account_repo_grok_oauth.go)                  *)
(*                                                                          *)
(* The background cycle of each instance and the requests that find the     *)
(* access token about to expire all call RefreshIfNeeded: a mutex of the     *)
(* instance, a lock in Redis, the row read again, the provider asked, the    *)
(* answer saved.  The provider rotates: a refresh token works once and its   *)
(* answer carries the next.  The lock has no owner (the value is always 1,   *)
(* releasing is DEL) and ends by itself after its TTL.  For Grok the save    *)
(* and the quarantine compare the credentials with those that were sent, for *)
(* the other platforms they go by the account's id alone.                    *)
(*                                                                          *)
(* A token is the grant it belongs to (an administrator authorises again)    *)
(* and its number; valid are the refresh tokens the provider would accept.   *)
(* faults is what may go wrong in a behaviour, hits counts how often it did: *)
(*   redis   taking or releasing the lock fails                             *)
(*   slow    the lock expires while its taker still works                   *)
(*   refuse  the provider fails before it rotates (a retryable error)       *)
(*   lost    the provider rotates, its answer is lost or comes after the     *)
(*           attempt was cancelled                                          *)
(*   db      saving the credentials fails                                   *)
(*   crash   the process of a worker dies                                   *)
(*   reauth  an administrator authorises the account again                  *)
(*   edit    an administrator edits another field of the account            *)
(*   manual  an administrator refreshes by hand                             *)
EXTENDS Naturals, FiniteSets

CONSTANTS Workers,      \* background cycles and requests
          Background,   \* those of Workers that are background cycles
          InstanceOf,   \* the instance each worker runs in
          Platforms,    \* "grok", "other"
          FaultSets,    \* the sets of faults considered
          MaxTokens, MaxFaults, MaxRequests   \* bounds

ASSUME WorkersAssumption == Background \subseteq Workers
ASSUME BoundsAssumption == {MaxTokens, MaxFaults, MaxRequests} \subseteq Nat
ASSUME PlatformsAssumption == Platforms \subseteq {"grok", "other"}

VARIABLES platform, faults, hits, requests,
          row,        \* the account: its refresh token, status, expiry near
          cooling,    \* temporarily unschedulable after exhausted retries
          valid, issued, grants,   \* the provider
          lock,       \* the key in Redis
          pc, used, got, locked,   \* the workers
          admin       \* the administrator's operation

rigid == <<platform, faults>>
provider == <<valid, issued, grants>>
account == <<row, cooling>>
vars == <<platform, faults, hits, requests, row, cooling, valid, issued, grants,
          lock, pc, used, got, locked, admin>>

Token == [g : Nat, n : Nat]
None == [g |-> 0, n |-> 0]
Idle == [op |-> "idle", at |-> "start", new |-> None, seen |-> None, status |-> "active"]
FaultKinds == {"redis", "slow", "refuse", "lost", "db", "crash", "reauth", "edit", "manual"}
InMutex == {"lock", "reread", "refresh", "recover", "save"}

Init ==
  /\ platform \in Platforms /\ faults \in FaultSets
  /\ hits = 0 /\ requests = 0
  /\ row = [token |-> [g |-> 1, n |-> 1], status |-> "active", due |-> FALSE]
  /\ cooling = FALSE
  /\ valid = {[g |-> 1, n |-> 1]} /\ issued = 1 /\ grants = 1
  /\ lock = FALSE
  /\ pc = [w \in Workers |-> "idle"]
  /\ used = [w \in Workers |-> None] /\ got = [w \in Workers |-> None]
  /\ locked = [w \in Workers |-> FALSE]
  /\ admin = Idle

Hit(kind) == kind \in faults /\ hits < MaxFaults /\ hits' = hits + 1

(* The expiry comes within the refresh window.                               *)
Expire ==
  /\ ~row.due /\ issued < MaxTokens
  /\ row' = [row EXCEPT !.due = TRUE]
  /\ UNCHANGED <<rigid, hits, requests, cooling, provider, lock, pc, used, got, locked, admin>>

(* The cycle lists the active accounts that are not in their cooldown and     *)
(* keeps those about to expire; a request works with a cached account, which *)
(* may be about to expire when the row no longer is.                         *)
Start(w) ==
  /\ pc[w] = "idle"
  /\ \/ /\ w \in Background
        /\ row.status = "active" /\ row.due /\ ~cooling
        /\ UNCHANGED requests
     \/ /\ w \notin Background
        /\ requests < MaxRequests /\ requests' = requests + 1
  /\ pc' = [pc EXCEPT ![w] = "mutex"]
  /\ UNCHANGED <<rigid, hits, account, provider, lock, used, got, locked, admin>>

EnterMutex(w) ==
  /\ pc[w] = "mutex"
  /\ \A v \in Workers : InstanceOf[v] = InstanceOf[w] => pc[v] \notin InMutex
  /\ pc' = [pc EXCEPT ![w] = "lock"]
  /\ UNCHANGED <<rigid, hits, requests, account, provider, lock, used, got, locked, admin>>

(* The end of RefreshIfNeeded: a taken lock is deleted, whoever it belongs to *)
(* by now, unless Redis fails, and the mutex is left.                         *)
Leave(w, next) ==
  /\ \/ lock' = (lock /\ ~locked[w]) /\ UNCHANGED hits
     \/ locked[w] /\ Hit("redis") /\ UNCHANGED lock
  /\ locked' = [locked EXCEPT ![w] = FALSE]
  /\ pc' = [pc EXCEPT ![w] = next]
  /\ UNCHANGED <<rigid, requests>>

Forget(w) == used' = [used EXCEPT ![w] = None] /\ got' = [got EXCEPT ![w] = None]

(* SETNX: taken, held by another (the refresh is skipped), or failed, and the *)
(* refresh goes on without the lock.                                         *)
\* mutant: the lock is set whether or not it is taken (SET without NX).
TakeLock_Always(w) ==
  /\ pc[w] = "lock"
  /\ lock' = TRUE
  /\ locked' = [locked EXCEPT ![w] = TRUE]
  /\ pc' = [pc EXCEPT ![w] = "reread"]
  /\ UNCHANGED <<rigid, hits, requests, account, provider, used, got, admin>>
TakeLock(w) ==
  /\ pc[w] = "lock" /\ ~lock
  /\ lock' = TRUE
  /\ locked' = [locked EXCEPT ![w] = TRUE]
  /\ pc' = [pc EXCEPT ![w] = "reread"]
  /\ UNCHANGED <<rigid, hits, requests, account, provider, used, got, admin>>

LockHeld(w) ==
  /\ pc[w] = "lock" /\ lock
  /\ pc' = [pc EXCEPT ![w] = "idle"]
  /\ UNCHANGED <<rigid, hits, requests, account, provider, lock, used, got, locked, admin>>

WithoutLock(w) ==
  /\ pc[w] = "lock" /\ Hit("redis")
  /\ pc' = [pc EXCEPT ![w] = "reread"]
  /\ UNCHANGED <<rigid, requests, account, provider, lock, used, got, locked, admin>>

(* The row is read under the lock: an account that is no longer active, or   *)
(* that another refresh has served, is left alone.                           *)
Reread(w) ==
  /\ pc[w] = "reread"
  /\ IF row.status = "active" /\ row.due
     THEN /\ used' = [used EXCEPT ![w] = row.token]
          /\ pc' = [pc EXCEPT ![w] = "refresh"]
          /\ UNCHANGED <<rigid, hits, requests, lock, got, locked>>
     ELSE Leave(w, "idle") /\ UNCHANGED <<used, got>>
  /\ UNCHANGED <<account, provider, admin>>

Next1(token) == [g |-> token.g, n |-> issued + 1]
Rotate(token) ==
  /\ token \in valid
  /\ valid' = (valid \ {token}) \cup {Next1(token)}
  /\ issued' = issued + 1
  /\ UNCHANGED grants

(* What a retryable failure leads to: the background cycle tries again, its   *)
(* retries exhausted puts the account aside, or is at its own end; a request  *)
(* gives up.                                                                 *)
AfterFailure(w) == IF w \in Background THEN {"mutex", "cool", "idle"} ELSE {"idle"}
GiveUp(w, next) ==
  /\ lock' = (lock /\ ~locked[w])
  /\ locked' = [locked EXCEPT ![w] = FALSE]
  /\ got' = [got EXCEPT ![w] = None]
  /\ used' = IF next = "cool" THEN used ELSE [used EXCEPT ![w] = None]
  /\ pc' = [pc EXCEPT ![w] = next]

(* executor.Refresh: the provider's answer.                                  *)
Refreshed(w) ==
  /\ pc[w] = "refresh" /\ Rotate(used[w])
  /\ got' = [got EXCEPT ![w] = Next1(used[w])]
  /\ pc' = [pc EXCEPT ![w] = "save"]
  /\ UNCHANGED <<rigid, hits, requests, account, lock, used, locked, admin>>

InvalidGrant(w) ==
  /\ pc[w] = "refresh" /\ used[w] \notin valid
  /\ pc' = [pc EXCEPT ![w] = "recover"]
  /\ UNCHANGED <<rigid, hits, requests, account, provider, lock, used, got, locked, admin>>

(* A failure before or after the rotation; a worker whose attempt was         *)
(* cancelled drops the credentials that come late.                           *)
RefreshFails(w) ==
  /\ pc[w] = "refresh"
  /\ \/ Hit("refuse") /\ UNCHANGED provider
     \/ Hit("lost") /\ Rotate(used[w])
  /\ \E next \in AfterFailure(w) : GiveUp(w, next)
  /\ UNCHANGED <<rigid, requests, account, admin>>

(* tryRecoverFromRefreshRace: a row with another refresh token means that     *)
(* another worker has refreshed; otherwise the credentials are dead, which    *)
(* the background cycle puts on record.  A request does not: the repository   *)
(* has no method of the interface grok_credential_failure.go asks it for.     *)
Recover(w) ==
  /\ pc[w] = "recover"
  /\ IF row.token = used[w] /\ w \in Background
     THEN Leave(w, "quarantine") /\ UNCHANGED <<used, got>>
     ELSE Leave(w, "idle") /\ Forget(w)
  /\ UNCHANGED <<account, provider, admin>>

(* UpdateGrokOAuthCredentialsIfUnchanged, or UpdateCredentials.  A success    *)
(* ends the cooldown (postRefreshActions).                                   *)
\* mutants: the answer's new refresh token is not taken over; Grok's save goes
\* by the id.
Save_KeepsOld(w) ==
  /\ pc[w] = "save"
  /\ row' = [row EXCEPT !.due = FALSE]
  /\ cooling' = (cooling /\ w \notin Background)
  /\ Leave(w, "idle") /\ Forget(w)
  /\ UNCHANGED <<provider, admin>>
Save_ById(w) ==
  /\ pc[w] = "save"
  /\ row' = [row EXCEPT !.token = got[w], !.due = FALSE]
  /\ cooling' = (cooling /\ w \notin Background)
  /\ Leave(w, "idle") /\ Forget(w)
  /\ UNCHANGED <<provider, admin>>
Save(w) ==
  /\ pc[w] = "save"
  /\ row' = IF platform = "grok" /\ row.token # used[w] THEN row
            ELSE [row EXCEPT !.token = got[w], !.due = FALSE]
  /\ cooling' = (cooling /\ w \notin Background)
  /\ Leave(w, "idle") /\ Forget(w)
  /\ UNCHANGED <<provider, admin>>

(* A failed save: the rotated token is gone.  Grok's cycle stops there, the   *)
(* others count it as a retryable failure.                                   *)
SaveFails(w) ==
  /\ pc[w] = "save" /\ Hit("db")
  /\ \E next \in IF platform = "grok" THEN {"idle"} ELSE AfterFailure(w) : GiveUp(w, next)
  /\ UNCHANGED <<rigid, requests, account, provider, admin>>

(* After the lock was released: SetError by the account's id, or, for Grok,   *)
(* only while the row is active with the credentials that were sent.         *)
\* mutant: by the id for every platform.
Quarantine_ById(w) ==
  /\ pc[w] = "quarantine"
  /\ row' = [row EXCEPT !.status = "error"]
  /\ pc' = [pc EXCEPT ![w] = "idle"]
  /\ Forget(w)
  /\ UNCHANGED <<rigid, hits, requests, cooling, provider, lock, locked, admin>>
Quarantine(w) ==
  /\ pc[w] = "quarantine"
  /\ row' = IF platform = "grok" /\ ~(row.status = "active" /\ row.token = used[w]) THEN row
            ELSE [row EXCEPT !.status = "error"]
  /\ pc' = [pc EXCEPT ![w] = "idle"]
  /\ Forget(w)
  /\ UNCHANGED <<rigid, hits, requests, cooling, provider, lock, locked, admin>>

(* Retries exhausted: ten minutes aside, for Grok under the same condition.   *)
Cool(w) ==
  /\ pc[w] = "cool"
  /\ cooling' = (cooling \/ platform = "other"
                 \/ (row.status = "active" /\ row.token = used[w]))
  /\ pc' = [pc EXCEPT ![w] = "idle"]
  /\ Forget(w)
  /\ UNCHANGED <<rigid, hits, requests, row, provider, lock, locked, admin>>

CoolEnds ==
  /\ cooling /\ cooling' = FALSE
  /\ UNCHANGED <<rigid, hits, requests, row, provider, lock, pc, used, got, locked, admin>>

(* The TTL of the lock ends: when nobody who took it is still at work, or, if *)
(* slow, under the taker's hands.                                            *)
\* mutant: the key is set without a TTL.
LockExpires_NoTTL ==
  /\ FALSE
  /\ UNCHANGED vars
LockExpires ==
  /\ lock /\ lock' = FALSE
  /\ \/ (\A w \in Workers : ~locked[w]) /\ UNCHANGED hits
     \/ (\E w \in Workers : locked[w]) /\ Hit("slow")
  /\ UNCHANGED <<rigid, requests, account, provider, pc, used, got, locked, admin>>

(* A process dies: its workers are gone and a lock they took stays.           *)
Crash(w) ==
  /\ pc[w] # "idle" /\ Hit("crash")
  /\ LET gone == {v \in Workers : InstanceOf[v] = InstanceOf[w]}
     IN /\ pc' = [v \in Workers |-> IF v \in gone THEN "idle" ELSE pc[v]]
        /\ used' = [v \in Workers |-> IF v \in gone THEN None ELSE used[v]]
        /\ got' = [v \in Workers |-> IF v \in gone THEN None ELSE got[v]]
        /\ locked' = [v \in Workers |-> v \notin gone /\ locked[v]]
  /\ UNCHANGED <<rigid, requests, account, provider, lock, admin>>

-----------------------------------------------------------------------------
(* The administrator.  A re-authorisation brings a new grant, a refresh by    *)
(* hand (refreshSingleAccount) rotates the token of the account it has read,  *)
(* without any lock.  All of them end in UpdateAccount, which reads the row   *)
(* and writes all of it back: its credentials, unless given new ones, and     *)
(* its status.                                                               *)
Reauthorize ==
  /\ admin.op = "idle" /\ Hit("reauth") /\ issued < MaxTokens
  /\ grants' = grants + 1 /\ issued' = issued + 1
  /\ LET new == [g |-> grants + 1, n |-> issued + 1]
     IN /\ valid' = valid \cup {new}
        /\ admin' = [Idle EXCEPT !.op = "reauth", !.at = "read", !.new = new]
  /\ UNCHANGED <<rigid, requests, account, lock, pc, used, got, locked>>

EditAccount ==
  /\ admin.op = "idle" /\ Hit("edit")
  /\ admin' = [Idle EXCEPT !.op = "edit", !.at = "read"]
  /\ UNCHANGED <<rigid, requests, account, provider, lock, pc, used, got, locked>>

RefreshByHand ==
  /\ admin.op = "idle" /\ Hit("manual")
  /\ admin' = [Idle EXCEPT !.op = "manual", !.at = "refresh", !.seen = row.token]
  /\ UNCHANGED <<rigid, requests, account, provider, lock, pc, used, got, locked>>

AdminRefresh ==
  /\ admin.at = "refresh"
  /\ \/ /\ Rotate(admin.seen)
        /\ admin' = [admin EXCEPT !.at = "read", !.new = Next1(admin.seen)]
     \/ /\ admin.seen \notin valid /\ UNCHANGED provider
        /\ admin' = Idle
  /\ UNCHANGED <<rigid, hits, requests, account, lock, pc, used, got, locked>>

UpdateRead ==
  /\ admin.at = "read"
  /\ admin' = [admin EXCEPT !.at = "write", !.seen = row.token, !.status = row.status]
  /\ UNCHANGED <<rigid, hits, requests, account, provider, lock, pc, used, got, locked>>

UpdateWrite ==
  /\ admin.at = "write"
  /\ row' = IF admin.new = None
            THEN [row EXCEPT !.token = admin.seen, !.status = admin.status,
                             !.due = row.due \/ row.token # admin.seen]
            ELSE [token |-> admin.new, status |-> admin.status, due |-> FALSE]
  /\ admin' = IF admin.op = "reauth" THEN [admin EXCEPT !.at = "clear"] ELSE Idle
  /\ UNCHANGED <<rigid, hits, requests, cooling, provider, lock, pc, used, got, locked>>

(* ClearAccountError, which the re-authorisation calls last.                  *)
ClearError ==
  /\ admin.at = "clear"
  /\ row' = [row EXCEPT !.status = "active"] /\ cooling' = FALSE
  /\ admin' = Idle
  /\ UNCHANGED <<rigid, hits, requests, provider, lock, pc, used, got, locked>>

-----------------------------------------------------------------------------
Work(w) ==
  \/ EnterMutex(w) \/ TakeLock(w) \/ LockHeld(w) \/ WithoutLock(w) \/ Reread(w)
  \/ Refreshed(w) \/ InvalidGrant(w) \/ RefreshFails(w) \/ Recover(w)
  \/ Save(w) \/ SaveFails(w) \/ Quarantine(w) \/ Cool(w)
Administer ==
  \/ Reauthorize \/ EditAccount \/ RefreshByHand
  \/ AdminRefresh \/ UpdateRead \/ UpdateWrite \/ ClearError

Next ==
  \/ \E w \in Workers : Start(w) \/ Work(w) \/ Crash(w)
  \/ Expire \/ CoolEnds \/ LockExpires \/ Administer

Spec == Init /\ [][Next]_vars

(* Every attempt has a deadline and its goroutine is scheduled, the lock's TTL *)
(* and the cooldown end, a cycle starts every few minutes, and an             *)
(* administrator who has begun goes on.                                      *)
Fairness ==
  /\ \A w \in Workers : WF_vars(Work(w)) /\ SF_vars(EnterMutex(w))
  /\ \A w \in Background : WF_vars(Start(w))
  /\ WF_vars(LockExpires) /\ WF_vars(CoolEnds)
  /\ WF_vars(AdminRefresh \/ UpdateRead \/ UpdateWrite \/ ClearError)
FairSpec == Spec /\ Fairness

-----------------------------------------------------------------------------
(* Every variable stays within its type.                                      *)
TypeOK ==
  /\ platform \in Platforms /\ faults \in FaultSets
  /\ hits \in 0..MaxFaults /\ requests \in 0..MaxRequests
  /\ row \in [token : Token, status : {"active", "error"}, due : BOOLEAN]
  /\ cooling \in BOOLEAN /\ lock \in BOOLEAN
  /\ valid \subseteq Token /\ issued \in Nat /\ grants \in Nat
  /\ pc \in [Workers -> {"idle", "mutex", "quarantine", "cool"} \cup InMutex]
  /\ used \in [Workers -> Token] /\ got \in [Workers -> Token]
  /\ locked \in [Workers -> BOOLEAN]
  /\ admin \in [op : {"idle", "reauth", "edit", "manual"},
                at : {"start", "refresh", "read", "write", "clear"},
                new : Token, seen : Token, status : {"active", "error"}]

(* While no answer, save or process is lost and nobody edits the account, a   *)
(* refresh token the provider accepts is in the row, or in the hands of the   *)
(* worker or administrator who is about to write it there: whatever the lock  *)
(* does.                                                                     *)
StoredTokenWorks ==
  faults \cap {"lost", "db", "crash", "edit"} = {} =>
    \/ row.token \in valid
    \/ \E w \in Workers : pc[w] = "save" /\ used[w] = row.token /\ got[w] \in valid
    \/ admin.at \in {"read", "write"} /\ admin.new \in valid

(* An account put in error has no refresh token left that works, unless the   *)
(* lock failed, somebody worked beside it, or, for the platforms whose error  *)
(* goes by the id alone, the account was authorised again.                    *)
ErrorMeansDead ==
  /\ faults \cap {"redis", "slow", "edit", "manual"} = {}
  /\ platform = "grok" \/ "reauth" \notin faults
  /\ admin.op = "idle"
  => (row.status = "error" => row.token \notin valid)

(* As long as the lock works and nobody works beside it, a token the provider *)
(* no longer accepts is sent only when it is the one the row still holds: a   *)
(* refresh never meets the race that tryRecoverFromRefreshRace recovers from. *)
LockPreventsReuse ==
  faults \cap {"redis", "slow", "edit", "manual", "reauth"} = {} =>
    \A w \in Workers : pc[w] = "refresh" => used[w] \in valid \/ used[w] = row.token

(* For Grok no refresh puts credentials of an older grant over those an       *)
(* administrator has brought since, however late its answer is saved.         *)
ReauthorizationKept ==
  [][platform = "grok" /\ "edit" \notin faults => row'.token.g >= row.token.g]_vars

(* An active account about to expire is refreshed or put in error.            *)
RefreshSettles ==
  (row.due /\ row.status = "active") ~> (~row.due \/ row.status = "error")
=============================================================================
