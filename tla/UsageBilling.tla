---------------------------- MODULE UsageBilling ----------------------------
(***************************************************************************)
(* Billing of usage in PostgreSQL (usageBillingRepository.Apply): one      *)
(* transaction per attempt claims the request's deduplication key, uses up *)
(* promotional credit, deducts the balance and counts towards the limits   *)
(* of the API key and of the upstream account.  Attempts for the same or   *)
(* different requests run concurrently, next to the job that archives old  *)
(* deduplication rows and to owners who edit their API key.                *)
(*                                                                         *)
(* One user, one API key, one account.  Isolation is read committed: every *)
(* step is one statement, sees what is committed at that time, and waits   *)
(* for rows that another transaction has changed.  What a transaction has  *)
(* changed itself stays in tx[p] until Commit.                             *)
(***************************************************************************)
EXTENDS Integers, FiniteSets

CONSTANTS
  Procs,        \* attempts that run concurrently, and editors of the API key
  Requests,     \* request ids
  Costs,        \* possible costs; the cost is part of the request's fingerprint
  Promotion,    \* promotional credit at the start
  KeyQuota,     \* api_keys.quota
  AccountLimit, \* the account's quota_limit
  Failures,     \* TRUE: a statement may fail, a commit may be lost or ambiguous
  MaxEdits      \* bound on the owners' edits of their API key while it is used

None == "none"

ASSUME UsageBillingAssumption ==
  /\ Costs \subseteq Nat \ {0}
  /\ Promotion \in Nat /\ KeyQuota \in Nat \ {0} /\ AccountLimit \in Nat \ {0}
  /\ Failures \in BOOLEAN /\ MaxEdits \in Nat
  /\ None \notin Procs

VARIABLES
  dedup,      \* usage_billing_dedup: cost and promotion_credit_used per request
  archive,    \* usage_billing_dedup_archive, alike
  credit,     \* user_promotion_credit_balances.remaining_amount
  balance,    \* users.balance, relative to the start
  key,        \* api_keys: quota_used, status
  account,    \* accounts.extra: quota_used; the outbox events that announce the limit
  announced,  \* how often a commit reported that the key's quota is exhausted
  claim,      \* per request the transaction that has inserted its key, uncommitted
  lock,       \* per row the transaction that has changed or locked it
  pc, tx,     \* the next statement of each process, and what it has done so far
  edits       \* edits so far

tables == <<dedup, archive, credit, balance, key, account, announced>>
locks  == <<claim, lock>>
vars   == <<tables, locks, pc, tx, edits>>

NoRow == [cost |-> 0, promo |-> 0]
Rows  == {"promo", "user", "key", "account"}
Idle  == [req |-> None, cost |-> 0, promo |-> 0, exhausted |-> 0, crossed |-> 0,
          edit |-> "none", copy |-> [used |-> 0, status |-> "active"]]
Steps == {"idle", "claim", "compare", "archive", "promoRead", "promoUse", "balance",
          "keyQuota", "accountQuota", "commit", "edit"}

Init ==
  /\ dedup = [r \in Requests |-> NoRow] /\ archive = [r \in Requests |-> NoRow]
  /\ credit = Promotion /\ balance = 0
  /\ key = [used |-> 0, status |-> "active"]
  /\ account = [used |-> 0, events |-> 0] /\ announced = 0
  /\ claim = [r \in Requests |-> None] /\ lock = [row \in Rows |-> None]
  /\ pc = [p \in Procs |-> "idle"] /\ tx = [p \in Procs |-> Idle]
  /\ edits = 0

-----------------------------------------------------------------------------
Goto(p, step)  == pc' = [pc EXCEPT ![p] = step]

\* The statement waits for the row, which is locked until the transaction ends.
Lock(p, row) ==
  /\ lock[row] \in {None, p}
  /\ lock' = [lock EXCEPT ![row] = p]

Release(p) ==
  /\ claim' = [r \in Requests |-> IF claim[r] = p THEN None ELSE claim[r]]
  /\ lock' = [row \in Rows |-> IF lock[row] = p THEN None ELSE lock[row]]
  /\ tx' = [tx EXCEPT ![p] = Idle]
  /\ Goto(p, "idle")

Rollback(p) == Release(p) /\ UNCHANGED tables

\* applyUsageBilling with the request's id and the cost of this attempt.
Apply(p) ==
  /\ pc[p] = "idle"
  /\ \E r \in Requests, c \in Costs :
       tx' = [tx EXCEPT ![p].req = r, ![p].cost = c]
  /\ Goto(p, "claim")
  /\ UNCHANGED <<tables, locks, edits>>

\* Mutant: the key is looked up, then inserted at the end, without its unique index.
ClaimKey_LookupOnly(p) ==
  /\ pc[p] = "claim"
  /\ Goto(p, IF dedup[tx[p].req] = NoRow THEN "archive" ELSE "compare")
  /\ UNCHANGED <<tables, lock, claim, tx, edits>>

\* INSERT ... ON CONFLICT DO NOTHING waits for an uncommitted insert of the same key.
ClaimKey(p) ==
  LET r == tx[p].req IN
  /\ pc[p] = "claim"
  /\ claim[r] = None
  /\ \/ /\ dedup[r] = NoRow
        /\ claim' = [claim EXCEPT ![r] = p]
        /\ Goto(p, "archive")
     \/ /\ dedup[r] # NoRow
        /\ Goto(p, "compare")
        /\ UNCHANGED claim
  /\ UNCHANGED <<tables, lock, tx, edits>>

\* The key was taken.  Equal fingerprint: not applied; else, or when the row has been
\* archived since: an error.  Nothing was changed in either case.
CompareFingerprint(p) ==
  /\ pc[p] = "compare"
  /\ Rollback(p)
  /\ UNCHANGED edits

\* Mutant: the early return leaves the transaction open.
LookupArchive_NoRollback(p) ==
  /\ pc[p] = "archive"
  /\ IF archive[tx[p].req] = NoRow
     THEN Goto(p, "promoRead") /\ UNCHANGED <<locks, tx>>
     ELSE Goto(p, "idle") /\ tx' = [tx EXCEPT ![p] = Idle] /\ UNCHANGED locks
  /\ UNCHANGED <<tables, edits>>

\* An archived request is not applied: the insert is rolled back by the deferred call.
LookupArchive(p) ==
  /\ pc[p] = "archive"
  /\ \/ /\ archive[tx[p].req] = NoRow
        /\ Goto(p, "promoRead")
        /\ UNCHANGED <<tables, locks, tx>>
     \/ /\ archive[tx[p].req] # NoRow
        /\ Rollback(p)
  /\ UNCHANGED edits

Lesser(a, b) == IF a < b THEN a ELSE b

\* SELECT remaining_amount ... FOR UPDATE.
ReadPromotion(p) ==
  /\ pc[p] = "promoRead"
  /\ Lock(p, "promo")
  /\ tx' = [tx EXCEPT ![p].promo = Lesser(tx[p].cost, credit)]
  /\ Goto(p, "promoUse")
  /\ UNCHANGED <<tables, claim, edits>>

\* UPDATE ... remaining_amount - used, left out when there is nothing to use.
UsePromotion(p) ==
  /\ pc[p] = "promoUse"
  /\ IF tx[p].promo > 0 THEN Lock(p, "promo") ELSE UNCHANGED lock
  /\ Goto(p, "balance")
  /\ UNCHANGED <<tables, claim, tx, edits>>

\* The balance pays the full cost, promotional credit or not, and may become negative.
DeductBalance(p) ==
  /\ pc[p] = "balance"
  /\ Lock(p, "user")
  /\ Goto(p, "keyQuota")
  /\ UNCHANGED <<tables, claim, tx, edits>>

\* 1 for the increment that reaches the limit, 0 for those before and after it.
Crosses(used, cost, limit) == IF used < limit /\ used + cost >= limit THEN 1 ELSE 0

\* Mutant: a quota that is used up exactly does not count as exhausted.
IncrementKeyQuota_OffByOne(p) ==
  /\ pc[p] = "keyQuota"
  /\ Lock(p, "key")
  /\ tx' = [tx EXCEPT ![p].exhausted =
                      IF key.used < KeyQuota /\ key.used + tx[p].cost > KeyQuota THEN 1 ELSE 0]
  /\ Goto(p, "accountQuota")
  /\ UNCHANGED <<tables, claim, edits>>

\* incrementUsageBillingAPIKeyQuota: exactly the increment that crosses reports it.
IncrementKeyQuota(p) ==
  /\ pc[p] = "keyQuota"
  /\ Lock(p, "key")
  /\ tx' = [tx EXCEPT ![p].exhausted = Crosses(key.used, tx[p].cost, KeyQuota)]
  /\ Goto(p, "accountQuota")
  /\ UNCHANGED <<tables, claim, edits>>

\* incrementUsageBillingAccountQuota, with the outbox event in the same transaction.
IncrementAccountQuota(p) ==
  /\ pc[p] = "accountQuota"
  /\ Lock(p, "account")
  /\ tx' = [tx EXCEPT ![p].crossed = Crosses(account.used, tx[p].cost, AccountLimit)]
  /\ Goto(p, "commit")
  /\ UNCHANGED <<tables, claim, edits>>

\* What the transaction changed becomes visible at once.
Publish(p) ==
  LET t == tx[p] IN
  /\ dedup' = [dedup EXCEPT ![t.req] = [cost |-> t.cost, promo |-> t.promo]]
  /\ credit' = credit - t.promo
  /\ balance' = balance - t.cost
  /\ key' = [used |-> key.used + t.cost,
             status |-> IF t.exhausted = 1 /\ key.status = "active" THEN "exhausted" ELSE key.status]
  /\ account' = [used |-> account.used + t.cost,
                 events |-> account.events + t.crossed]
  /\ announced' = announced + t.exhausted
  /\ UNCHANGED archive

\* Whether the caller learns of the commit makes no difference here: it never repeats
\* an attempt by itself.
Commit(p) ==
  /\ pc[p] = "commit"
  /\ Release(p)
  /\ Publish(p) \/ (Failures /\ UNCHANGED tables)
  /\ UNCHANGED edits

\* A failing statement, the billing timeout, a crash.
Abort(p) ==
  /\ Failures
  /\ pc[p] \notin {"idle", "edit"}
  /\ Rollback(p)
  /\ UNCHANGED edits

-----------------------------------------------------------------------------
\* Mutant: the promotion recorded with the request is not copied.
ArchiveRow_NoFacts(r) ==
  /\ dedup[r] # NoRow
  /\ archive' = [archive EXCEPT ![r] = [cost |-> dedup[r].cost, promo |-> 0]]
  /\ dedup' = [dedup EXCEPT ![r] = NoRow]
  /\ UNCHANGED <<credit, balance, key, account, announced, locks, pc, tx, edits>>

\* CleanupUsageBillingDedup, one statement; an archived row is never overwritten.
ArchiveRow(r) ==
  /\ dedup[r] # NoRow
  /\ archive' = [archive EXCEPT ![r] = IF @ = NoRow THEN dedup[r] ELSE @]
  /\ dedup' = [dedup EXCEPT ![r] = NoRow]
  /\ UNCHANGED <<credit, balance, key, account, announced, locks, pc, tx, edits>>

\* APIKeyService.Update reads the whole key, and changes its copy: any field, or the
\* quota, which is reset together with the status it had caused.
ReadKey(p) ==
  /\ edits < MaxEdits
  /\ pc[p] = "idle"
  /\ \/ tx' = [tx EXCEPT ![p].edit = "other", ![p].copy = key]
     \/ tx' = [tx EXCEPT ![p].edit = "reset", ![p].copy = [used |-> 0, status |-> "active"]]
  /\ Goto(p, "edit")
  /\ edits' = edits + 1
  /\ UNCHANGED <<tables, locks>>

\* It writes the copy back, quota_used and status included.
WriteKey(p) ==
  /\ pc[p] = "edit"
  /\ lock["key"] = None
  /\ key' = tx[p].copy
  /\ tx' = [tx EXCEPT ![p] = Idle]
  /\ Goto(p, "idle")
  /\ UNCHANGED <<dedup, archive, credit, balance, account, announced, locks, edits>>

Continue(p) == \/ ClaimKey(p) \/ CompareFingerprint(p) \/ LookupArchive(p)
               \/ ReadPromotion(p) \/ UsePromotion(p) \/ DeductBalance(p)
               \/ IncrementKeyQuota(p) \/ IncrementAccountQuota(p) \/ Commit(p)
               \/ WriteKey(p)

Next == \/ \E p \in Procs : Apply(p) \/ Continue(p) \/ Abort(p) \/ ReadKey(p)
        \/ \E r \in Requests : ArchiveRow(r)

Spec     == Init /\ [][Next]_vars
\* PostgreSQL grants a lock that was released to one of those who wait, and every
\* statement it can execute ends.
FairSpec == Spec /\ \A p \in Procs : SF_vars(Continue(p))
-----------------------------------------------------------------------------
Row     == [cost : Nat, promo : Nat]
KeyRow  == [used : Nat, status : {"active", "exhausted"}]
Session == [req : Requests \cup {None}, cost : Nat, promo : Nat, exhausted : {0, 1},
            crossed : {0, 1}, edit : {"none", "other", "reset"}, copy : KeyRow]

TablesOK ==
  /\ dedup \in [Requests -> Row] /\ archive \in [Requests -> Row]
  /\ credit \in Nat /\ balance \in Int
  /\ key \in KeyRow
  /\ account \in [used : Nat, events : Nat] /\ announced \in Nat

ControlOK ==
  /\ claim \in [Requests -> Procs \cup {None}] /\ lock \in [Rows -> Procs \cup {None}]
  /\ pc \in [Procs -> Steps] /\ tx \in [Procs -> Session]
  /\ edits \in Nat

\* Every variable stays within its type; in particular promotional credit is never
\* overdrawn.
TypeOK == TablesOK /\ ControlOK

\* A request is in the deduplication table or in its archive, never in both, also while
\* attempts to bill it again race with the job that moves it.
OneTable == \A r \in Requests : dedup[r] = NoRow \/ archive[r] = NoRow

\* The promotional credit that was used is on record, unit by unit with the request that
\* used it, before and after archiving: the sum of what the records say is what is missing.
OnRecord == UNION {{r} \X (1..(dedup[r].promo + archive[r].promo)) : r \in Requests}
PromotionOnRecord == Cardinality(OnRecord) = Promotion - credit

\* Exactly the commit that reached a limit reported it, under concurrency, failures and
\* costs that jump over the limit: the account's limit in the outbox and, as long as its
\* owner has not edited it, the key's in its status and to the caller.
CrossingsReported ==
  /\ account.events = (IF account.used >= AccountLimit THEN 1 ELSE 0)
  /\ edits = 0 =>
       /\ announced = (IF key.used >= KeyQuota THEN 1 ELSE 0)
       /\ key.status = (IF key.used >= KeyQuota THEN "exhausted" ELSE "active")

\* No attempt waits forever: locks are released on every path.
AttemptsEnd == \A p \in Procs : pc[p] # "idle" ~> pc[p] = "idle"

\* However attempts race, fail and are repeated, and however their keys are archived
\* meanwhile, each request is billed once and credit is used up exactly once.
Ledger == INSTANCE UsageLedger WITH
            billed <- {r \in Requests : dedup[r] # NoRow \/ archive[r] # NoRow},
            spent <- 0 - balance
ImplementsLedger == Ledger!Spec
=============================================================================
