---------------------------- MODULE PaymentOrder ----------------------------
(***************************************************************************)
(* The life of one payment order up to COMPLETED: creation, webhook        *)
(* notifications, cancellation, expiry, active verification, fulfilment    *)
(* (balance credit or subscription extension) and the administrator's      *)
(* retry.  Every handler runs in a process p \in Procs; between two of its *)
(* database or provider calls any other process may run.                   *)
(*                                                                         *)
(* Orders share nothing that this module speaks about (a redeem code and   *)
(* an audit trail belong to one order), so one order is enough.            *)
(***************************************************************************)
EXTENDS Naturals

CONSTANTS
  Procs,       \* concurrent handlers: HTTP requests, webhook calls, the expiry job
  OrderTypes,  \* the kinds of orders looked at: "balance", "subscription"
  FaultSets,   \* the sets of faults they are exposed to: subsets of Faults
  MaxGrants    \* bound on subscription extensions, the only counter that could grow

\* "db": a database call may fail, or fail after it took effect.
\* "crash": a handler may die between two calls (crash, cancelled context).
Faults == {"db", "crash"}

ASSUME PaymentOrderAssumption ==
  /\ OrderTypes \subseteq {"balance", "subscription"}
  /\ FaultSets \subseteq SUBSET Faults
  /\ MaxGrants \in Nat

VARIABLES
  orderType,   \* payment_orders.order_type; chosen at the start
  faults,      \* the faults this order is exposed to; chosen at the start
  status,      \* payment_orders.status ("NONE": the row does not exist yet)
  paidAt,      \* payment_orders.paid_at is set
  fresh,       \* updated_at is within paymentGraceMinutes
  overdue,     \* expires_at has passed
  tradeNo,     \* the upstream's own trade number is stored in the row
  code,        \* the redeem code of the order: "none", "unused" or "used"
  grants,      \* how often the user received what the order is worth
  rebates,     \* how often the inviter received the affiliate rebate
  audit,       \* the audit actions the code later reads or an operator acts on
  upstream,    \* the payment at the provider
  acked,       \* the provider has received a 2xx for its notification
  pc, task,    \* what each process does next, and the handler it runs
  sawTradeNo   \* tradeNo as read by the handler when it loaded the order

setup == <<orderType, faults>>
row   == <<status, paidAt, fresh, overdue, tradeNo>>
goods == <<code, grants, rebates, audit>>
proc  == <<pc, task, sawTradeNo, acked>>
vars  == <<setup, row, goods, upstream, proc>>

Void      == {"NONE", "PENDING", "CANCELLED", "EXPIRED"}
Statuses  == Void \cup {"PAID", "RECHARGING", "COMPLETED", "FAILED"}
Tasks     == {"none", "create", "webhook", "verify", "cancel", "expire", "retry"}

\* The steps during which a process owns the order, i.e. has moved it to RECHARGING.
Fulfilling == {"lookup", "create", "redeem", "rebate", "assign", "complete", "fail"}
Steps      == Fulfilling \cup {"idle", "provider", "createFailed", "query", "settle",
                               "notify", "confirm", "reload", "reset", "fulfil", "lock"}

Init ==
  /\ orderType \in OrderTypes /\ faults \in FaultSets
  /\ status = "NONE" /\ paidAt = FALSE /\ fresh = TRUE
  /\ overdue = FALSE /\ tradeNo = FALSE
  /\ code = "none" /\ grants = 0 /\ rebates = 0 /\ audit = {}
  /\ upstream = "none" /\ acked = FALSE
  /\ pc = [p \in Procs |-> "idle"]
  /\ task = [p \in Procs |-> "none"]
  /\ sawTradeNo = [p \in Procs |-> FALSE]

-----------------------------------------------------------------------------
\* The outcomes of a write.  "ambiguous": it took effect, the caller sees an error.
\* A read can fail whenever a write can.
DbErrors      == "db" \in faults
WriteOutcomes == IF DbErrors THEN {"ok", "lost", "ambiguous"} ELSE {"ok"}

\* An UPDATE ... WHERE status IN from SET status = to, with ent's updated_at hook.
UpdateStatus(r, from, to) ==
  IF r # "lost" /\ status \in from
  THEN status' = to /\ fresh' = TRUE
  ELSE UNCHANGED <<status, fresh>>

\* Control flow of the handler run by p.
Goto(p, step) == /\ pc' = [pc EXCEPT ![p] = step]
                 /\ UNCHANGED <<task, sawTradeNo, acked, setup>>

Start(p, handler, step) ==
  /\ pc[p] = "idle"
  /\ pc' = [pc EXCEPT ![p] = step]
  /\ task' = [task EXCEPT ![p] = handler]
  /\ sawTradeNo' = [sawTradeNo EXCEPT ![p] = tradeNo]
  /\ UNCHANGED <<acked, setup>>

\* The handler returns; the webhook endpoint answers 2xx exactly when err == nil.
Return(p, err) ==
  /\ pc' = [pc EXCEPT ![p] = "idle"]
  /\ task' = [task EXCEPT ![p] = "none"]
  /\ sawTradeNo' = [sawTradeNo EXCEPT ![p] = FALSE]
  /\ acked' = (acked \/ (err = "nil" /\ task[p] = "webhook"))
  /\ UNCHANGED setup

-----------------------------------------------------------------------------
\* CreateOrder: the row is committed as PENDING before the provider is called.
CreateOrder(p) ==
  /\ status = "NONE"
  /\ Start(p, "create", "provider")
  /\ status' = "PENDING" /\ fresh' = TRUE
  /\ UNCHANGED <<paidAt, overdue, tradeNo, goods, upstream>>

\* invokeProvider: CreatePayment, then the provider's answer is stored in the row.
\* The user sees the payment page only when both succeeded.
InvokeProvider(p) ==
  /\ pc[p] = "provider"
  /\ \/ /\ upstream' = "open" /\ fresh' = TRUE
        /\ tradeNo' \in BOOLEAN                \* some providers assign it at once
        /\ Return(p, "nil")
        /\ UNCHANGED <<status, paidAt, overdue>>
     \/ /\ Goto(p, "createFailed")
        /\ UNCHANGED <<row, upstream>>
  /\ UNCHANGED goods

\* The error path of CreateOrder sets FAILED without looking at the current status.
CreateFailed(p) ==
  /\ pc[p] = "createFailed"
  /\ \E r \in WriteOutcomes : UpdateStatus(r, Statuses, "FAILED")
  /\ Return(p, "error")
  /\ UNCHANGED <<paidAt, overdue, tradeNo, goods, upstream>>

-----------------------------------------------------------------------------
\* HandlePaymentNotification called by the provider, any number of times.
Webhook(p) ==
  /\ upstream \in {"paid", "mispaid"}
  /\ Start(p, "webhook", "notify")
  /\ UNCHANGED <<row, goods, upstream>>

\* CancelOrder and AdminCancelOrder.
CancelOrder(p) ==
  /\ status = "PENDING"
  /\ Start(p, "cancel", "query")
  /\ UNCHANGED <<row, goods, upstream>>

\* One order of ExpireTimedOutOrders' list.
ExpireOrder(p) ==
  /\ status = "PENDING" /\ overdue
  /\ Start(p, "expire", "query")
  /\ UNCHANGED <<row, goods, upstream>>

\* VerifyOrderByOutTradeNo, and ReconcilePendingWxpayOrders on one order.
VerifyOrder(p) ==
  /\ status \in {"PENDING", "EXPIRED"}
  /\ Start(p, "verify", "query")
  /\ UNCHANGED <<row, goods, upstream>>

\* checkPaidWithOptions.  A provider error, and a paid answer whose amount stays
\* invalid after one more query, are reported like an unpaid order.
QueryUpstream(p) ==
  /\ pc[p] = "query"
  /\ \/ /\ upstream \in {"paid", "mispaid"}
        /\ \/ UNCHANGED <<fresh, tradeNo>>
           \/ ~sawTradeNo[p] /\ tradeNo' = TRUE /\ fresh' = TRUE
        /\ Goto(p, "notify")
        /\ UNCHANGED upstream
     \/ /\ task[p] = "verify"
        /\ Return(p, "nil")
        /\ UNCHANGED <<fresh, tradeNo, upstream>>
     \/ /\ task[p] # "verify"
        /\ \/ UNCHANGED upstream
           \/ upstream = "open" /\ upstream' = "closed"      \* CancelPayment
        /\ Goto(p, "settle")
        /\ UNCHANGED <<fresh, tradeNo>>
  /\ UNCHANGED <<status, paidAt, overdue, goods>>

\* Mutant: the status is no longer compared when it is set.
SettleUnpaid_NoCompare(p) ==
  /\ pc[p] = "settle"
  /\ \E r \in WriteOutcomes :
       UpdateStatus(r, Statuses, IF task[p] = "expire" THEN "EXPIRED" ELSE "CANCELLED")
  /\ Return(p, "nil")
  /\ UNCHANGED <<paidAt, overdue, tradeNo, goods, upstream>>

\* The end of cancelCore.
SettleUnpaid(p) ==
  /\ pc[p] = "settle"
  /\ \E r \in WriteOutcomes :
       UpdateStatus(r, {"PENDING"}, IF task[p] = "expire" THEN "EXPIRED" ELSE "CANCELLED")
  /\ Return(p, "nil")
  /\ UNCHANGED <<paidAt, overdue, tradeNo, goods, upstream>>

-----------------------------------------------------------------------------
\* HandlePaymentNotification and confirmPayment up to the amount check: a failed
\* lookup by out_trade_no is an error, a failed Get(oid) is swallowed.
ConfirmPayment(p) ==
  /\ pc[p] = "notify"
  /\ \/ DbErrors /\ (Return(p, "error") \/ Return(p, "nil"))
     \/ upstream = "mispaid" /\ Return(p, "error")
     \/ upstream = "paid" /\ Goto(p, "confirm")
  /\ UNCHANGED <<row, goods, upstream>>

\* Mutant: a cancelled order is no longer recovered by its payment.
Payable_NotCancelled == status = "PENDING" \/ (status = "EXPIRED" /\ fresh)

Payable == status \in {"PENDING", "CANCELLED"} \/ (status = "EXPIRED" /\ fresh)

ToPaid(p) ==
  /\ pc[p] = "confirm"
  /\ \E r \in WriteOutcomes :
       /\ IF r # "lost" /\ Payable
          THEN status' = "PAID" /\ paidAt' = TRUE /\ fresh' = TRUE /\ tradeNo' = TRUE
          ELSE UNCHANGED <<status, paidAt, fresh, tradeNo>>
       /\ \/ r # "ok" /\ Return(p, "error")
          \/ r = "ok" /\ Goto(p, IF Payable THEN "fulfil" ELSE "reload")
  /\ UNCHANGED <<overdue, goods, upstream>>

AlreadyProcessed(p) ==
  /\ pc[p] = "reload"
  /\ \/ DbErrors /\ Return(p, "nil") /\ UNCHANGED audit
     \/ status = "FAILED" /\ Goto(p, "fulfil") /\ UNCHANGED audit
     \/ status \in {"PAID", "RECHARGING"} /\ Return(p, "error") /\ UNCHANGED audit
     \/ /\ status = "EXPIRED"
        /\ audit' = audit \cup {"PAYMENT_AFTER_EXPIRY"} \/ (DbErrors /\ UNCHANGED audit)
        /\ Return(p, "nil")
     \/ /\ status \notin {"FAILED", "PAID", "RECHARGING", "EXPIRED"}
        /\ Return(p, "nil")
        /\ UNCHANGED audit
  /\ UNCHANGED <<row, code, grants, rebates, upstream>>

-----------------------------------------------------------------------------
\* RetryFulfillment: the checks on the order as read, then the reset.
RetryFulfillment(p) ==
  /\ paidAt
  /\ status \in {"FAILED", "PAID"}
  /\ Start(p, "retry", "reset")
  /\ UNCHANGED <<row, goods, upstream>>

ResetForRetry(p) ==
  /\ pc[p] = "reset"
  /\ \E r \in WriteOutcomes :
       /\ UpdateStatus(r, {"FAILED", "PAID"}, "PAID")
       /\ \/ r # "ok" /\ Return(p, "error")
          \/ r = "ok" /\ Goto(p, "fulfil")
  /\ UNCHANGED <<paidAt, overdue, tradeNo, goods, upstream>>

\* executeFulfillment and the checks of Execute...Fulfillment on the order as read.
ExecuteFulfillment(p) ==
  /\ pc[p] = "fulfil"
  /\ \/ DbErrors /\ Return(p, "error")
     \/ status \in {"PAID", "FAILED"} /\ Goto(p, "lock")
     \/ status \notin {"PAID", "FAILED"} /\ Return(p, IF status = "COMPLETED" THEN "nil" ELSE "error")
  /\ UNCHANGED <<row, goods, upstream>>

\* Mutant: an unconditional update instead of the compare-and-set.
LockOrder_NoCompare(p) ==
  /\ pc[p] = "lock"
  /\ \E r \in WriteOutcomes :
       /\ UpdateStatus(r, Statuses, "RECHARGING")
       /\ IF r = "ok" THEN Goto(p, "lookup") ELSE Return(p, "error")
  /\ UNCHANGED <<paidAt, overdue, tradeNo, goods, upstream>>

\* Mutant: the test on the number of updated rows is inverted.
LockOrder_Inverted(p) ==
  /\ pc[p] = "lock"
  /\ UpdateStatus("ok", {"PAID", "FAILED"}, "RECHARGING")
  /\ IF status \in {"PAID", "FAILED"} THEN Return(p, "nil") ELSE Goto(p, "lookup")
  /\ UNCHANGED <<paidAt, overdue, tradeNo, goods, upstream>>

\* The compare-and-set to RECHARGING; a process that loses it returns nil.
LockOrder(p) ==
  /\ pc[p] = "lock"
  /\ \E r \in WriteOutcomes :
       /\ UpdateStatus(r, {"PAID", "FAILED"}, "RECHARGING")
       /\ \/ r # "ok" /\ Return(p, "error")
          \/ r = "ok" /\ status \in {"PAID", "FAILED"} /\ Goto(p, "lookup")
          \/ r = "ok" /\ status \notin {"PAID", "FAILED"} /\ Return(p, "nil")
  /\ UNCHANGED <<paidAt, overdue, tradeNo, goods, upstream>>

\* doBalance, resolveRedeemAction: a failed lookup is taken for a missing code.
\* doSub, hasAuditLog: a failed lookup is taken for a missing entry.
LookupGrant(p) ==
  /\ pc[p] = "lookup"
  /\ \/ /\ orderType = "balance"
        /\ \/ (code = "none" \/ DbErrors) /\ Goto(p, "create")
           \/ code = "unused" /\ Goto(p, "redeem")
           \/ code = "used" /\ Goto(p, "rebate")
     \/ /\ orderType = "subscription"
        /\ \/ ("SUCCESS" \notin audit \/ DbErrors) /\ Goto(p, "assign")
           \/ "SUCCESS" \in audit /\ Goto(p, "complete")
           \/ Goto(p, "fail")                      \* the group is no longer available
  /\ UNCHANGED <<row, goods, upstream>>

\* redeemService.CreateCode; the code column is unique.
CreateCode(p) ==
  /\ pc[p] = "create"
  /\ \E r \in WriteOutcomes :
       /\ code' = IF r # "lost" /\ code = "none" THEN "unused" ELSE code
       /\ Goto(p, IF r = "ok" /\ code = "none" THEN "redeem" ELSE "fail")
  /\ UNCHANGED <<row, grants, rebates, audit, upstream>>

\* redeemService.Redeem: one transaction marks the code used and credits the
\* balance.  The error after the commit is the failed re-read of the code.
Redeem(p) ==
  /\ pc[p] = "redeem"
  /\ \E r \in WriteOutcomes :
       /\ IF r # "lost" /\ code = "unused"
          THEN code' = "used" /\ grants' = grants + 1
          ELSE UNCHANGED <<code, grants>>
       /\ Goto(p, IF r = "ok" /\ code = "unused" THEN "rebate" ELSE "fail")
  /\ UNCHANGED <<row, rebates, audit, upstream>>

\* applyAffiliateRebateForOrder: claim, accrual and claim update in one transaction.
ApplyRebate(p) ==
  /\ pc[p] = "rebate"
  /\ \E r \in WriteOutcomes :
       /\ IF r # "lost" /\ "REBATE" \notin audit
          THEN audit' = audit \cup {"REBATE"} /\ rebates' = rebates + 1
          ELSE UNCHANGED <<audit, rebates>>
       /\ Goto(p, IF r = "ok" THEN "complete" ELSE "fail")
  /\ UNCHANGED <<row, code, grants, upstream>>

\* AssignOrExtendSubscription as doSub calls it.
AssignSubscription(p) ==
  /\ pc[p] = "assign"
  /\ grants < MaxGrants
  /\ \E r \in WriteOutcomes :
       /\ grants' = IF r = "lost" THEN grants ELSE grants + 1
       /\ Goto(p, IF r = "ok" THEN "complete" ELSE "fail")
  /\ UNCHANGED <<row, code, rebates, audit, upstream>>

\* markCompleted: the audit entry is written only after the update succeeded,
\* and its own failure is ignored.
MarkCompleted(p) ==
  /\ pc[p] = "complete"
  /\ \E r \in WriteOutcomes :
       /\ UpdateStatus(r, {"RECHARGING"}, "COMPLETED")
       /\ \/ r # "ok" /\ Goto(p, "fail") /\ UNCHANGED audit
          \/ /\ r = "ok"
             /\ audit' = audit \cup {"SUCCESS"} \/ (DbErrors /\ UNCHANGED audit)
             /\ Return(p, "nil")
  /\ UNCHANGED <<paidAt, overdue, tradeNo, code, grants, rebates, upstream>>

\* Mutant: FAILED is set whatever the status is, also over COMPLETED.
MarkFailed_NoCompare(p) ==
  /\ pc[p] = "fail"
  /\ \E r \in WriteOutcomes : UpdateStatus(r, Statuses, "FAILED")
  /\ Return(p, "error")
  /\ UNCHANGED <<paidAt, overdue, tradeNo, goods, upstream>>

MarkFailed(p) ==
  /\ pc[p] = "fail"
  /\ \E r \in WriteOutcomes : UpdateStatus(r, {"RECHARGING"}, "FAILED")
  /\ Return(p, "error")
  /\ UNCHANGED <<paidAt, overdue, tradeNo, goods, upstream>>

-----------------------------------------------------------------------------
\* The environment: the paying user, the clock, and handlers that die.
UserPays ==
  /\ upstream = "open"
  /\ upstream' \in {"paid", "mispaid"}
  /\ UNCHANGED <<row, goods, proc, setup>>

GraceElapses ==
  /\ fresh' = FALSE
  /\ UNCHANGED <<status, paidAt, overdue, tradeNo, goods, upstream, proc, setup>>

DeadlinePasses ==
  /\ ~overdue /\ overdue' = TRUE
  /\ UNCHANGED <<status, paidAt, fresh, tradeNo, goods, upstream, proc, setup>>

Crash(p) ==
  /\ "crash" \in faults
  /\ pc[p] # "idle"
  /\ Return(p, "error")
  /\ UNCHANGED <<row, goods, upstream>>

StartHandler(p) == \/ CreateOrder(p) \/ Webhook(p) \/ CancelOrder(p)
                   \/ ExpireOrder(p) \/ VerifyOrder(p) \/ RetryFulfillment(p)

Continue(p) == \/ InvokeProvider(p) \/ CreateFailed(p)
               \/ QueryUpstream(p) \/ SettleUnpaid(p)
               \/ ConfirmPayment(p) \/ ToPaid(p) \/ AlreadyProcessed(p)
               \/ ResetForRetry(p) \/ ExecuteFulfillment(p) \/ LockOrder(p)
               \/ LookupGrant(p) \/ CreateCode(p) \/ Redeem(p) \/ ApplyRebate(p)
               \/ AssignSubscription(p) \/ MarkCompleted(p) \/ MarkFailed(p)

Environment == UserPays \/ GraceElapses \/ DeadlinePasses

Next == \/ Environment
        \/ \E p \in Procs : StartHandler(p) \/ Continue(p) \/ Crash(p)

Spec == Init /\ [][Next]_vars

\* A handler that was started runs on, and the provider repeats a notification that
\* was not acknowledged.  (Strong: every HTTP request gets a goroutine of its own; that
\* the processes of Procs may all be busy is an artefact of the model.)
Redelivery == ~acked /\ \E p \in Procs : Webhook(p)

FairSpec == /\ Spec
            /\ \A p \in Procs : WF_vars(Continue(p))
            /\ SF_vars(Redelivery)
-----------------------------------------------------------------------------
SetupOK == orderType \in OrderTypes /\ faults \in FaultSets

RowOK ==
  /\ status \in Statuses
  /\ paidAt \in BOOLEAN /\ fresh \in BOOLEAN
  /\ overdue \in BOOLEAN /\ tradeNo \in BOOLEAN

GoodsOK ==
  /\ code \in {"none", "unused", "used"}
  /\ grants \in Nat /\ rebates \in Nat
  /\ audit \subseteq {"SUCCESS", "REBATE", "PAYMENT_AFTER_EXPIRY"}
  /\ upstream \in {"none", "open", "closed", "paid", "mispaid"}

ControlOK ==
  /\ acked \in BOOLEAN
  /\ pc \in [Procs -> Steps]
  /\ task \in [Procs -> Tasks]
  /\ sawTradeNo \in [Procs -> BOOLEAN]

\* Every variable stays within its type.
TypeOK == SetupOK /\ RowOK /\ GoodsOK /\ ControlOK

\* Whatever notifications, retries, crashes and database errors occur, the user is
\* credited for a balance order at most once (redeem code + compare-and-set to RECHARGING).
GrantedOnce == orderType = "balance" => grants <= 1

\* A subscription order, which has no redeem code to tell that it was delivered, extends
\* the subscription at most once as long as the database does as it says, crashes or not.
SubscriptionExtendedOnce ==
  orderType = "subscription" /\ "db" \notin faults => grants <= 1

\* Nothing is credited unless the provider holds the full payment; in particular a
\* retry cannot fulfil an order that failed while it was being created.
NoGrantWithoutPayment == grants > 0 => upstream = "paid"

\* A COMPLETED balance order has been credited and its inviter rewarded, each exactly
\* once, also when an earlier attempt failed half-way.
CompletedIsDelivered ==
  status = "COMPLETED" /\ orderType = "balance" => grants = 1 /\ rebates = 1

\* Once a payment is confirmed no cancellation or expiry that was under way voids it.
PaidNeverVoided == paidAt => status \notin Void

\* At most one handler at a time delivers an order.
OneFulfiller ==
  \A p, q \in Procs : pc[p] \in Fulfilling /\ pc[q] \in Fulfilling => p = q

\* Without crashes and database errors an order in RECHARGING is being worked on.
\* RetryFulfillment and the webhook refuse orders in RECHARGING for that reason.
RechargingHasWorker ==
  faults = {} /\ status = "RECHARGING" => \E p \in Procs : pc[p] \in Fulfilling

\* Without faults a full payment leads to a COMPLETED order, to the audit entry for the
\* operator when it arrived after the order had been EXPIRED for the grace period, or to
\* FAILED when the group of a subscription is gone.
Handled == \/ status = "COMPLETED" \/ "PAYMENT_AFTER_EXPIRY" \in audit
           \/ orderType = "subscription" /\ status = "FAILED"
PaymentIsHandled == upstream = "paid" /\ faults = {} ~> Handled

\* A balance order is one entry of the ledger that PaymentLedger describes: however
\* handlers race, fail and are repeated, the order's observable effects are a run of it.
OnLedger(effect) == IF orderType = "balance" THEN effect ELSE 0
Ledger == INSTANCE PaymentLedger WITH
            money <- upstream = "paid", delivered <- OnLedger(grants),
            rewarded <- OnLedger(rebates),
            closed <- orderType = "balance" /\ status = "COMPLETED"
ImplementsLedger == Ledger!Spec

-----------------------------------------------------------------------------
\* What comments of the code say, and the code does not do.

\* doSub: "Prevents double-extension on retry after markCompleted fails."
RetryNeverExtends == orderType = "subscription" => grants <= 1
=============================================================================
