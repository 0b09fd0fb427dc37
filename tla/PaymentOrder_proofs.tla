------------------------- MODULE PaymentOrder_proofs -------------------------
(***************************************************************************)
(* Proofs about PaymentOrder for every number of handlers and every choice *)
(* of faults and order types: type correctness, the safety properties and  *)
(* the refinement of PaymentLedger, from the inductive invariant IInv.     *)
(***************************************************************************)
EXTENDS PaymentOrder, TLAPS

\* A step within a handler keeps the control state well typed.
LEMMA GotoTyped ==
  ASSUME ControlOK, NEW p \in Procs, NEW step \in Steps, Goto(p, step)
  PROVE  ControlOK'
  BY DEF ControlOK, Goto

\* So does a handler that returns,
LEMMA ReturnTyped ==
  ASSUME ControlOK, NEW p \in Procs, NEW err, Return(p, err)
  PROVE  ControlOK'
<1>1. acked' \in BOOLEAN
  BY Zenon DEF ControlOK, Return
<1>2. pc' \in [Procs -> Steps] /\ task' \in [Procs -> Tasks] /\ sawTradeNo' \in [Procs -> BOOLEAN]
  BY DEF ControlOK, Return, Steps, Tasks
<1>. QED  BY <1>1, <1>2 DEF ControlOK

\* and one that starts.
LEMMA StartTyped ==
  ASSUME ControlOK, tradeNo \in BOOLEAN, NEW p \in Procs, NEW h \in Tasks, NEW step \in Steps, Start(p, h, step)
  PROVE  ControlOK'
  BY DEF ControlOK, Start

\* A status update to a known status keeps the row well typed.
LEMMA UpdateTyped ==
  ASSUME RowOK, NEW r, NEW from, NEW to \in Statuses, UpdateStatus(r, from, to)
  PROVE  status' \in Statuses /\ fresh' \in BOOLEAN
  BY DEF UpdateStatus, RowOK

\* The initial state is well typed.
LEMMA InitTyped == Init => TypeOK
<1>. SUFFICES ASSUME Init PROVE TypeOK
  OBVIOUS
<1>1. pc \in [Procs -> Steps] /\ task \in [Procs -> Tasks]
  BY DEF Init, Steps, Tasks
<1>2. sawTradeNo \in [Procs -> BOOLEAN]
  BY Zenon DEF Init
<1>. QED  BY <1>1, <1>2 DEF Init, TypeOK, SetupOK, RowOK, GoodsOK, ControlOK, Statuses, Void

OrderOK == RowOK /\ GoodsOK /\ ControlOK

\* Every step of an order keeps it well typed.
LEMMA OrderTyped ==
  ASSUME OrderOK, [Next]_vars
  PROVE  OrderOK'
<1>. USE DEF Statuses, Void, Steps, Tasks, Fulfilling
<1>0. RowOK /\ GoodsOK /\ ControlOK
  BY DEF OrderOK
<1>2. CASE UserPays
  <2>1. RowOK'
    BY <1>0, <1>2 DEF UserPays, RowOK, row
  <2>2. GoodsOK'
    BY <1>0, <1>2 DEF UserPays, GoodsOK, goods
  <2>3. ControlOK'
    <3>1. UNCHANGED proc
      BY <1>2 DEF UserPays
    <3>. HIDE DEF Steps, Tasks
    <3>. QED  BY <1>0, <3>1 DEF ControlOK, proc
  <2>. QED  BY <2>1, <2>2, <2>3 DEF OrderOK
<1>3. CASE GraceElapses
  <2>1. RowOK'
    BY <1>0, <1>3 DEF GraceElapses, RowOK, row
  <2>2. GoodsOK'
    BY <1>0, <1>3 DEF GraceElapses, GoodsOK, goods
  <2>3. ControlOK'
    <3>1. UNCHANGED proc
      BY <1>3 DEF GraceElapses
    <3>. HIDE DEF Steps, Tasks
    <3>. QED  BY <1>0, <3>1 DEF ControlOK, proc
  <2>. QED  BY <2>1, <2>2, <2>3 DEF OrderOK
<1>4. CASE DeadlinePasses
  <2>1. RowOK'
    BY <1>0, <1>4 DEF DeadlinePasses, RowOK, row
  <2>2. GoodsOK'
    BY <1>0, <1>4 DEF DeadlinePasses, GoodsOK, goods
  <2>3. ControlOK'
    <3>1. UNCHANGED proc
      BY <1>4 DEF DeadlinePasses
    <3>. HIDE DEF Steps, Tasks
    <3>. QED  BY <1>0, <3>1 DEF ControlOK, proc
  <2>. QED  BY <2>1, <2>2, <2>3 DEF OrderOK
<1>5. ASSUME NEW p \in Procs, CreateOrder(p) PROVE OrderOK'
  <2>1. ControlOK'
    BY <1>0, <1>5, StartTyped DEF CreateOrder, RowOK
  <2>2. RowOK' /\ GoodsOK'
    BY <1>0, <1>5 DEF CreateOrder, RowOK, GoodsOK, row, goods, WriteOutcomes
  <2>. QED  BY <2>1, <2>2 DEF OrderOK
<1>6. ASSUME NEW p \in Procs, InvokeProvider(p) PROVE OrderOK'
  <2>1. ControlOK'
    BY <1>0, <1>6, GotoTyped, ReturnTyped DEF InvokeProvider
  <2>2. RowOK'
    BY <1>0, <1>6 DEF InvokeProvider, RowOK, row, WriteOutcomes
  <2>3. GoodsOK'
    BY <1>0, <1>6 DEF InvokeProvider, GoodsOK, goods, WriteOutcomes
  <2>. QED  BY <2>1, <2>2, <2>3 DEF OrderOK
<1>7. ASSUME NEW p \in Procs, CreateFailed(p) PROVE OrderOK'
  <2>1. ControlOK'
    BY <1>0, <1>7, ReturnTyped DEF CreateFailed
  <2>2. RowOK' /\ GoodsOK'
    BY <1>0, <1>7, UpdateTyped DEF CreateFailed, RowOK, GoodsOK, row, goods, WriteOutcomes
  <2>. QED  BY <2>1, <2>2 DEF OrderOK
<1>8. ASSUME NEW p \in Procs, Webhook(p) PROVE OrderOK'
  <2>1. ControlOK'
    BY <1>0, <1>8, StartTyped DEF Webhook, RowOK
  <2>2. RowOK' /\ GoodsOK'
    BY <1>0, <1>8 DEF Webhook, RowOK, GoodsOK, row, goods, WriteOutcomes
  <2>. QED  BY <2>1, <2>2 DEF OrderOK
<1>9. ASSUME NEW p \in Procs, CancelOrder(p) PROVE OrderOK'
  <2>1. ControlOK'
    BY <1>0, <1>9, StartTyped DEF CancelOrder, RowOK
  <2>2. RowOK' /\ GoodsOK'
    BY <1>0, <1>9 DEF CancelOrder, RowOK, GoodsOK, row, goods, WriteOutcomes
  <2>. QED  BY <2>1, <2>2 DEF OrderOK
<1>10. ASSUME NEW p \in Procs, ExpireOrder(p) PROVE OrderOK'
  <2>1. ControlOK'
    BY <1>0, <1>10, StartTyped DEF ExpireOrder, RowOK
  <2>2. RowOK' /\ GoodsOK'
    BY <1>0, <1>10 DEF ExpireOrder, RowOK, GoodsOK, row, goods, WriteOutcomes
  <2>. QED  BY <2>1, <2>2 DEF OrderOK
<1>11. ASSUME NEW p \in Procs, VerifyOrder(p) PROVE OrderOK'
  <2>1. ControlOK'
    BY <1>0, <1>11, StartTyped DEF VerifyOrder, RowOK
  <2>2. RowOK' /\ GoodsOK'
    BY <1>0, <1>11 DEF VerifyOrder, RowOK, GoodsOK, row, goods, WriteOutcomes
  <2>. QED  BY <2>1, <2>2 DEF OrderOK
<1>12. ASSUME NEW p \in Procs, QueryUpstream(p) PROVE OrderOK'
  <2>1. ControlOK'
    BY <1>0, <1>12, GotoTyped, ReturnTyped DEF QueryUpstream
  <2>2. RowOK'
    BY <1>0, <1>12 DEF QueryUpstream, RowOK, row, WriteOutcomes
  <2>3. GoodsOK'
    BY <1>0, <1>12 DEF QueryUpstream, GoodsOK, goods, WriteOutcomes
  <2>. QED  BY <2>1, <2>2, <2>3 DEF OrderOK
<1>13. ASSUME NEW p \in Procs, SettleUnpaid(p) PROVE OrderOK'
  <2>1. ControlOK'
    BY <1>0, <1>13, ReturnTyped DEF SettleUnpaid
  <2>2. RowOK' /\ GoodsOK'
    BY <1>0, <1>13, UpdateTyped DEF SettleUnpaid, RowOK, GoodsOK, row, goods, WriteOutcomes
  <2>. QED  BY <2>1, <2>2 DEF OrderOK
<1>14. ASSUME NEW p \in Procs, ConfirmPayment(p) PROVE OrderOK'
  <2>1. ControlOK'
    BY <1>0, <1>14, GotoTyped, ReturnTyped DEF ConfirmPayment
  <2>2. RowOK' /\ GoodsOK'
    BY <1>0, <1>14 DEF ConfirmPayment, RowOK, GoodsOK, row, goods, WriteOutcomes
  <2>. QED  BY <2>1, <2>2 DEF OrderOK
<1>15. ASSUME NEW p \in Procs, ToPaid(p) PROVE OrderOK'
  <2>1. ControlOK'
    BY <1>0, <1>15, GotoTyped, ReturnTyped DEF ToPaid
  <2>2. RowOK'
    BY <1>0, <1>15 DEF ToPaid, RowOK, row, WriteOutcomes
  <2>3. GoodsOK'
    BY <1>0, <1>15 DEF ToPaid, GoodsOK, goods, WriteOutcomes
  <2>. QED  BY <2>1, <2>2, <2>3 DEF OrderOK
<1>16. ASSUME NEW p \in Procs, AlreadyProcessed(p) PROVE OrderOK'
  <2>1. ControlOK'
    BY <1>0, <1>16, GotoTyped, ReturnTyped DEF AlreadyProcessed
  <2>2. RowOK'
    BY <1>0, <1>16 DEF AlreadyProcessed, RowOK, row, WriteOutcomes
  <2>3. GoodsOK'
    BY <1>0, <1>16 DEF AlreadyProcessed, GoodsOK, goods, WriteOutcomes
  <2>. QED  BY <2>1, <2>2, <2>3 DEF OrderOK
<1>17. ASSUME NEW p \in Procs, RetryFulfillment(p) PROVE OrderOK'
  <2>1. ControlOK'
    BY <1>0, <1>17, StartTyped DEF RetryFulfillment, RowOK
  <2>2. RowOK' /\ GoodsOK'
    BY <1>0, <1>17 DEF RetryFulfillment, RowOK, GoodsOK, row, goods, WriteOutcomes
  <2>. QED  BY <2>1, <2>2 DEF OrderOK
<1>18. ASSUME NEW p \in Procs, ResetForRetry(p) PROVE OrderOK'
  <2>1. ControlOK'
    BY <1>0, <1>18, GotoTyped, ReturnTyped DEF ResetForRetry
  <2>2. RowOK' /\ GoodsOK'
    BY <1>0, <1>18, UpdateTyped DEF ResetForRetry, RowOK, GoodsOK, row, goods, WriteOutcomes
  <2>. QED  BY <2>1, <2>2 DEF OrderOK
<1>19. ASSUME NEW p \in Procs, ExecuteFulfillment(p) PROVE OrderOK'
  <2>1. ControlOK'
    BY <1>0, <1>19, GotoTyped, ReturnTyped DEF ExecuteFulfillment
  <2>2. RowOK' /\ GoodsOK'
    BY <1>0, <1>19 DEF ExecuteFulfillment, RowOK, GoodsOK, row, goods, WriteOutcomes
  <2>. QED  BY <2>1, <2>2 DEF OrderOK
<1>20. ASSUME NEW p \in Procs, LockOrder(p) PROVE OrderOK'
  <2>1. ControlOK'
    BY <1>0, <1>20, GotoTyped, ReturnTyped DEF LockOrder
  <2>2. RowOK' /\ GoodsOK'
    BY <1>0, <1>20, UpdateTyped DEF LockOrder, RowOK, GoodsOK, row, goods, WriteOutcomes
  <2>. QED  BY <2>1, <2>2 DEF OrderOK
<1>21. ASSUME NEW p \in Procs, LookupGrant(p) PROVE OrderOK'
  <2>1. ControlOK'
    BY <1>0, <1>21, GotoTyped DEF LookupGrant
  <2>2. RowOK' /\ GoodsOK'
    BY <1>0, <1>21 DEF LookupGrant, RowOK, GoodsOK, row, goods, WriteOutcomes
  <2>. QED  BY <2>1, <2>2 DEF OrderOK
<1>22. ASSUME NEW p \in Procs, CreateCode(p) PROVE OrderOK'
  <2>1. ControlOK'
    BY <1>0, <1>22, GotoTyped DEF CreateCode
  <2>2. RowOK' /\ GoodsOK'
    BY <1>0, <1>22 DEF CreateCode, RowOK, GoodsOK, row, goods, WriteOutcomes
  <2>. QED  BY <2>1, <2>2 DEF OrderOK
<1>23. ASSUME NEW p \in Procs, Redeem(p) PROVE OrderOK'
  <2>1. ControlOK'
    BY <1>0, <1>23, GotoTyped DEF Redeem
  <2>2. RowOK' /\ GoodsOK'
    BY <1>0, <1>23 DEF Redeem, RowOK, GoodsOK, row, goods, WriteOutcomes
  <2>. QED  BY <2>1, <2>2 DEF OrderOK
<1>24. ASSUME NEW p \in Procs, ApplyRebate(p) PROVE OrderOK'
  <2>1. ControlOK'
    BY <1>0, <1>24, GotoTyped DEF ApplyRebate
  <2>2. RowOK' /\ GoodsOK'
    <3>1. audit' \subseteq audit \cup {"REBATE"} /\ rebates' \in {rebates, rebates + 1}
      BY <1>24 DEF ApplyRebate
    <3>. QED  BY <1>0, <1>24, <3>1 DEF ApplyRebate, RowOK, GoodsOK, row
  <2>. QED  BY <2>1, <2>2 DEF OrderOK
<1>25. ASSUME NEW p \in Procs, AssignSubscription(p) PROVE OrderOK'
  <2>1. ControlOK'
    BY <1>0, <1>25, GotoTyped DEF AssignSubscription
  <2>2. RowOK' /\ GoodsOK'
    BY <1>0, <1>25 DEF AssignSubscription, RowOK, GoodsOK, row, goods, WriteOutcomes
  <2>. QED  BY <2>1, <2>2 DEF OrderOK
<1>26. ASSUME NEW p \in Procs, MarkCompleted(p) PROVE OrderOK'
  <2>1. ControlOK'
    BY <1>0, <1>26, GotoTyped, ReturnTyped DEF MarkCompleted
  <2>2. RowOK' /\ GoodsOK'
    BY <1>0, <1>26, UpdateTyped DEF MarkCompleted, RowOK, GoodsOK, row, goods, WriteOutcomes
  <2>. QED  BY <2>1, <2>2 DEF OrderOK
<1>27. ASSUME NEW p \in Procs, MarkFailed(p) PROVE OrderOK'
  <2>1. ControlOK'
    BY <1>0, <1>27, ReturnTyped DEF MarkFailed
  <2>2. RowOK' /\ GoodsOK'
    BY <1>0, <1>27, UpdateTyped DEF MarkFailed, RowOK, GoodsOK, row, goods, WriteOutcomes
  <2>. QED  BY <2>1, <2>2 DEF OrderOK
<1>28. ASSUME NEW p \in Procs, Crash(p) PROVE OrderOK'
  <2>1. ControlOK'
    BY <1>0, <1>28, ReturnTyped DEF Crash
  <2>2. RowOK' /\ GoodsOK'
    BY <1>0, <1>28 DEF Crash, RowOK, GoodsOK, row, goods, WriteOutcomes
  <2>. QED  BY <2>1, <2>2 DEF OrderOK
<1>29. CASE UNCHANGED vars
  BY <1>29 DEF vars, row, goods, proc, OrderOK, RowOK, GoodsOK, ControlOK
<1>. QED
  BY <1>2, <1>3, <1>4, <1>5, <1>6, <1>7, <1>8, <1>9, <1>10, <1>11, <1>12, <1>13, <1>14, <1>15, <1>16, <1>17, <1>18, <1>19, <1>20, <1>21, <1>22, <1>23, <1>24, <1>25, <1>26, <1>27, <1>28, <1>29 DEF Next, Environment, StartHandler, Continue

\* The kind of the order and its faults are chosen once.
LEMMA SetupFixed == [Next]_vars => UNCHANGED setup
<1>. USE DEF Goto, Start, Return, setup
<1>1. Environment => UNCHANGED setup
  BY DEF Environment, UserPays, GraceElapses, DeadlinePasses
<1>2. ASSUME NEW p \in Procs, StartHandler(p) PROVE UNCHANGED setup
  BY <1>2 DEF StartHandler, CreateOrder, Webhook, CancelOrder, ExpireOrder, VerifyOrder,
              RetryFulfillment
<1>3. ASSUME NEW p \in Procs, Continue(p) PROVE UNCHANGED setup
  <2>1. CASE InvokeProvider(p)
    BY <2>1 DEF InvokeProvider
  <2>2. CASE CreateFailed(p)
    BY <2>2 DEF CreateFailed
  <2>3. CASE QueryUpstream(p)
    BY <2>3 DEF QueryUpstream
  <2>4. CASE SettleUnpaid(p)
    BY <2>4 DEF SettleUnpaid
  <2>5. CASE ConfirmPayment(p)
    BY <2>5 DEF ConfirmPayment
  <2>6. CASE ToPaid(p)
    BY <2>6 DEF ToPaid
  <2>7. CASE AlreadyProcessed(p)
    BY <2>7 DEF AlreadyProcessed
  <2>8. CASE ResetForRetry(p)
    BY <2>8 DEF ResetForRetry
  <2>9. CASE ExecuteFulfillment(p)
    BY <2>9 DEF ExecuteFulfillment
  <2>10. CASE LockOrder(p)
    BY <2>10 DEF LockOrder
  <2>11. CASE LookupGrant(p)
    BY <2>11 DEF LookupGrant
  <2>12. CASE CreateCode(p)
    BY <2>12 DEF CreateCode
  <2>13. CASE Redeem(p)
    BY <2>13 DEF Redeem
  <2>14. CASE ApplyRebate(p)
    BY <2>14 DEF ApplyRebate
  <2>15. CASE AssignSubscription(p)
    BY <2>15 DEF AssignSubscription
  <2>16. CASE MarkCompleted(p)
    BY <2>16 DEF MarkCompleted
  <2>17. CASE MarkFailed(p)
    BY <2>17 DEF MarkFailed
  <2>. QED  BY <1>3, <2>1, <2>2, <2>3, <2>4, <2>5, <2>6, <2>7, <2>8, <2>9, <2>10, <2>11, <2>12, <2>13, <2>14, <2>15, <2>16, <2>17 DEF Continue
<1>4. ASSUME NEW p \in Procs, Crash(p) PROVE UNCHANGED setup
  BY <1>4 DEF Crash
<1>. QED  BY <1>1, <1>2, <1>3, <1>4 DEF Next, vars

LEMMA TypedStep == TypeOK /\ [Next]_vars => TypeOK'
<1>1. SetupOK /\ UNCHANGED setup => SetupOK'
  BY DEF SetupOK, setup
<1>. QED  BY <1>1, SetupFixed, OrderTyped DEF TypeOK, OrderOK

\* Every variable of an order keeps its type: no handler stores an unknown status, step
\* or audit action, for either order type and under all faults.
THEOREM TypeCorrect == Spec => []TypeOK
<1>. QED  BY InitTyped, TypedStep, PTL DEF Spec

\* The steps a handler reaches only after a payment was confirmed.
Confirmed == {"confirm", "reload", "reset", "fulfil", "lock"} \cup Fulfilling
Creating  == {"provider", "createFailed"}

\* Money precedes everything: paid_at, the paid statuses and every handler past the
\* amount check imply that the provider holds the payment.  The last conjuncts exclude
\* that CreateOrder sets FAILED (without a compare) on an order that could be paid.
MoneyFirst ==
  /\ paidAt => upstream = "paid"
  /\ NoGrantWithoutPayment
  /\ status \in {"PAID", "RECHARGING", "COMPLETED"} => upstream = "paid"
  /\ \A p \in Procs : pc[p] \in Confirmed => upstream = "paid"
  /\ \A p \in Procs : pc[p] \in Creating => upstream = "none" /\ status # "NONE"
  /\ \A p, q \in Procs : pc[p] \in Creating /\ pc[q] \in Creating => p = q
  /\ status = "NONE" => upstream = "none"

\* A handler that fulfils the order holds it in RECHARGING; only a handler whose own
\* markCompleted took effect but reported an error may see it COMPLETED.
Owned ==
  /\ \A p \in Procs : pc[p] \in Fulfilling \ {"fail"} => status = "RECHARGING"
  /\ \A p \in Procs : pc[p] = "fail" => status \in {"RECHARGING", "COMPLETED"}

\* The effects are counted by what the database can tell: the credit by the used code,
\* the rebate by its audit entry, and no order completes without both.
Booked == orderType = "balance" =>
  /\ grants = (IF code = "used" THEN 1 ELSE 0)
  /\ rebates = (IF "REBATE" \in audit THEN 1 ELSE 0)
  /\ code = "used" => upstream = "paid"
  /\ "REBATE" \in audit => code = "used"
  /\ status = "COMPLETED" => "REBATE" \in audit
  /\ \A p \in Procs : pc[p] \in {"rebate", "complete"} => code = "used"
  /\ \A p \in Procs : pc[p] = "complete" => "REBATE" \in audit
  /\ \A p \in Procs : pc[p] # "assign"

\* A subscription that was extended is behind RECHARGING for good, as long as the database
\* is honest: whoever may still extend it has not.
Extended == orderType # "balance" =>
  /\ \A p \in Procs : pc[p] \notin {"create", "redeem", "rebate"}
  /\ "db" \notin faults =>
       /\ grants <= 1
       /\ \A p \in Procs : pc[p] \in {"lookup", "assign", "fail"} => grants = 0
       /\ status \notin {"RECHARGING", "COMPLETED"} => grants = 0

\* GrantedOnce, SubscriptionExtendedOnce and CompletedIsDelivered are not inductive: they
\* hold because credit and code change together (Booked), or the extension is remembered by
\* the status (Extended), and only the owner does either (Owned, OneFulfiller), and owners
\* exist only for paid orders (MoneyFirst).
IInv == /\ TypeOK /\ MoneyFirst /\ PaidNeverVoided /\ OneFulfiller /\ Owned
        /\ Booked /\ Extended /\ RechargingHasWorker

\* Every step of an order preserves IInv.
LEMMA Inductive ==
  ASSUME IInv, TypeOK', [Next]_vars
  PROVE  IInv'
<1>. USE DEF Statuses, Void, Steps, Tasks, Fulfilling, Confirmed, Creating, setup, row, goods, proc,
             UpdateStatus, Goto, Start, Return, WriteOutcomes, DbErrors, RowOK, GoodsOK, ControlOK
<1>0. TypeOK /\ RowOK /\ GoodsOK /\ ControlOK /\ MoneyFirst /\ PaidNeverVoided /\ OneFulfiller /\ Owned /\ Booked /\ Extended /\ RechargingHasWorker
  BY DEF IInv, TypeOK
<1>1. CASE UserPays
  <2>1. MoneyFirst'
    BY <1>0, <1>1 DEF UserPays, MoneyFirst, NoGrantWithoutPayment, Owned
  <2>2. PaidNeverVoided'
    BY <1>0, <1>1 DEF UserPays, MoneyFirst, PaidNeverVoided
  <2>3. OneFulfiller' /\ Owned'
    BY <1>0, <1>1 DEF UserPays, MoneyFirst, OneFulfiller, Owned
  <2>4. Booked'
    BY <1>0, <1>1 DEF UserPays, MoneyFirst, Owned, Booked
  <2>5. Extended'
    BY <1>0, <1>1 DEF UserPays, OneFulfiller, Owned, Extended
  <2>6. RechargingHasWorker'
    BY <1>0, <1>1 DEF UserPays, Owned, RechargingHasWorker
  <2>. QED  BY <2>1, <2>2, <2>3, <2>4, <2>5, <2>6 DEF IInv
<1>2. CASE GraceElapses
  <2>1. MoneyFirst'
    BY <1>0, <1>2 DEF GraceElapses, MoneyFirst, NoGrantWithoutPayment, Owned
  <2>2. PaidNeverVoided'
    BY <1>0, <1>2 DEF GraceElapses, MoneyFirst, PaidNeverVoided
  <2>3. OneFulfiller' /\ Owned'
    BY <1>0, <1>2 DEF GraceElapses, MoneyFirst, OneFulfiller, Owned
  <2>4. Booked'
    BY <1>0, <1>2 DEF GraceElapses, MoneyFirst, Owned, Booked
  <2>5. Extended'
    BY <1>0, <1>2 DEF GraceElapses, OneFulfiller, Owned, Extended
  <2>6. RechargingHasWorker'
    BY <1>0, <1>2 DEF GraceElapses, Owned, RechargingHasWorker
  <2>. QED  BY <2>1, <2>2, <2>3, <2>4, <2>5, <2>6 DEF IInv
<1>3. CASE DeadlinePasses
  <2>1. MoneyFirst'
    BY <1>0, <1>3 DEF DeadlinePasses, MoneyFirst, NoGrantWithoutPayment, Owned
  <2>2. PaidNeverVoided'
    BY <1>0, <1>3 DEF DeadlinePasses, MoneyFirst, PaidNeverVoided
  <2>3. OneFulfiller' /\ Owned'
    BY <1>0, <1>3 DEF DeadlinePasses, MoneyFirst, OneFulfiller, Owned
  <2>4. Booked'
    BY <1>0, <1>3 DEF DeadlinePasses, MoneyFirst, Owned, Booked
  <2>5. Extended'
    BY <1>0, <1>3 DEF DeadlinePasses, OneFulfiller, Owned, Extended
  <2>6. RechargingHasWorker'
    BY <1>0, <1>3 DEF DeadlinePasses, Owned, RechargingHasWorker
  <2>. QED  BY <2>1, <2>2, <2>3, <2>4, <2>5, <2>6 DEF IInv
<1>4. ASSUME NEW p \in Procs, CreateOrder(p) PROVE IInv'
  <2>1. MoneyFirst'
    BY <1>0, <1>4 DEF CreateOrder, MoneyFirst, NoGrantWithoutPayment, Owned
  <2>2. PaidNeverVoided'
    BY <1>0, <1>4 DEF CreateOrder, MoneyFirst, PaidNeverVoided
  <2>3. OneFulfiller' /\ Owned'
    BY <1>0, <1>4 DEF CreateOrder, MoneyFirst, OneFulfiller, Owned
  <2>4. Booked'
    BY <1>0, <1>4 DEF CreateOrder, MoneyFirst, Owned, Booked
  <2>5. Extended'
    BY <1>0, <1>4 DEF CreateOrder, OneFulfiller, Owned, Extended
  <2>6. RechargingHasWorker'
    BY <1>0, <1>4 DEF CreateOrder, Owned, RechargingHasWorker
  <2>. QED  BY <2>1, <2>2, <2>3, <2>4, <2>5, <2>6 DEF IInv
<1>5. ASSUME NEW p \in Procs, InvokeProvider(p) PROVE IInv'
  <2>1. MoneyFirst'
    BY <1>0, <1>5 DEF InvokeProvider, MoneyFirst, NoGrantWithoutPayment, Owned
  <2>2. PaidNeverVoided'
    BY <1>0, <1>5 DEF InvokeProvider, MoneyFirst, PaidNeverVoided
  <2>3. OneFulfiller' /\ Owned'
    BY <1>0, <1>5 DEF InvokeProvider, MoneyFirst, OneFulfiller, Owned
  <2>4. Booked'
    BY <1>0, <1>5 DEF InvokeProvider, MoneyFirst, Owned, Booked
  <2>5. Extended'
    BY <1>0, <1>5 DEF InvokeProvider, OneFulfiller, Owned, Extended
  <2>6. RechargingHasWorker'
    BY <1>0, <1>5 DEF InvokeProvider, Owned, RechargingHasWorker
  <2>. QED  BY <2>1, <2>2, <2>3, <2>4, <2>5, <2>6 DEF IInv
<1>6. ASSUME NEW p \in Procs, CreateFailed(p) PROVE IInv'
  <2>1. MoneyFirst'
    BY <1>0, <1>6 DEF CreateFailed, MoneyFirst, NoGrantWithoutPayment, Owned
  <2>2. PaidNeverVoided'
    BY <1>0, <1>6 DEF CreateFailed, MoneyFirst, PaidNeverVoided
  <2>3. OneFulfiller' /\ Owned'
    BY <1>0, <1>6 DEF CreateFailed, MoneyFirst, OneFulfiller, Owned
  <2>4. Booked'
    BY <1>0, <1>6 DEF CreateFailed, MoneyFirst, Owned, Booked
  <2>5. Extended'
    BY <1>0, <1>6 DEF CreateFailed, MoneyFirst, Extended
  <2>6. RechargingHasWorker'
    BY <1>0, <1>6 DEF CreateFailed, Owned, RechargingHasWorker
  <2>. QED  BY <2>1, <2>2, <2>3, <2>4, <2>5, <2>6 DEF IInv
<1>7. ASSUME NEW p \in Procs, Webhook(p) PROVE IInv'
  <2>1. MoneyFirst'
    BY <1>0, <1>7 DEF Webhook, MoneyFirst, NoGrantWithoutPayment, Owned
  <2>2. PaidNeverVoided'
    BY <1>0, <1>7 DEF Webhook, MoneyFirst, PaidNeverVoided
  <2>3. OneFulfiller' /\ Owned'
    BY <1>0, <1>7 DEF Webhook, MoneyFirst, OneFulfiller, Owned
  <2>4. Booked'
    BY <1>0, <1>7 DEF Webhook, MoneyFirst, Owned, Booked
  <2>5. Extended'
    BY <1>0, <1>7 DEF Webhook, OneFulfiller, Owned, Extended
  <2>6. RechargingHasWorker'
    BY <1>0, <1>7 DEF Webhook, Owned, RechargingHasWorker
  <2>. QED  BY <2>1, <2>2, <2>3, <2>4, <2>5, <2>6 DEF IInv
<1>8. ASSUME NEW p \in Procs, CancelOrder(p) PROVE IInv'
  <2>1. MoneyFirst'
    BY <1>0, <1>8 DEF CancelOrder, MoneyFirst, NoGrantWithoutPayment, Owned
  <2>2. PaidNeverVoided'
    BY <1>0, <1>8 DEF CancelOrder, MoneyFirst, PaidNeverVoided
  <2>3. OneFulfiller' /\ Owned'
    BY <1>0, <1>8 DEF CancelOrder, MoneyFirst, OneFulfiller, Owned
  <2>4. Booked'
    BY <1>0, <1>8 DEF CancelOrder, MoneyFirst, Owned, Booked
  <2>5. Extended'
    BY <1>0, <1>8 DEF CancelOrder, OneFulfiller, Owned, Extended
  <2>6. RechargingHasWorker'
    BY <1>0, <1>8 DEF CancelOrder, Owned, RechargingHasWorker
  <2>. QED  BY <2>1, <2>2, <2>3, <2>4, <2>5, <2>6 DEF IInv
<1>9. ASSUME NEW p \in Procs, ExpireOrder(p) PROVE IInv'
  <2>1. MoneyFirst'
    BY <1>0, <1>9 DEF ExpireOrder, MoneyFirst, NoGrantWithoutPayment, Owned
  <2>2. PaidNeverVoided'
    BY <1>0, <1>9 DEF ExpireOrder, MoneyFirst, PaidNeverVoided
  <2>3. OneFulfiller' /\ Owned'
    BY <1>0, <1>9 DEF ExpireOrder, MoneyFirst, OneFulfiller, Owned
  <2>4. Booked'
    BY <1>0, <1>9 DEF ExpireOrder, MoneyFirst, Owned, Booked
  <2>5. Extended'
    BY <1>0, <1>9 DEF ExpireOrder, OneFulfiller, Owned, Extended
  <2>6. RechargingHasWorker'
    BY <1>0, <1>9 DEF ExpireOrder, Owned, RechargingHasWorker
  <2>. QED  BY <2>1, <2>2, <2>3, <2>4, <2>5, <2>6 DEF IInv
<1>10. ASSUME NEW p \in Procs, VerifyOrder(p) PROVE IInv'
  <2>1. MoneyFirst'
    BY <1>0, <1>10 DEF VerifyOrder, MoneyFirst, NoGrantWithoutPayment, Owned
  <2>2. PaidNeverVoided'
    BY <1>0, <1>10 DEF VerifyOrder, MoneyFirst, PaidNeverVoided
  <2>3. OneFulfiller' /\ Owned'
    BY <1>0, <1>10 DEF VerifyOrder, MoneyFirst, OneFulfiller, Owned
  <2>4. Booked'
    BY <1>0, <1>10 DEF VerifyOrder, MoneyFirst, Owned, Booked
  <2>5. Extended'
    BY <1>0, <1>10 DEF VerifyOrder, OneFulfiller, Owned, Extended
  <2>6. RechargingHasWorker'
    BY <1>0, <1>10 DEF VerifyOrder, Owned, RechargingHasWorker
  <2>. QED  BY <2>1, <2>2, <2>3, <2>4, <2>5, <2>6 DEF IInv
<1>11. ASSUME NEW p \in Procs, QueryUpstream(p) PROVE IInv'
  <2>1. MoneyFirst'
    BY <1>0, <1>11 DEF QueryUpstream, MoneyFirst, NoGrantWithoutPayment, Owned
  <2>2. PaidNeverVoided'
    BY <1>0, <1>11 DEF QueryUpstream, MoneyFirst, PaidNeverVoided
  <2>3. OneFulfiller' /\ Owned'
    BY <1>0, <1>11 DEF QueryUpstream, MoneyFirst, OneFulfiller, Owned
  <2>4. Booked'
    BY <1>0, <1>11 DEF QueryUpstream, MoneyFirst, Owned, Booked
  <2>5. Extended'
    BY <1>0, <1>11 DEF QueryUpstream, OneFulfiller, Owned, Extended
  <2>6. RechargingHasWorker'
    BY <1>0, <1>11 DEF QueryUpstream, Owned, RechargingHasWorker
  <2>. QED  BY <2>1, <2>2, <2>3, <2>4, <2>5, <2>6 DEF IInv
<1>12. ASSUME NEW p \in Procs, SettleUnpaid(p) PROVE IInv'
  <2>1. MoneyFirst'
    BY <1>0, <1>12 DEF SettleUnpaid, MoneyFirst, NoGrantWithoutPayment, Owned
  <2>2. PaidNeverVoided'
    BY <1>0, <1>12 DEF SettleUnpaid, MoneyFirst, PaidNeverVoided
  <2>3. OneFulfiller' /\ Owned'
    BY <1>0, <1>12 DEF SettleUnpaid, MoneyFirst, OneFulfiller, Owned
  <2>4. Booked'
    BY <1>0, <1>12 DEF SettleUnpaid, MoneyFirst, Owned, Booked
  <2>5. Extended'
    BY <1>0, <1>12 DEF SettleUnpaid, OneFulfiller, Owned, Extended
  <2>6. RechargingHasWorker'
    BY <1>0, <1>12 DEF SettleUnpaid, Owned, RechargingHasWorker
  <2>. QED  BY <2>1, <2>2, <2>3, <2>4, <2>5, <2>6 DEF IInv
<1>13. ASSUME NEW p \in Procs, ConfirmPayment(p) PROVE IInv'
  <2>1. MoneyFirst'
    BY <1>0, <1>13 DEF ConfirmPayment, MoneyFirst, NoGrantWithoutPayment, Owned
  <2>2. PaidNeverVoided'
    BY <1>0, <1>13 DEF ConfirmPayment, MoneyFirst, PaidNeverVoided
  <2>3. OneFulfiller' /\ Owned'
    BY <1>0, <1>13 DEF ConfirmPayment, MoneyFirst, OneFulfiller, Owned
  <2>4. Booked'
    BY <1>0, <1>13 DEF ConfirmPayment, MoneyFirst, Owned, Booked
  <2>5. Extended'
    BY <1>0, <1>13 DEF ConfirmPayment, Extended
  <2>6. RechargingHasWorker'
    BY <1>0, <1>13 DEF ConfirmPayment, Owned, RechargingHasWorker
  <2>. QED  BY <2>1, <2>2, <2>3, <2>4, <2>5, <2>6 DEF IInv
<1>14. ASSUME NEW p \in Procs, ToPaid(p) PROVE IInv'
  <2>1. MoneyFirst'
    BY <1>0, <1>14 DEF ToPaid, MoneyFirst, NoGrantWithoutPayment, Owned, Payable
  <2>2. PaidNeverVoided'
    BY <1>0, <1>14 DEF ToPaid, MoneyFirst, PaidNeverVoided, Payable
  <2>3. OneFulfiller' /\ Owned'
    BY <1>0, <1>14 DEF ToPaid, MoneyFirst, OneFulfiller, Owned, Payable
  <2>4. Booked'
    BY <1>0, <1>14 DEF ToPaid, MoneyFirst, Owned, Booked, Payable
  <2>5. Extended'
    BY <1>0, <1>14 DEF ToPaid, OneFulfiller, Owned, Extended, Payable
  <2>6. RechargingHasWorker'
    BY <1>0, <1>14 DEF ToPaid, Owned, RechargingHasWorker, Payable
  <2>. QED  BY <2>1, <2>2, <2>3, <2>4, <2>5, <2>6 DEF IInv
<1>15. ASSUME NEW p \in Procs, AlreadyProcessed(p) PROVE IInv'
  <2>1. MoneyFirst'
    BY <1>0, <1>15 DEF AlreadyProcessed, MoneyFirst, NoGrantWithoutPayment, Owned
  <2>2. PaidNeverVoided'
    BY <1>0, <1>15 DEF AlreadyProcessed, MoneyFirst, PaidNeverVoided
  <2>3. OneFulfiller' /\ Owned'
    BY <1>0, <1>15 DEF AlreadyProcessed, MoneyFirst, OneFulfiller, Owned
  <2>4. Booked'
    BY <1>0, <1>15 DEF AlreadyProcessed, MoneyFirst, Owned, Booked
  <2>5. Extended'
    BY <1>0, <1>15 DEF AlreadyProcessed, OneFulfiller, Owned, Extended
  <2>6. RechargingHasWorker'
    BY <1>0, <1>15 DEF AlreadyProcessed, Owned, RechargingHasWorker
  <2>. QED  BY <2>1, <2>2, <2>3, <2>4, <2>5, <2>6 DEF IInv
<1>16. ASSUME NEW p \in Procs, RetryFulfillment(p) PROVE IInv'
  <2>1. MoneyFirst'
    BY <1>0, <1>16 DEF RetryFulfillment, MoneyFirst, NoGrantWithoutPayment, Owned
  <2>2. PaidNeverVoided'
    BY <1>0, <1>16 DEF RetryFulfillment, MoneyFirst, PaidNeverVoided
  <2>3. OneFulfiller' /\ Owned'
    BY <1>0, <1>16 DEF RetryFulfillment, MoneyFirst, OneFulfiller, Owned
  <2>4. Booked'
    BY <1>0, <1>16 DEF RetryFulfillment, MoneyFirst, Owned, Booked
  <2>5. Extended'
    BY <1>0, <1>16 DEF RetryFulfillment, OneFulfiller, Owned, Extended
  <2>6. RechargingHasWorker'
    BY <1>0, <1>16 DEF RetryFulfillment, Owned, RechargingHasWorker
  <2>. QED  BY <2>1, <2>2, <2>3, <2>4, <2>5, <2>6 DEF IInv
<1>17. ASSUME NEW p \in Procs, ResetForRetry(p) PROVE IInv'
  <2>1. MoneyFirst'
    BY <1>0, <1>17 DEF ResetForRetry, MoneyFirst, NoGrantWithoutPayment, Owned
  <2>2. PaidNeverVoided'
    BY <1>0, <1>17 DEF ResetForRetry, MoneyFirst, PaidNeverVoided
  <2>3. OneFulfiller' /\ Owned'
    BY <1>0, <1>17 DEF ResetForRetry, MoneyFirst, OneFulfiller, Owned
  <2>4. Booked'
    BY <1>0, <1>17 DEF ResetForRetry, MoneyFirst, Owned, Booked
  <2>5. Extended'
    BY <1>0, <1>17 DEF ResetForRetry, OneFulfiller, Owned, Extended
  <2>6. RechargingHasWorker'
    BY <1>0, <1>17 DEF ResetForRetry, Owned, RechargingHasWorker
  <2>. QED  BY <2>1, <2>2, <2>3, <2>4, <2>5, <2>6 DEF IInv
<1>18. ASSUME NEW p \in Procs, ExecuteFulfillment(p) PROVE IInv'
  <2>1. MoneyFirst'
    BY <1>0, <1>18 DEF ExecuteFulfillment, MoneyFirst, NoGrantWithoutPayment, Owned
  <2>2. PaidNeverVoided'
    BY <1>0, <1>18 DEF ExecuteFulfillment, MoneyFirst, PaidNeverVoided
  <2>3. OneFulfiller' /\ Owned'
    BY <1>0, <1>18 DEF ExecuteFulfillment, MoneyFirst, OneFulfiller, Owned
  <2>4. Booked'
    BY <1>0, <1>18 DEF ExecuteFulfillment, MoneyFirst, Owned, Booked
  <2>5. Extended'
    BY <1>0, <1>18 DEF ExecuteFulfillment, OneFulfiller, Owned, Extended
  <2>6. RechargingHasWorker'
    BY <1>0, <1>18 DEF ExecuteFulfillment, Owned, RechargingHasWorker
  <2>. QED  BY <2>1, <2>2, <2>3, <2>4, <2>5, <2>6 DEF IInv
<1>19. ASSUME NEW p \in Procs, LockOrder(p) PROVE IInv'
  <2>1. MoneyFirst'
    BY <1>0, <1>19 DEF LockOrder, MoneyFirst, NoGrantWithoutPayment, Owned
  <2>2. PaidNeverVoided'
    BY <1>0, <1>19 DEF LockOrder, MoneyFirst, PaidNeverVoided
  <2>3. OneFulfiller' /\ Owned'
    BY <1>0, <1>19 DEF LockOrder, MoneyFirst, OneFulfiller, Owned
  <2>4. Booked'
    BY <1>0, <1>19 DEF LockOrder, MoneyFirst, Owned, Booked
  <2>5. Extended'
    BY <1>0, <1>19 DEF LockOrder, OneFulfiller, Owned, Extended
  <2>6. RechargingHasWorker'
    BY <1>0, <1>19 DEF LockOrder, Owned, RechargingHasWorker
  <2>. QED  BY <2>1, <2>2, <2>3, <2>4, <2>5, <2>6 DEF IInv
<1>20. ASSUME NEW p \in Procs, LookupGrant(p) PROVE IInv'
  <2>1. MoneyFirst'
    BY <1>0, <1>20 DEF LookupGrant, MoneyFirst, NoGrantWithoutPayment, Owned
  <2>2. PaidNeverVoided'
    BY <1>0, <1>20 DEF LookupGrant, MoneyFirst, PaidNeverVoided
  <2>3. OneFulfiller' /\ Owned'
    BY <1>0, <1>20 DEF LookupGrant, MoneyFirst, OneFulfiller, Owned
  <2>4. Booked'
    BY <1>0, <1>20 DEF LookupGrant, MoneyFirst, Owned, Booked
  <2>5. Extended'
    BY <1>0, <1>20 DEF LookupGrant, OneFulfiller, Owned, Extended
  <2>6. RechargingHasWorker'
    BY <1>0, <1>20 DEF LookupGrant, Owned, RechargingHasWorker
  <2>. QED  BY <2>1, <2>2, <2>3, <2>4, <2>5, <2>6 DEF IInv
<1>21. ASSUME NEW p \in Procs, CreateCode(p) PROVE IInv'
  <2>1. MoneyFirst'
    BY <1>0, <1>21 DEF CreateCode, MoneyFirst, NoGrantWithoutPayment, Owned
  <2>2. PaidNeverVoided'
    BY <1>0, <1>21 DEF CreateCode, MoneyFirst, PaidNeverVoided
  <2>3. OneFulfiller' /\ Owned'
    BY <1>0, <1>21 DEF CreateCode, MoneyFirst, OneFulfiller, Owned
  <2>4. Booked'
    BY <1>0, <1>21 DEF CreateCode, MoneyFirst, Owned, Booked
  <2>5. Extended'
    BY <1>0, <1>21 DEF CreateCode, OneFulfiller, Owned, Extended
  <2>6. RechargingHasWorker'
    BY <1>0, <1>21 DEF CreateCode, Owned, RechargingHasWorker
  <2>. QED  BY <2>1, <2>2, <2>3, <2>4, <2>5, <2>6 DEF IInv
<1>22. ASSUME NEW p \in Procs, Redeem(p) PROVE IInv'
  <2>1. MoneyFirst'
    BY <1>0, <1>22 DEF Redeem, MoneyFirst, NoGrantWithoutPayment, Owned
  <2>2. PaidNeverVoided'
    BY <1>0, <1>22 DEF Redeem, MoneyFirst, PaidNeverVoided
  <2>3. OneFulfiller' /\ Owned'
    BY <1>0, <1>22 DEF Redeem, MoneyFirst, OneFulfiller, Owned
  <2>4. Booked'
    BY <1>0, <1>22 DEF Redeem, MoneyFirst, Owned, Booked
  <2>5. Extended'
    BY <1>0, <1>22 DEF Redeem, OneFulfiller, Owned, Extended
  <2>6. RechargingHasWorker'
    BY <1>0, <1>22 DEF Redeem, Owned, RechargingHasWorker
  <2>. QED  BY <2>1, <2>2, <2>3, <2>4, <2>5, <2>6 DEF IInv
<1>23. ASSUME NEW p \in Procs, ApplyRebate(p) PROVE IInv'
  <2>1. MoneyFirst'
    BY <1>0, <1>23 DEF ApplyRebate, MoneyFirst, NoGrantWithoutPayment, Owned
  <2>2. PaidNeverVoided'
    BY <1>0, <1>23 DEF ApplyRebate, MoneyFirst, PaidNeverVoided
  <2>3. OneFulfiller' /\ Owned'
    BY <1>0, <1>23 DEF ApplyRebate, MoneyFirst, OneFulfiller, Owned
  <2>4. Booked'
    BY <1>0, <1>23 DEF ApplyRebate, MoneyFirst, Owned, Booked
  <2>5. Extended'
    BY <1>0, <1>23 DEF ApplyRebate, OneFulfiller, Owned, Extended
  <2>6. RechargingHasWorker'
    BY <1>0, <1>23 DEF ApplyRebate, Owned, RechargingHasWorker
  <2>. QED  BY <2>1, <2>2, <2>3, <2>4, <2>5, <2>6 DEF IInv
<1>24. ASSUME NEW p \in Procs, AssignSubscription(p) PROVE IInv'
  <2>1. MoneyFirst'
    BY <1>0, <1>24 DEF AssignSubscription, MoneyFirst, NoGrantWithoutPayment, Owned
  <2>2. PaidNeverVoided'
    BY <1>0, <1>24 DEF AssignSubscription, MoneyFirst, PaidNeverVoided
  <2>3. OneFulfiller' /\ Owned'
    BY <1>0, <1>24 DEF AssignSubscription, MoneyFirst, OneFulfiller, Owned
  <2>4. Booked'
    BY <1>0, <1>24 DEF AssignSubscription, MoneyFirst, Owned, Booked
  <2>5. Extended'
    BY <1>0, <1>24 DEF AssignSubscription, OneFulfiller, Owned, Extended
  <2>6. RechargingHasWorker'
    BY <1>0, <1>24 DEF AssignSubscription, Owned, RechargingHasWorker
  <2>. QED  BY <2>1, <2>2, <2>3, <2>4, <2>5, <2>6 DEF IInv
<1>25. ASSUME NEW p \in Procs, MarkCompleted(p) PROVE IInv'
  <2>1. MoneyFirst'
    BY <1>0, <1>25 DEF MarkCompleted, MoneyFirst, NoGrantWithoutPayment, Owned
  <2>2. PaidNeverVoided'
    BY <1>0, <1>25 DEF MarkCompleted, MoneyFirst, PaidNeverVoided
  <2>3. OneFulfiller' /\ Owned'
    BY <1>0, <1>25 DEF MarkCompleted, MoneyFirst, OneFulfiller, Owned
  <2>4. Booked'
    BY <1>0, <1>25 DEF MarkCompleted, MoneyFirst, Owned, Booked
  <2>5. Extended'
    BY <1>0, <1>25 DEF MarkCompleted, OneFulfiller, Owned, Extended
  <2>6. RechargingHasWorker'
    BY <1>0, <1>25 DEF MarkCompleted, Owned, RechargingHasWorker
  <2>. QED  BY <2>1, <2>2, <2>3, <2>4, <2>5, <2>6 DEF IInv
<1>26. ASSUME NEW p \in Procs, MarkFailed(p) PROVE IInv'
  <2>1. MoneyFirst'
    BY <1>0, <1>26 DEF MarkFailed, MoneyFirst, NoGrantWithoutPayment, Owned
  <2>2. PaidNeverVoided'
    BY <1>0, <1>26 DEF MarkFailed, MoneyFirst, PaidNeverVoided
  <2>3. OneFulfiller' /\ Owned'
    BY <1>0, <1>26 DEF MarkFailed, MoneyFirst, OneFulfiller, Owned
  <2>4. Booked'
    BY <1>0, <1>26 DEF MarkFailed, MoneyFirst, Owned, Booked
  <2>5. Extended'
    BY <1>0, <1>26 DEF MarkFailed, OneFulfiller, Owned, Extended
  <2>6. RechargingHasWorker'
    BY <1>0, <1>26 DEF MarkFailed, Owned, RechargingHasWorker
  <2>. QED  BY <2>1, <2>2, <2>3, <2>4, <2>5, <2>6 DEF IInv
<1>27. ASSUME NEW p \in Procs, Crash(p) PROVE IInv'
  <2>1. MoneyFirst'
    BY <1>0, <1>27 DEF Crash, MoneyFirst, NoGrantWithoutPayment, Owned
  <2>2. PaidNeverVoided'
    BY <1>0, <1>27 DEF Crash, MoneyFirst, PaidNeverVoided
  <2>3. OneFulfiller' /\ Owned'
    BY <1>0, <1>27 DEF Crash, MoneyFirst, OneFulfiller, Owned
  <2>4. Booked'
    BY <1>0, <1>27 DEF Crash, MoneyFirst, Owned, Booked
  <2>5. Extended'
    BY <1>0, <1>27 DEF Crash, OneFulfiller, Owned, Extended
  <2>6. RechargingHasWorker'
    BY <1>0, <1>27 DEF Crash, Owned, RechargingHasWorker
  <2>. QED  BY <2>1, <2>2, <2>3, <2>4, <2>5, <2>6 DEF IInv
<1>28. CASE UNCHANGED vars
  <2>1. MoneyFirst'
    BY <1>0, <1>28 DEF vars, MoneyFirst, NoGrantWithoutPayment, Owned
  <2>2. PaidNeverVoided'
    BY <1>0, <1>28 DEF vars, MoneyFirst, PaidNeverVoided
  <2>3. OneFulfiller' /\ Owned'
    BY <1>0, <1>28 DEF vars, MoneyFirst, OneFulfiller, Owned
  <2>4. Booked'
    BY <1>0, <1>28 DEF vars, MoneyFirst, Owned, Booked
  <2>5. Extended'
    BY <1>0, <1>28 DEF vars, OneFulfiller, Owned, Extended
  <2>6. RechargingHasWorker'
    BY <1>0, <1>28 DEF vars, Owned, RechargingHasWorker
  <2>. QED  BY <2>1, <2>2, <2>3, <2>4, <2>5, <2>6 DEF IInv
<1>. QED
  BY <1>1, <1>2, <1>3, <1>4, <1>5, <1>6, <1>7, <1>8, <1>9, <1>10, <1>11, <1>12, <1>13, <1>14, <1>15, <1>16, <1>17, <1>18, <1>19, <1>20, <1>21, <1>22, <1>23, <1>24, <1>25, <1>26, <1>27, <1>28 DEF Next, Environment, StartHandler, Continue

\* IInv holds in every reachable state.
LEMMA InvariantHolds == Spec => []IInv
<1>1. Init => IInv
  <2>. SUFFICES ASSUME Init PROVE IInv
    OBVIOUS
  <2>1. TypeOK
    BY InitTyped
  <2>2. /\ MoneyFirst /\ PaidNeverVoided /\ OneFulfiller /\ Owned /\ Booked
        /\ Extended /\ RechargingHasWorker
    BY DEF Init, Extended, RechargingHasWorker, NoGrantWithoutPayment, MoneyFirst, PaidNeverVoided, OneFulfiller, Owned, Booked, Confirmed, Creating, Fulfilling, Void
  <2>. QED  BY <2>1, <2>2 DEF IInv
<1>2. IInv /\ TypeOK' /\ [Next]_vars => IInv'
  BY Inductive
<1>. QED  BY <1>1, <1>2, TypeCorrect, PTL DEF Spec

\* A balance order is credited at most once, whatever webhooks, retries, crashes and
\* database errors occur (doBalance, resolveRedeemAction, Redeem).
THEOREM CreditedAtMostOnce == Spec => []GrantedOnce
<1>1. IInv => GrantedOnce
  BY DEF IInv, Booked, GrantedOnce
<1>. QED  BY <1>1, InvariantHolds, PTL

\* Nothing is credited without the full payment at the provider (confirmPayment,
\* RetryFulfillment).
THEOREM CreditNeedsPayment == Spec => []NoGrantWithoutPayment
<1>1. IInv => NoGrantWithoutPayment
  BY DEF IInv, MoneyFirst
<1>. QED  BY <1>1, InvariantHolds, PTL

\* A COMPLETED balance order was credited once and its inviter rewarded once
\* (markCompleted comes after both).
THEOREM CompletedOrdersAreDelivered == Spec => []CompletedIsDelivered
<1>1. IInv => CompletedIsDelivered
  BY DEF IInv, Booked, CompletedIsDelivered
<1>. QED  BY <1>1, InvariantHolds, PTL

\* A confirmed payment is never undone by cancelCore.
THEOREM NoPaidOrderIsVoided == Spec => []PaidNeverVoided
<1>1. IInv => PaidNeverVoided
  BY DEF IInv
<1>. QED  BY <1>1, InvariantHolds, PTL

\* The compare-and-set of ExecuteBalanceFulfillment admits one handler at a time.
THEOREM FulfilmentIsExclusive == Spec => []OneFulfiller
<1>1. IInv => OneFulfiller
  BY DEF IInv
<1>. QED  BY <1>1, InvariantHolds, PTL

\* A subscription is extended at most once while the database does as it says: a crash
\* leaves the order in RECHARGING, which nobody enters again (doSub, RetryFulfillment).
THEOREM ExtendedAtMostOnce == Spec => []SubscriptionExtendedOnce
<1>1. IInv => SubscriptionExtendedOnce
  BY DEF IInv, Extended, SubscriptionExtendedOnce
<1>. QED  BY <1>1, InvariantHolds, PTL

\* Without faults no order is left in RECHARGING by the handler that fulfils it.
THEOREM RechargingIsWorkedOn == Spec => []RechargingHasWorker
<1>1. IInv => RechargingHasWorker
  BY DEF IInv
<1>. QED  BY <1>1, InvariantHolds, PTL

\* Every step of a balance order is a step of the ledger or leaves it unchanged.
LEMMA StepSimulation ==
  ASSUME IInv, [Next]_vars
  PROVE  [Ledger!Next]_(Ledger!ledger)
<1>. USE DEF Ledger!ledger, Ledger!Next, OnLedger, setup, row, goods, proc, UpdateStatus, Goto, Start, Return
<1>0. TypeOK /\ RowOK /\ GoodsOK /\ ControlOK /\ MoneyFirst /\ Owned /\ Booked
  BY DEF IInv, TypeOK
<1>1. CASE UserPays
  BY <1>0, <1>1 DEF UserPays, Ledger!Pay
<1>2. CASE GraceElapses
  BY <1>0, <1>2 DEF GraceElapses
<1>3. CASE DeadlinePasses
  BY <1>0, <1>3 DEF DeadlinePasses
<1>4. ASSUME NEW p \in Procs, CreateOrder(p) PROVE [Ledger!Next]_(Ledger!ledger)
  BY <1>0, <1>4 DEF CreateOrder
<1>5. ASSUME NEW p \in Procs, InvokeProvider(p) PROVE [Ledger!Next]_(Ledger!ledger)
  BY <1>0, <1>5 DEF InvokeProvider, MoneyFirst, Creating
<1>6. ASSUME NEW p \in Procs, CreateFailed(p) PROVE [Ledger!Next]_(Ledger!ledger)
  BY <1>0, <1>6 DEF CreateFailed, MoneyFirst, Creating
<1>7. ASSUME NEW p \in Procs, Webhook(p) PROVE [Ledger!Next]_(Ledger!ledger)
  BY <1>0, <1>7 DEF Webhook
<1>8. ASSUME NEW p \in Procs, CancelOrder(p) PROVE [Ledger!Next]_(Ledger!ledger)
  BY <1>0, <1>8 DEF CancelOrder
<1>9. ASSUME NEW p \in Procs, ExpireOrder(p) PROVE [Ledger!Next]_(Ledger!ledger)
  BY <1>0, <1>9 DEF ExpireOrder
<1>10. ASSUME NEW p \in Procs, VerifyOrder(p) PROVE [Ledger!Next]_(Ledger!ledger)
  BY <1>0, <1>10 DEF VerifyOrder
<1>11. ASSUME NEW p \in Procs, QueryUpstream(p) PROVE [Ledger!Next]_(Ledger!ledger)
  BY <1>0, <1>11 DEF QueryUpstream
<1>12. ASSUME NEW p \in Procs, SettleUnpaid(p) PROVE [Ledger!Next]_(Ledger!ledger)
  BY <1>0, <1>12 DEF SettleUnpaid
<1>13. ASSUME NEW p \in Procs, ConfirmPayment(p) PROVE [Ledger!Next]_(Ledger!ledger)
  BY <1>0, <1>13 DEF ConfirmPayment
<1>14. ASSUME NEW p \in Procs, ToPaid(p) PROVE [Ledger!Next]_(Ledger!ledger)
  BY <1>0, <1>14 DEF ToPaid, Payable
<1>15. ASSUME NEW p \in Procs, AlreadyProcessed(p) PROVE [Ledger!Next]_(Ledger!ledger)
  BY <1>0, <1>15 DEF AlreadyProcessed
<1>16. ASSUME NEW p \in Procs, RetryFulfillment(p) PROVE [Ledger!Next]_(Ledger!ledger)
  BY <1>0, <1>16 DEF RetryFulfillment
<1>17. ASSUME NEW p \in Procs, ResetForRetry(p) PROVE [Ledger!Next]_(Ledger!ledger)
  BY <1>0, <1>17 DEF ResetForRetry
<1>18. ASSUME NEW p \in Procs, ExecuteFulfillment(p) PROVE [Ledger!Next]_(Ledger!ledger)
  BY <1>0, <1>18 DEF ExecuteFulfillment
<1>19. ASSUME NEW p \in Procs, LockOrder(p) PROVE [Ledger!Next]_(Ledger!ledger)
  BY <1>0, <1>19 DEF LockOrder
<1>20. ASSUME NEW p \in Procs, LookupGrant(p) PROVE [Ledger!Next]_(Ledger!ledger)
  BY <1>0, <1>20 DEF LookupGrant
<1>21. ASSUME NEW p \in Procs, CreateCode(p) PROVE [Ledger!Next]_(Ledger!ledger)
  BY <1>0, <1>21 DEF CreateCode
<1>22. ASSUME NEW p \in Procs, Redeem(p) PROVE [Ledger!Next]_(Ledger!ledger)
  BY <1>0, <1>22 DEF Redeem, Ledger!Deliver, Booked, MoneyFirst, Confirmed, Fulfilling
<1>23. ASSUME NEW p \in Procs, ApplyRebate(p) PROVE [Ledger!Next]_(Ledger!ledger)
  BY <1>0, <1>23 DEF ApplyRebate, Ledger!Reward, Booked
<1>24. ASSUME NEW p \in Procs, AssignSubscription(p) PROVE [Ledger!Next]_(Ledger!ledger)
  BY <1>0, <1>24 DEF AssignSubscription, Booked
<1>25. ASSUME NEW p \in Procs, MarkCompleted(p) PROVE [Ledger!Next]_(Ledger!ledger)
  BY <1>0, <1>25 DEF MarkCompleted, Ledger!Close, Booked, Owned, Fulfilling
<1>26. ASSUME NEW p \in Procs, MarkFailed(p) PROVE [Ledger!Next]_(Ledger!ledger)
  BY <1>0, <1>26 DEF MarkFailed
<1>27. ASSUME NEW p \in Procs, Crash(p) PROVE [Ledger!Next]_(Ledger!ledger)
  BY <1>0, <1>27 DEF Crash
<1>28. CASE UNCHANGED vars
  BY <1>28 DEF vars
<1>. QED
  BY <1>1, <1>2, <1>3, <1>4, <1>5, <1>6, <1>7, <1>8, <1>9, <1>10, <1>11, <1>12, <1>13, <1>14, <1>15, <1>16, <1>17, <1>18, <1>19, <1>20, <1>21, <1>22, <1>23, <1>24, <1>25, <1>26, <1>27, <1>28 DEF Next, Environment, StartHandler, Continue

\* A balance order implements PaymentLedger: its observable effects are paying, then
\* crediting, then rewarding, then closing, each once.
THEOREM OrderImplementsLedger == Spec => ImplementsLedger
<1>1. Init => Ledger!Init
  BY DEF Init, Ledger!Init, OnLedger
<1>2. IInv /\ [Next]_vars => [Ledger!Next]_(Ledger!ledger)
  BY StepSimulation
<1>. QED  BY <1>1, <1>2, InvariantHolds, PTL DEF Spec, ImplementsLedger, Ledger!Spec
=============================================================================
