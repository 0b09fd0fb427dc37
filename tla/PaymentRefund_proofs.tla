------------------------ MODULE PaymentRefund_proofs ------------------------
(***************************************************************************)
(* Proofs about PaymentRefund for every amount and every number of         *)
(* concurrent requests: type correctness and exclusion under all faults,   *)
(* and what the gateway paid back when its errors are honest.              *)
(***************************************************************************)
EXTENDS PaymentRefund, TLAPS

\* What the control state knows of the amounts: a plan under execution is positive, and
\* markRefundOk runs with exactly that amount paid back.
Planned ==
  /\ \A p \in Procs : pc[p] \in Executing => plan[p].amount > 0
  /\ \A p \in Procs : pc[p] \in {"prepare", "execute"} => plan[p].amount > 0
  /\ \A p \in Procs : pc[p] = "refundOk" /\ "reply" \notin faults => refunded = plan[p].amount

\* NotRefundedYet is inductive only together with the exclusion of other refunds and the
\* plan that refers to the payment under way.
IInv == TypeOK /\ OneRefunder /\ Planned /\ NotRefundedYet /\ RefundOnRecord

\* The lesser of two integers is one.
LEMMA LesserIsInt == ASSUME NEW a \in Int, NEW b \in Int PROVE Lesser(a, b) \in Int
  BY DEF Lesser

\* The initial state is well typed.
LEMMA InitTyped == Init => TypeOK
<1>. SUFFICES ASSUME Init PROVE TypeOK
  OBVIOUS
<1>1. pc \in [Procs -> Steps]
  BY DEF Init, Steps
<1>2. NoPlan \in [saw : Statuses, amount : Nat, deduct : Int]
  BY DEF NoPlan, Statuses, Refundable
<1>3. plan \in [Procs -> [saw : Statuses, amount : Nat, deduct : Int]]
  BY <1>2 DEF Init
<1>4. status \in Statuses /\ rollbackLog \in BOOLEAN
  BY DEF Init, Statuses, Refundable
<1>. QED  BY PaymentRefundAssumption, <1>1, <1>3, <1>4 DEF Init, TypeOK

\* Every step of a refund keeps it well typed.
LEMMA TypedStep ==
  ASSUME TypeOK, [Next]_vars
  PROVE  TypeOK'
<1>. USE PaymentRefundAssumption DEF Statuses, Refundable, Steps, Executing, Goto, Return, Update, row, money,
         WriteOutcomes, NoPlan
<1>1. CASE Spend
  BY <1>1 DEF Spend, TypeOK
<1>2. ASSUME NEW p \in Procs, RequestRefund(p) PROVE TypeOK'
  BY <1>2 DEF RequestRefund, TypeOK
<1>3. ASSUME NEW p \in Procs, PrepareRefund(p) PROVE TypeOK'
  BY <1>3 DEF PrepareRefund, TypeOK
<1>4. ASSUME NEW p \in Procs, MarkRequested(p) PROVE TypeOK'
  BY <1>4 DEF MarkRequested, TypeOK
<1>5. ASSUME NEW p \in Procs, PrepDeduct(p) PROVE TypeOK'
  BY <1>5, LesserIsInt DEF PrepDeduct, TypeOK
<1>6. ASSUME NEW p \in Procs, ExecuteRefund(p) PROVE TypeOK'
  BY <1>6 DEF ExecuteRefund, TypeOK
<1>7. ASSUME NEW p \in Procs, Deduct(p) PROVE TypeOK'
  BY <1>7 DEF Deduct, TypeOK
<1>8. ASSUME NEW p \in Procs, GatewayRefund(p) PROVE TypeOK'
  BY <1>8 DEF GatewayRefund, TypeOK
<1>9. ASSUME NEW p \in Procs, RollbackRefund(p) PROVE TypeOK'
  <2>1. rollbackLog' \in BOOLEAN
    BY <1>9 DEF RollbackRefund, TypeOK
  <2>2. plan' = plan /\ pc' \in [Procs -> Steps]
    BY <1>9 DEF RollbackRefund, TypeOK
  <2>3. balance' \in Int /\ taken' \in Int
    BY <1>9 DEF RollbackRefund, TypeOK
  <2>. QED  BY <1>9, <2>1, <2>2, <2>3 DEF RollbackRefund, TypeOK
<1>10. ASSUME NEW p \in Procs, RestoreStatus(p) PROVE TypeOK'
  BY <1>10 DEF RestoreStatus, TypeOK
<1>11. ASSUME NEW p \in Procs, RefundFailed(p) PROVE TypeOK'
  BY <1>11 DEF RefundFailed, TypeOK
<1>12. ASSUME NEW p \in Procs, MarkRefundOk(p) PROVE TypeOK'
  BY <1>12 DEF MarkRefundOk, TypeOK
<1>13. CASE UNCHANGED vars
  BY <1>13 DEF vars, TypeOK
<1>. QED
  BY <1>1, <1>2, <1>3, <1>4, <1>5, <1>6, <1>7, <1>8, <1>9, <1>10, <1>11, <1>12, <1>13 DEF Next, Continue

\* Every variable of a refund keeps its type, for every order amount and all faults.
THEOREM TypeCorrect == Spec => []TypeOK
<1>. QED  BY InitTyped, TypedStep, PTL DEF Spec

\* Every step keeps refunds exclusive.
LEMMA ExclusiveStep ==
  ASSUME TypeOK, OneRefunder, [Next]_vars
  PROVE  OneRefunder'
<1>. USE PaymentRefundAssumption DEF Statuses, Refundable, Steps, Executing, Goto, Return, Update, row, money,
         WriteOutcomes, NoPlan, TypeOK
<1>1. CASE Spend
  BY <1>1 DEF Spend, OneRefunder
<1>2. ASSUME NEW p \in Procs, RequestRefund(p) PROVE OneRefunder'
  BY <1>2 DEF RequestRefund, OneRefunder
<1>3. ASSUME NEW p \in Procs, PrepareRefund(p) PROVE OneRefunder'
  BY <1>3 DEF PrepareRefund, OneRefunder
<1>4. ASSUME NEW p \in Procs, MarkRequested(p) PROVE OneRefunder'
  BY <1>4 DEF MarkRequested, OneRefunder
<1>5. ASSUME NEW p \in Procs, PrepDeduct(p) PROVE OneRefunder'
  BY <1>5 DEF PrepDeduct, OneRefunder
<1>6. ASSUME NEW p \in Procs, ExecuteRefund(p) PROVE OneRefunder'
  BY <1>6 DEF ExecuteRefund, OneRefunder
<1>7. ASSUME NEW p \in Procs, Deduct(p) PROVE OneRefunder'
  BY <1>7 DEF Deduct, OneRefunder
<1>8. ASSUME NEW p \in Procs, GatewayRefund(p) PROVE OneRefunder'
  BY <1>8 DEF GatewayRefund, OneRefunder
<1>9. ASSUME NEW p \in Procs, RollbackRefund(p) PROVE OneRefunder'
  BY <1>9 DEF RollbackRefund, OneRefunder
<1>10. ASSUME NEW p \in Procs, RestoreStatus(p) PROVE OneRefunder'
  BY <1>10 DEF RestoreStatus, OneRefunder
<1>11. ASSUME NEW p \in Procs, RefundFailed(p) PROVE OneRefunder'
  BY <1>11 DEF RefundFailed, OneRefunder
<1>12. ASSUME NEW p \in Procs, MarkRefundOk(p) PROVE OneRefunder'
  BY <1>12 DEF MarkRefundOk, OneRefunder
<1>13. CASE UNCHANGED vars
  BY <1>13 DEF vars, OneRefunder
<1>. QED
  BY <1>1, <1>2, <1>3, <1>4, <1>5, <1>6, <1>7, <1>8, <1>9, <1>10, <1>11, <1>12, <1>13 DEF Next, Continue

\* The compare-and-set of ExecuteRefund admits one refund at a time, and the order stays
\* REFUNDING until it has ended, also when database calls fail or lie about their outcome.
THEOREM RefundsAreExclusive == Spec => []OneRefunder
<1>1. Init => OneRefunder
  BY DEF Init, OneRefunder, Executing
<1>2. TypeOK /\ OneRefunder /\ [Next]_vars => OneRefunder'
  BY ExclusiveStep
<1>. QED  BY <1>1, <1>2, TypeCorrect, PTL DEF Spec

\* Every step preserves IInv.
LEMMA Inductive ==
  ASSUME IInv, TypeOK', [Next]_vars
  PROVE  IInv'
<1>. USE PaymentRefundAssumption DEF Statuses, Refundable, Steps, Executing, Goto, Return, Update, row, money,
         WriteOutcomes, NoPlan, TypeOK
<1>0. TypeOK /\ OneRefunder /\ Planned /\ NotRefundedYet /\ RefundOnRecord
  BY DEF IInv
<1>excl. OneRefunder'
  BY ExclusiveStep, <1>0
<1>1. CASE Spend
  <2>1. Planned'
    BY <1>0, <1>1 DEF Spend, OneRefunder, Planned, NotRefundedYet
  <2>2. NotRefundedYet' /\ RefundOnRecord'
    BY <1>0, <1>1 DEF Spend, OneRefunder, Planned, NotRefundedYet, RefundOnRecord
  <2>. QED  BY <1>excl, <2>1, <2>2 DEF IInv
<1>2. ASSUME NEW p \in Procs, RequestRefund(p) PROVE IInv'
  <2>1. Planned'
    BY <1>0, <1>2 DEF RequestRefund, OneRefunder, Planned, NotRefundedYet
  <2>2. NotRefundedYet' /\ RefundOnRecord'
    BY <1>0, <1>2 DEF RequestRefund, OneRefunder, Planned, NotRefundedYet, RefundOnRecord
  <2>. QED  BY <1>excl, <2>1, <2>2 DEF IInv
<1>3. ASSUME NEW p \in Procs, PrepareRefund(p) PROVE IInv'
  <2>1. Planned'
    BY <1>0, <1>3 DEF PrepareRefund, OneRefunder, Planned, NotRefundedYet
  <2>2. NotRefundedYet' /\ RefundOnRecord'
    BY <1>0, <1>3 DEF PrepareRefund, OneRefunder, Planned, NotRefundedYet, RefundOnRecord
  <2>. QED  BY <1>excl, <2>1, <2>2 DEF IInv
<1>4. ASSUME NEW p \in Procs, MarkRequested(p) PROVE IInv'
  <2>1. Planned'
    BY <1>0, <1>4 DEF MarkRequested, OneRefunder, Planned, NotRefundedYet
  <2>2. NotRefundedYet' /\ RefundOnRecord'
    BY <1>0, <1>4 DEF MarkRequested, OneRefunder, Planned, NotRefundedYet, RefundOnRecord
  <2>. QED  BY <1>excl, <2>1, <2>2 DEF IInv
<1>5. ASSUME NEW p \in Procs, PrepDeduct(p) PROVE IInv'
  <2>1. Planned'
    BY <1>0, <1>5 DEF PrepDeduct, OneRefunder, Planned, NotRefundedYet
  <2>2. NotRefundedYet' /\ RefundOnRecord'
    BY <1>0, <1>5 DEF PrepDeduct, OneRefunder, Planned, NotRefundedYet, RefundOnRecord
  <2>. QED  BY <1>excl, <2>1, <2>2 DEF IInv
<1>6. ASSUME NEW p \in Procs, ExecuteRefund(p) PROVE IInv'
  <2>1. Planned'
    <3>1. UNCHANGED refunded
      BY <1>6 DEF ExecuteRefund
    <3>2. CASE Goto(p, IF plan[p].deduct > 0 THEN "deduct" ELSE "gateway")
      BY <1>0, <1>6, <3>1, <3>2 DEF ExecuteRefund, Planned
    <3>3. CASE Return(p)
      BY <1>0, <3>1, <3>3 DEF Planned
    <3>. QED  BY <1>6, <3>2, <3>3 DEF ExecuteRefund
  <2>2. NotRefundedYet' /\ RefundOnRecord'
    BY <1>0, <1>6 DEF ExecuteRefund, OneRefunder, Planned, NotRefundedYet, RefundOnRecord
  <2>. QED  BY <1>excl, <2>1, <2>2 DEF IInv
<1>7. ASSUME NEW p \in Procs, Deduct(p) PROVE IInv'
  <2>1. Planned'
    BY <1>0, <1>7 DEF Deduct, OneRefunder, Planned, NotRefundedYet
  <2>2. NotRefundedYet' /\ RefundOnRecord'
    BY <1>0, <1>7 DEF Deduct, OneRefunder, Planned, NotRefundedYet, RefundOnRecord
  <2>. QED  BY <1>excl, <2>1, <2>2 DEF IInv
<1>8. ASSUME NEW p \in Procs, GatewayRefund(p) PROVE IInv'
  <2>1. Planned'
    BY <1>0, <1>8 DEF GatewayRefund, OneRefunder, Planned, NotRefundedYet
  <2>2. NotRefundedYet' /\ RefundOnRecord'
    BY <1>0, <1>8 DEF GatewayRefund, OneRefunder, Planned, NotRefundedYet, RefundOnRecord
  <2>. QED  BY <1>excl, <2>1, <2>2 DEF IInv
<1>9. ASSUME NEW p \in Procs, RollbackRefund(p) PROVE IInv'
  <2>1. Planned'
    BY <1>0, <1>9 DEF RollbackRefund, OneRefunder, Planned, NotRefundedYet
  <2>2. NotRefundedYet' /\ RefundOnRecord'
    BY <1>0, <1>9 DEF RollbackRefund, OneRefunder, Planned, NotRefundedYet, RefundOnRecord
  <2>. QED  BY <1>excl, <2>1, <2>2 DEF IInv
<1>10. ASSUME NEW p \in Procs, RestoreStatus(p) PROVE IInv'
  <2>1. Planned'
    BY <1>0, <1>10 DEF RestoreStatus, OneRefunder, Planned, NotRefundedYet
  <2>2. NotRefundedYet' /\ RefundOnRecord'
    BY <1>0, <1>10 DEF RestoreStatus, OneRefunder, Planned, NotRefundedYet, RefundOnRecord
  <2>. QED  BY <1>excl, <2>1, <2>2 DEF IInv
<1>11. ASSUME NEW p \in Procs, RefundFailed(p) PROVE IInv'
  <2>1. Planned'
    BY <1>0, <1>11 DEF RefundFailed, OneRefunder, Planned, NotRefundedYet
  <2>2. NotRefundedYet' /\ RefundOnRecord'
    BY <1>0, <1>11 DEF RefundFailed, OneRefunder, Planned, NotRefundedYet, RefundOnRecord
  <2>. QED  BY <1>excl, <2>1, <2>2 DEF IInv
<1>12. ASSUME NEW p \in Procs, MarkRefundOk(p) PROVE IInv'
  <2>1. Planned'
    BY <1>0, <1>12 DEF MarkRefundOk, OneRefunder, Planned, NotRefundedYet
  <2>2. NotRefundedYet' /\ RefundOnRecord'
    BY <1>0, <1>12 DEF MarkRefundOk, OneRefunder, Planned, NotRefundedYet, RefundOnRecord
  <2>. QED  BY <1>excl, <2>1, <2>2 DEF IInv
<1>13. CASE UNCHANGED vars
  <2>1. Planned'
    BY <1>0, <1>13 DEF vars, OneRefunder, Planned, NotRefundedYet
  <2>2. NotRefundedYet' /\ RefundOnRecord'
    BY <1>0, <1>13 DEF vars, OneRefunder, Planned, NotRefundedYet, RefundOnRecord
  <2>. QED  BY <1>excl, <2>1, <2>2 DEF IInv
<1>. QED
  BY <1>1, <1>2, <1>3, <1>4, <1>5, <1>6, <1>7, <1>8, <1>9, <1>10, <1>11, <1>12, <1>13 DEF Next, Continue

\* IInv holds in every reachable state.
LEMMA InvariantHolds == Spec => []IInv
<1>1. Init => IInv
  BY InitTyped DEF Init, IInv, OneRefunder, Planned, NotRefundedYet, RefundOnRecord, Executing, Refundable
<1>2. IInv /\ TypeOK' /\ [Next]_vars => IInv'
  BY Inductive
<1>. QED  BY <1>1, <1>2, TypeCorrect, PTL DEF Spec

\* With a gateway that reports every refund it made, an order that can still be refunded has not been paid back
\* (gwRefund is reached once per payment), whatever the database does.
THEOREM PaidBackAtMostOnce == Spec => []NotRefundedYet
<1>1. IInv => NotRefundedYet
  BY DEF IInv
<1>. QED  BY <1>1, InvariantHolds, PTL

\* With such a gateway a refunded order was paid back the amount markRefundOk recorded.
THEOREM RefundsAreOnRecord == Spec => []RefundOnRecord
<1>1. IInv => RefundOnRecord
  BY DEF IInv
<1>. QED  BY <1>1, InvariantHolds, PTL

\* What the refund under execution has taken for itself: its deduction, if it made one.
Given(p) == IF plan[p].deduct > 0 THEN plan[p].deduct ELSE 0

\* Where the deduction stands at each step of an execution.
Accounts ==
  DbFaults = {} =>
    /\ BooksBalance
    /\ \A p \in Procs : pc[p] \in Executing \cup {"prepare", "execute"} => plan[p].deduct <= plan[p].amount
    /\ \A p \in Procs : pc[p] \in {"deduct", "restore", "refundOk"} =>
          0 <= taken /\ taken <= refunded
    /\ \A p \in Procs : pc[p] = "deduct" => plan[p].deduct > 0
    /\ \A p \in Procs : pc[p] \in {"gateway", "rollback"} =>
          0 <= taken - Given(p) /\ taken - Given(p) <= refunded
    /\ \A p \in Procs : pc[p] \notin {"restored", "refundFailed"}

\* Without database errors every step keeps the accounts.
LEMMA AccountsStep ==
  ASSUME TypeOK, TypeOK', OneRefunder, OneRefunder', Accounts, [Next]_vars
  PROVE  Accounts'
<1>. USE PaymentRefundAssumption DEF Statuses, Refundable, Steps, Executing, Goto, Return, row, money,
         WriteOutcomes, NoPlan, TypeOK, Given, Lesser, BooksBalance
<1>f. faults' = faults
  BY DEF Next, Continue, Spend, RequestRefund, PrepareRefund, MarkRequested, PrepDeduct, ExecuteRefund,
         Deduct, GatewayRefund, RollbackRefund, RestoreStatus, RefundFailed, MarkRefundOk, vars
<1>. SUFFICES ASSUME DbFaults = {} PROVE Accounts'
  BY <1>f DEF Accounts, DbFaults
<1>d. DbFaults' = {} /\ WriteOutcomes = {"ok"} /\ ~ReadsMayFail
  BY <1>f DEF DbFaults, ReadsMayFail
<1>. HIDE DEF WriteOutcomes
<1>1. CASE Spend
  BY <1>1, <1>d DEF Spend, OneRefunder, Accounts
<1>2. ASSUME NEW p \in Procs, RequestRefund(p) PROVE Accounts'
  BY <1>2, <1>d DEF RequestRefund, OneRefunder, Accounts
<1>3. ASSUME NEW p \in Procs, PrepareRefund(p) PROVE Accounts'
  BY <1>3, <1>d DEF PrepareRefund, OneRefunder, Accounts
<1>4. ASSUME NEW p \in Procs, MarkRequested(p) PROVE Accounts'
  BY <1>4, <1>d DEF MarkRequested, OneRefunder, Accounts
<1>5. ASSUME NEW p \in Procs, PrepDeduct(p) PROVE Accounts'
  BY <1>5, <1>d DEF PrepDeduct, OneRefunder, Accounts
<1>6. ASSUME NEW p \in Procs, ExecuteRefund(p) PROVE Accounts'
  BY <1>6, <1>d DEF ExecuteRefund, OneRefunder, Accounts
<1>7. ASSUME NEW p \in Procs, Deduct(p) PROVE Accounts'
  BY <1>7, <1>d DEF Deduct, OneRefunder, Accounts
<1>8. ASSUME NEW p \in Procs, GatewayRefund(p) PROVE Accounts'
  BY <1>8, <1>d DEF GatewayRefund, OneRefunder, Accounts
<1>9. ASSUME NEW p \in Procs, RollbackRefund(p) PROVE Accounts'
  <2>1. CASE plan[p].deduct > 0
    <3>1. /\ balance' = balance + plan[p].deduct
          /\ taken' = taken - plan[p].deduct
          /\ Goto(p, "restore")
          /\ UNCHANGED <<status, refundAmount, refunded>>
      BY <1>9, <1>d, <2>1 DEF RollbackRefund
    <3>. QED  BY <1>9, <1>d, <2>1, <3>1 DEF RollbackRefund, OneRefunder, Accounts
  <2>2. CASE ~(plan[p].deduct > 0)
    <3>1. /\ pc[p] = "rollback" /\ Goto(p, "restore")
          /\ UNCHANGED <<balance, taken, refunded>>
      BY <1>9, <2>2 DEF RollbackRefund
    <3>. QED  BY <1>d, <2>2, <3>1 DEF OneRefunder, Accounts
  <2>. QED  BY <2>1, <2>2
<1>10. ASSUME NEW p \in Procs, RestoreStatus(p) PROVE Accounts'
  BY <1>10, <1>d DEF RestoreStatus, OneRefunder, Accounts
<1>11. ASSUME NEW p \in Procs, RefundFailed(p) PROVE Accounts'
  BY <1>11, <1>d DEF RefundFailed, OneRefunder, Accounts
<1>12. ASSUME NEW p \in Procs, MarkRefundOk(p) PROVE Accounts'
  BY <1>12, <1>d DEF MarkRefundOk, OneRefunder, Accounts
<1>13. CASE UNCHANGED vars
  BY <1>13, <1>d DEF vars, OneRefunder, Accounts
<1>. QED
  BY <1>1, <1>2, <1>3, <1>4, <1>5, <1>6, <1>7, <1>8, <1>9, <1>10, <1>11, <1>12, <1>13 DEF Next, Continue

\* Unless database calls fail, and whatever the gateway answers: between refunds nothing
\* is deducted that was not paid back (ExecuteRefund, RollbackRefund).
THEOREM BooksAreBalanced == Spec => []BooksBalance
<1>1. Init => OneRefunder /\ Accounts
  BY PaymentRefundAssumption DEF Init, OneRefunder, Accounts, BooksBalance, Executing
<1>2. (TypeOK /\ TypeOK' /\ OneRefunder /\ OneRefunder' /\ Accounts) /\ [Next]_vars => Accounts'
  BY AccountsStep
<1>3. Accounts => BooksBalance
  BY DEF Accounts, BooksBalance
<1>. QED  BY <1>1, <1>2, <1>3, TypeCorrect, RefundsAreExclusive, PTL DEF Spec
=============================================================================
