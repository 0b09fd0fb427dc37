--------------------------- MODULE PaymentRefund ---------------------------
(***************************************************************************)
(* Refunding one COMPLETED balance order: the user's request, the          *)
(* administrator's PrepareRefund/ExecuteRefund with its balance deduction, *)
(* gateway call and rollback, run by concurrent processes while the user   *)
(* goes on spending.                                                       *)
(***************************************************************************)
EXTENDS Integers

CONSTANTS
  Procs,          \* concurrent HTTP requests of the user and of administrators
  Amount,         \* what the order credited, and the most that can be refunded
  FaultSets,      \* the fault assumptions to consider, each a set of Faults
  MaxTaken,       \* bound: no new refund once this much was deducted
  Overdraft       \* bound: the user stops spending this far below zero

\* A failing database write is "lost", or "ambiguous" (it took effect); "reply": the
\* gateway may refund although its answer is an error.
Faults == {"lost", "ambiguous", "reply"}

ASSUME PaymentRefundAssumption ==
  /\ Amount \in Nat \ {0}
  /\ FaultSets \subseteq SUBSET Faults
  /\ MaxTaken \in Nat
  /\ Overdraft \in Nat

VARIABLES
  status,      \* payment_orders.status
  balance,     \* users.balance
  taken,       \* deducted from the balance for this order and not given back
  refunded,    \* what the gateway has paid back
  refundAmount,\* payment_orders.refund_amount as markRefundOk stores it
  rollbackLog, \* the audit trail holds REFUND_ROLLBACK_FAILED
  pc,          \* what each process does next
  plan,        \* RefundPlan: the status read, the amount, the deduction
  faults       \* the faults that may happen, chosen once

row    == <<status, refundAmount, rollbackLog>>
money  == <<balance, taken, refunded>>
vars   == <<row, money, pc, plan, faults>>

Refundable == {"COMPLETED", "REFUND_REQUESTED", "REFUND_FAILED"}
Statuses   == Refundable \cup {"REFUNDING", "PARTIALLY_REFUNDED", "REFUNDED"}

\* The steps of ExecuteRefund after it has moved the order to REFUNDING.
Executing == {"deduct", "gateway", "rollback", "restore", "restored", "refundFailed", "refundOk"}
Steps     == Executing \cup {"idle", "request", "prepare", "execute"}

NoPlan == [saw |-> "COMPLETED", amount |-> 0, deduct |-> 0]

Init ==
  /\ status = "COMPLETED" /\ refundAmount = 0 /\ rollbackLog = FALSE
  /\ balance = Amount /\ taken = 0 /\ refunded = 0
  /\ pc = [p \in Procs |-> "idle"]
  /\ plan = [p \in Procs |-> NoPlan]
  /\ faults \in FaultSets

-----------------------------------------------------------------------------
DbFaults      == faults \cap {"lost", "ambiguous"}
WriteOutcomes == {"ok"} \cup DbFaults
ReadsMayFail  == DbFaults # {}

Goto(p, step) == pc' = [pc EXCEPT ![p] = step] /\ UNCHANGED <<plan, faults>>
Return(p)     == /\ pc' = [pc EXCEPT ![p] = "idle"]
                 /\ plan' = [plan EXCEPT ![p] = NoPlan]
                 /\ UNCHANGED faults

Update(r, to) == status' = IF r = "lost" THEN status ELSE to

Lesser(a, b) == IF a < b THEN a ELSE b

\* RequestRefund: the order and then the balance as read, before the update.
RequestRefund(p) ==
  /\ pc[p] = "idle" /\ status = "COMPLETED" /\ balance >= Amount
  /\ Goto(p, "request")
  /\ UNCHANGED <<row, money>>

MarkRequested(p) ==
  /\ pc[p] = "request"
  /\ \E r \in WriteOutcomes :
       status' = IF r # "lost" /\ status = "COMPLETED" THEN "REFUND_REQUESTED" ELSE status
  /\ Return(p)
  /\ UNCHANGED <<refundAmount, rollbackLog, money>>

\* PrepareRefund: the order is read here, the balance in prepDeduct.
PrepareRefund(p) ==
  /\ pc[p] = "idle" /\ status \in Refundable /\ taken < MaxTaken
  /\ pc' = [pc EXCEPT ![p] = "prepare"]
  /\ \E amt \in 1 .. Amount :
       plan' = [plan EXCEPT ![p] = [saw |-> status, amount |-> amt, deduct |-> 0]]
  /\ UNCHANGED <<row, money, faults>>

\* The administrator chooses whether to deduct; a deduction that is not positive is skipped.
PrepDeduct(p) ==
  /\ pc[p] = "prepare"
  /\ pc' = [pc EXCEPT ![p] = "execute"]
  /\ \/ plan' = [plan EXCEPT ![p].deduct = Lesser(plan[p].amount, balance)]
     \/ UNCHANGED plan
  /\ UNCHANGED <<row, money, faults>>

\* The compare-and-set to REFUNDING.
ExecuteRefund(p) ==
  /\ pc[p] = "execute"
  /\ \E r \in WriteOutcomes :
       /\ status' = IF r # "lost" /\ status \in Refundable THEN "REFUNDING" ELSE status
       /\ IF r = "ok" /\ status \in Refundable
          THEN Goto(p, IF plan[p].deduct > 0 THEN "deduct" ELSE "gateway")
          ELSE Return(p)
  /\ UNCHANGED <<refundAmount, rollbackLog, money>>

\* hasAuditLog swallows a failed read: the rollback entry is then taken to be absent.
Deduct(p) ==
  /\ pc[p] = "deduct"
  /\ \/ /\ ~rollbackLog \/ ReadsMayFail
        /\ \E r \in WriteOutcomes :
             /\ IF r = "lost" THEN UNCHANGED <<balance, taken>>
                ELSE /\ balance' = balance - plan[p].deduct
                     /\ taken' = taken + plan[p].deduct
             /\ Goto(p, IF r = "ok" THEN "gateway" ELSE "restored")
     \/ /\ rollbackLog
        /\ pc' = [pc EXCEPT ![p] = "gateway"]
        /\ plan' = [plan EXCEPT ![p].deduct = 0]
        /\ UNCHANGED <<balance, taken, faults>>
  /\ UNCHANGED <<row, refunded>>

\* gwRefund.  The provider never pays back more than it received for the order.
GatewayRefund(p) ==
  /\ pc[p] = "gateway"
  /\ \/ /\ refunded + plan[p].amount <= Amount
        /\ refunded' = refunded + plan[p].amount
        /\ \/ Goto(p, "refundOk")
           \/ "reply" \in faults /\ Goto(p, "rollback")
     \/ Goto(p, "rollback") /\ UNCHANGED refunded
  /\ UNCHANGED <<row, balance, taken>>

\* Mutant: the step that gives the deduction back is lost.
RollbackRefund_Nothing(p) ==
  /\ pc[p] = "rollback"
  /\ Goto(p, "restore")
  /\ UNCHANGED <<row, money>>

\* RollbackRefund, the first half of handleGwFail.
RollbackRefund(p) ==
  /\ pc[p] = "rollback"
  /\ IF plan[p].deduct > 0
     THEN \E r \in WriteOutcomes :
            /\ IF r = "lost" THEN UNCHANGED <<balance, taken>>
               ELSE /\ balance' = balance + plan[p].deduct
                    /\ taken' = taken - plan[p].deduct
            /\ \/ r = "ok" /\ Goto(p, "restore") /\ UNCHANGED rollbackLog
               \/ /\ r # "ok" /\ Goto(p, "refundFailed")
                  /\ rollbackLog' = TRUE \/ UNCHANGED rollbackLog   \* best-effort audit
     ELSE Goto(p, "restore") /\ UNCHANGED <<balance, taken, rollbackLog>>
  /\ UNCHANGED <<status, refundAmount, refunded>>

\* Mutant: the status is only restored for orders whose refund the user requested.
RestoreStatus_OnlyRequested(p) ==
  /\ pc[p] \in {"restore", "restored"}
  /\ status' = IF plan[p].saw = "REFUND_REQUESTED" THEN "REFUND_REQUESTED" ELSE status
  /\ Return(p)
  /\ UNCHANGED <<refundAmount, rollbackLog, money>>

\* restoreStatus goes by the status that PrepareRefund had read.  Step "restore" follows
\* a rollback, step "restored" a deduction that reported an error.
RestoreStatus(p) ==
  /\ pc[p] \in {"restore", "restored"}
  /\ \E r \in WriteOutcomes :
       Update(r, IF plan[p].saw = "REFUND_REQUESTED" THEN "REFUND_REQUESTED" ELSE "COMPLETED")
  /\ Return(p)
  /\ UNCHANGED <<refundAmount, rollbackLog, money>>

\* The rest of handleGwFail after a failed rollback.
RefundFailed(p) ==
  /\ pc[p] = "refundFailed"
  /\ \E r \in WriteOutcomes : Update(r, "REFUND_FAILED")
  /\ Return(p)
  /\ UNCHANGED <<refundAmount, rollbackLog, money>>

\* Mutant: the amount stored is the order's, not the refund's.
MarkRefundOk_OrderAmount(p) ==
  /\ pc[p] = "refundOk"
  /\ \E r \in WriteOutcomes :
       /\ Update(r, IF plan[p].amount < Amount THEN "PARTIALLY_REFUNDED" ELSE "REFUNDED")
       /\ refundAmount' = IF r = "lost" THEN refundAmount ELSE Amount
  /\ Return(p)
  /\ UNCHANGED <<rollbackLog, money>>

MarkRefundOk(p) ==
  /\ pc[p] = "refundOk"
  /\ \E r \in WriteOutcomes :
       /\ Update(r, IF plan[p].amount < Amount THEN "PARTIALLY_REFUNDED" ELSE "REFUNDED")
       /\ refundAmount' = IF r = "lost" THEN refundAmount ELSE plan[p].amount
  /\ Return(p)
  /\ UNCHANGED <<rollbackLog, money>>

-----------------------------------------------------------------------------
\* Usage billing, meanwhile; it may overdraw the balance.
Spend ==
  /\ balance > -Overdraft
  /\ balance' = balance - 1
  /\ UNCHANGED <<row, taken, refunded, pc, plan, faults>>

Continue(p) == \/ MarkRequested(p) \/ PrepDeduct(p) \/ ExecuteRefund(p) \/ Deduct(p)
               \/ GatewayRefund(p) \/ RollbackRefund(p) \/ RestoreStatus(p)
               \/ RefundFailed(p) \/ MarkRefundOk(p)

Next == \/ Spend
        \/ \E p \in Procs : RequestRefund(p) \/ PrepareRefund(p) \/ Continue(p)

Spec     == Init /\ [][Next]_vars
\* A request that was accepted runs to its end.
FairSpec == Spec /\ \A p \in Procs : WF_vars(Continue(p))
-----------------------------------------------------------------------------
\* Every variable stays within its type.
TypeOK ==
  /\ status \in Statuses
  /\ balance \in Int /\ taken \in Int /\ refunded \in Nat /\ refundAmount \in Nat
  /\ rollbackLog \in BOOLEAN
  /\ pc \in [Procs -> Steps]
  /\ plan \in [Procs -> [saw : Statuses, amount : Nat, deduct : Int]]
  /\ faults \in FaultSets

\* However many administrators press the button, one refund is executed at a time, and
\* the order shows REFUNDING while it is.
OneRefunder ==
  /\ \A p, q \in Procs : pc[p] \in Executing /\ pc[q] \in Executing => p = q
  /\ \A p \in Procs : pc[p] \in Executing => status = "REFUNDING"

\* As long as the gateway's errors are honest it pays back once at most: while an order
\* can be (or is being, before the call) refunded, nothing has been paid back.
NotRefundedYet ==
  "reply" \notin faults =>
    \A p \in Procs :
      (status \in Refundable \/ pc[p] \in Executing \ {"refundOk"}) => refunded = 0

\* With such a gateway an order reported as refunded was paid back exactly the amount on
\* record.
RefundOnRecord ==
  ("reply" \notin faults /\ status \in {"PARTIALLY_REFUNDED", "REFUNDED"})
    => refunded = refundAmount /\ refunded > 0

\* Unless database calls fail: between refunds the user's balance and the gateway agree,
\* whatever the gateway answers.  Nothing is deducted for an order that was not paid
\* back, and never more than was paid back.
BooksBalance == DbFaults = {} =>
  ((\A p \in Procs : pc[p] \notin Executing) => 0 <= taken /\ taken <= refunded)

\* Unless database calls fail, every refund attempt ends, with a decision.
RefundEnds == DbFaults = {} /\ status = "REFUNDING" ~> status # "REFUNDING"
=============================================================================
