--------------------------- MODULE PaymentLedger ---------------------------
(***************************************************************************)
(* What the payment system promises for one balance order, without orders, *)
(* statuses or retries: money comes in once, value goes out at most once   *)
(* and only for money, the inviter is rewarded at most once and only for a *)
(* delivered order, and the books are closed only over a delivered and     *)
(* rewarded order, for good.                                               *)
(***************************************************************************)
EXTENDS Naturals

VARIABLES
  money,      \* the provider holds the full payment
  delivered,  \* times the user was credited
  rewarded,   \* times the inviter was rewarded
  closed      \* the order is reported as done

ledger == <<money, delivered, rewarded, closed>>

Init == money = FALSE /\ delivered = 0 /\ rewarded = 0 /\ closed = FALSE

Pay     == ~money /\ money' = TRUE /\ UNCHANGED <<delivered, rewarded, closed>>
Deliver == money /\ delivered = 0 /\ delivered' = 1 /\ UNCHANGED <<money, rewarded, closed>>
Reward  == delivered = 1 /\ rewarded = 0 /\ rewarded' = 1 /\ UNCHANGED <<money, delivered, closed>>
Close   == delivered = 1 /\ rewarded = 1 /\ closed' = TRUE /\ UNCHANGED <<money, delivered, rewarded>>

Next == Pay \/ Deliver \/ Reward \/ Close
Spec == Init /\ [][Next]_ledger
=============================================================================
