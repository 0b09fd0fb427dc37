---------------------------- MODULE UsageLedger ----------------------------
(***************************************************************************)
(* What billing promises, without tables, transactions or attempts: every  *)
(* request is billed at most once, and promotional credit is used up to    *)
(* what is left of it.                                                     *)
(***************************************************************************)
EXTENDS Integers

CONSTANTS Requests, Costs, Promotion

VARIABLES
  billed,   \* the requests billed so far
  spent,    \* what they cost together
  credit    \* promotional credit left

ledger == <<billed, spent, credit>>

Init == billed = {} /\ spent = 0 /\ credit = Promotion

Bill(r, cost) ==
  /\ r \notin billed
  /\ billed' = billed \cup {r}
  /\ spent' = spent + cost
  /\ credit' = IF cost < credit THEN credit - cost ELSE 0

Next == \E r \in Requests, cost \in Costs : Bill(r, cost)
Spec == Init /\ [][Next]_ledger
=============================================================================
