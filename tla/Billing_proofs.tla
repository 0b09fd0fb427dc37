---------------------------- MODULE Billing_proofs ----------------------------
(***************************************************************************)
(* Proofs about what a request costs.  UsageBilling: for every number of   *)
(* concurrent attempts, every set of requests and costs, and all failures, *)
(* each request is billed once, in one table, what it used of the credit   *)
(* is on record, and limits are reported by the commit that reaches them.  *)
(* BillingCache, in the second half: for every queue, pool of workers,     *)
(* number of concurrent requests and credit, no deduction is lost on its   *)
(* way to the cache, and what a user can overdraw is bounded.  The two     *)
(* share no variable.                                                      *)
(***************************************************************************)
EXTENDS UsageBilling, BillingCache, FiniteSetTheorems, SequenceTheorems, TLAPS

\* The steps of a transaction from its insert on; from the look into the archive on; and
\* while it holds the rows of the credit, the API key and the account.
Claimed == {"archive", "promoRead", "promoUse", "balance", "keyQuota", "accountQuota", "commit"}
Paying  == {"promoUse", "balance", "keyQuota", "accountQuota", "commit"}

\* What the locks of p protect: nobody else changes the rows p has read, so what p
\* computed from them is still right when it commits.
Holds(p) ==
  /\ pc[p] \notin {"idle", "edit"} => tx[p].req \in Requests /\ tx[p].cost \in Costs
  /\ pc[p] \in Claimed => claim[tx[p].req] = p /\ dedup[tx[p].req] = NoRow
  /\ pc[p] \in Paying \cup {"promoRead"} => archive[tx[p].req] = NoRow
  /\ pc[p] \in Paying => lock["promo"] = p /\ tx[p].promo = Lesser(tx[p].cost, credit)
  /\ pc[p] \in {"accountQuota", "commit"} =>
       lock["key"] = p /\ tx[p].exhausted = Crosses(key.used, tx[p].cost, KeyQuota)
  /\ pc[p] = "commit" =>
       lock["account"] = p /\ tx[p].crossed = Crosses(account.used, tx[p].cost, AccountLimit)

LocksHold == \A p \in Procs : Holds(p)

\* OneTable is not inductive: that a commit does not add a row next to an archived one
\* follows from the claim it holds, since the archive only takes over committed rows.
IInv == TypeOK /\ OneTable /\ LocksHold

LEMMA InitHolds == Init => IInv
<1>. SUFFICES ASSUME Init PROVE IInv
  OBVIOUS
<1>. USE UsageBillingAssumption
<1>1. TablesOK
  BY DEF Init, TablesOK, NoRow, Row, KeyRow
<1>2. Idle \in Session
  BY DEF Idle, Session, KeyRow
<1>3. ControlOK
  BY <1>2 DEF Init, ControlOK, Steps
<1>4. OneTable /\ LocksHold
  BY DEF Init, OneTable, LocksHold, Holds, Claimed, Paying
<1>. QED  BY <1>1, <1>3, <1>4 DEF IInv, TypeOK

\* A transaction that ends leaves the control state well typed and its locks to others.
LEMMA ReleaseTyped ==
  ASSUME ControlOK, NEW p \in Procs, Release(p), edits' = edits
  PROVE  ControlOK'
<1>1. Idle \in Session
  BY UsageBillingAssumption DEF Idle, Session, KeyRow
<1>. QED  BY <1>1 DEF ControlOK, Release, Goto, Steps

LEMMA ReleaseKeeps ==
  ASSUME ControlOK, NEW p \in Procs, Release(p), LocksHold, UNCHANGED tables
  PROVE  LocksHold'
<1>. SUFFICES ASSUME NEW q \in Procs PROVE Holds(q)'
  BY DEF LocksHold
<1>1. CASE q = p
  BY <1>1 DEF Holds, Release, Goto, ControlOK, Claimed, Paying
<1>2. CASE q # p
  <2>1. pc'[q] = pc[q] /\ tx'[q] = tx[q]
    BY <1>2 DEF Release, Goto, ControlOK
  <2>2. \A row \in Rows : lock[row] = q => lock'[row] = q
    BY <1>2 DEF Release
  <2>3. \A r \in Requests : claim[r] = q => claim'[r] = q
    BY <1>2 DEF Release
  <2>4. Holds(q)
    BY DEF LocksHold
  <2>. QED  BY <2>1, <2>2, <2>3, <2>4 DEF Holds, tables, Claimed, Paying, Rows
<1>. QED  BY <1>1, <1>2

\* A statement that changes what its transaction remembers keeps the control state typed.
LEMMA StepTyped ==
  ASSUME ControlOK, NEW p \in Procs, NEW s \in Session, NEW step \in Steps,
         tx' = [tx EXCEPT ![p] = s], Goto(p, step),
         lock' = lock \/ (\E row \in Rows : Lock(p, row)),
         claim' = claim \/ (\E r \in Requests : claim' = [claim EXCEPT ![r] = p]),
         edits' \in Nat
  PROVE  ControlOK'
<1>1. tx' \in [Procs -> Session] /\ pc' \in [Procs -> Steps]
  BY DEF ControlOK, Goto
<1>2. lock' \in [Rows -> Procs \cup {None}]
  BY DEF ControlOK, Lock
<1>3. claim' \in [Requests -> Procs \cup {None}]
  BY DEF ControlOK
<1>. QED  BY <1>1, <1>2, <1>3 DEF ControlOK

\* What a transaction holds survives a step of another one that changes no table.
LEMMA OthersKeep ==
  ASSUME NEW q \in Procs, Holds(q), pc'[q] = pc[q], tx'[q] = tx[q], UNCHANGED tables,
         \A row \in Rows : lock[row] = q => lock'[row] = q,
         \A r \in Requests : claim[r] = q => claim'[r] = q
  PROVE  Holds(q)'
  BY DEF Holds, tables, Claimed, Paying, Rows

\* Every step preserves the invariant: one step per action.
LEMMA Inductive == IInv /\ [Next]_vars => IInv'
<1>. SUFFICES ASSUME IInv, [Next]_vars PROVE IInv'
  OBVIOUS
<1>. USE UsageBillingAssumption
<1>0. TablesOK /\ ControlOK /\ OneTable /\ LocksHold
  BY DEF IInv, TypeOK
<1>a. ASSUME UNCHANGED tables, ControlOK', LocksHold' PROVE IInv'
  BY <1>0, <1>a DEF IInv, TypeOK, TablesOK, OneTable, tables
<1>1. ASSUME NEW p \in Procs, Apply(p) PROVE IInv'
  <2>1. UNCHANGED tables
    BY <1>1 DEF Apply
  <2>2. ControlOK'
    <3>1. PICK r \in Requests, c \in Costs : tx' = [tx EXCEPT ![p].req = r, ![p].cost = c]
      BY <1>1 DEF Apply
    <3>2. [tx[p] EXCEPT !.req = r, !.cost = c] \in Session
      <4>1. tx[p] \in Session /\ c \in Nat
        BY <1>0 DEF ControlOK, UsageBillingAssumption
      <4>. QED  BY <4>1 DEF Session
    <3>3. tx' = [tx EXCEPT ![p] = [tx[p] EXCEPT !.req = r, !.cost = c]]
      BY <1>0, <3>1 DEF ControlOK
    <3>. QED  BY <1>0, <1>1, <3>2, <3>3, StepTyped DEF Apply, ControlOK, Steps, locks
  <2>3. ASSUME NEW q \in Procs PROVE Holds(q)'
    <3>1. Holds(q)
      BY <1>0 DEF LocksHold
    <3>2. CASE q = p
      BY <1>0, <1>1, <2>1, <3>1, <3>2 DEF Apply, Holds, ControlOK, TablesOK, OneTable, Session, KeyRow, Row, Rows, Goto, Lock, tables, locks,
         Claimed, Paying
    <3>3. CASE q # p
      <4>1. pc'[q] = pc[q] /\ tx'[q] = tx[q]
        BY <1>0, <1>1, <3>3 DEF Apply, ControlOK, Goto, locks
      <4>2. \A row \in Rows : lock[row] = q => lock'[row] = q
        BY <1>0, <1>1, <3>3 DEF Apply, ControlOK, Lock, locks
      <4>3. \A r \in Requests : claim[r] = q => claim'[r] = q
        BY <1>0, <1>1, <3>3 DEF Apply, ControlOK, locks
      <4>. QED  BY <2>1, <3>1, <4>1, <4>2, <4>3, OthersKeep
    <3>. QED  BY <3>2, <3>3
  <2>. QED  BY <2>1, <2>2, <2>3, <1>a DEF LocksHold
<1>2. ASSUME NEW p \in Procs, ClaimKey(p) PROVE IInv'
  <2>1. UNCHANGED tables
    BY <1>2 DEF ClaimKey
  <2>2. ControlOK'
    <3>1. tx[p] \in Session /\ tx[p].req \in Requests
      BY <1>0, <1>2 DEF ControlOK, ClaimKey, LocksHold, Holds
    <3>2. tx' = [tx EXCEPT ![p] = tx[p]] /\ edits' \in Nat /\ lock' = lock
      BY <1>0, <1>2 DEF ControlOK, ClaimKey
    <3>3. Goto(p, "archive") \/ Goto(p, "compare")
      BY <1>2 DEF ClaimKey
    <3>4. claim' = claim \/ (\E r \in Requests : claim' = [claim EXCEPT ![r] = p])
      BY <1>2, <3>1 DEF ClaimKey
    <3>. QED  BY <1>0, <3>1, <3>2, <3>3, <3>4, StepTyped DEF Steps
  <2>3. ASSUME NEW q \in Procs PROVE Holds(q)'
    <3>1. Holds(q)
      BY <1>0 DEF LocksHold
    <3>2. CASE q = p
      BY <1>0, <1>2, <2>1, <3>1, <3>2 DEF ClaimKey, Holds, ControlOK, TablesOK, OneTable, Session, KeyRow, Row, Rows, Goto, Lock, tables, locks,
         Claimed, Paying
    <3>3. CASE q # p
      <4>1. pc'[q] = pc[q] /\ tx'[q] = tx[q]
        BY <1>0, <1>2, <3>3 DEF ClaimKey, ControlOK, Goto, locks
      <4>2. \A row \in Rows : lock[row] = q => lock'[row] = q
        BY <1>0, <1>2, <3>3 DEF ClaimKey, ControlOK, Lock, locks
      <4>3. \A r \in Requests : claim[r] = q => claim'[r] = q
        BY <1>0, <1>2, <3>3 DEF ClaimKey, ControlOK, locks
      <4>. QED  BY <2>1, <3>1, <4>1, <4>2, <4>3, OthersKeep
    <3>. QED  BY <3>2, <3>3
  <2>. QED  BY <2>1, <2>2, <2>3, <1>a DEF LocksHold
<1>3. ASSUME NEW p \in Procs, ReadPromotion(p) PROVE IInv'
  <2>1. UNCHANGED tables
    BY <1>3 DEF ReadPromotion
  <2>2. ControlOK'
    <3>0. tx[p] \in Session /\ Lesser(tx[p].cost, credit) \in Nat
      BY <1>0 DEF ControlOK, TablesOK, Session, Lesser
    <3>1. [tx[p] EXCEPT !.promo = Lesser(tx[p].cost, credit)] \in Session
      BY <3>0 DEF Session
    <3>2. tx' = [tx EXCEPT ![p] = [tx[p] EXCEPT !.promo = Lesser(tx[p].cost, credit)]]
      BY <1>0, <1>3 DEF ReadPromotion, ControlOK
    <3>. QED  BY <1>0, <1>3, <3>1, <3>2, StepTyped DEF ReadPromotion, ControlOK, Steps, Rows
  <2>3. ASSUME NEW q \in Procs PROVE Holds(q)'
    <3>1. Holds(q)
      BY <1>0 DEF LocksHold
    <3>2. CASE q = p
      BY <1>0, <1>3, <2>1, <3>1, <3>2 DEF ReadPromotion, Holds, ControlOK, TablesOK, OneTable, Session, KeyRow, Row, Rows, Goto, Lock, tables, locks,
         Claimed, Paying
    <3>3. CASE q # p
      <4>1. pc'[q] = pc[q] /\ tx'[q] = tx[q]
        BY <1>0, <1>3, <3>3 DEF ReadPromotion, ControlOK, Goto, locks
      <4>2. \A row \in Rows : lock[row] = q => lock'[row] = q
        BY <1>0, <1>3, <3>3 DEF ReadPromotion, ControlOK, Lock, locks
      <4>3. \A r \in Requests : claim[r] = q => claim'[r] = q
        BY <1>0, <1>3, <3>3 DEF ReadPromotion, ControlOK, locks
      <4>. QED  BY <2>1, <3>1, <4>1, <4>2, <4>3, OthersKeep
    <3>. QED  BY <3>2, <3>3
  <2>. QED  BY <2>1, <2>2, <2>3, <1>a DEF LocksHold
<1>4. ASSUME NEW p \in Procs, UsePromotion(p) PROVE IInv'
  <2>1. UNCHANGED tables
    BY <1>4 DEF UsePromotion
  <2>2. ControlOK'
    BY <1>0, <1>4 DEF UsePromotion, ControlOK, TablesOK, Session, Steps, KeyRow, Row, Rows, Goto, Lock, tables, locks,
       Crosses, Lesser
  <2>3. ASSUME NEW q \in Procs PROVE Holds(q)'
    <3>1. Holds(q)
      BY <1>0 DEF LocksHold
    <3>2. CASE q = p
      BY <1>0, <1>4, <2>1, <3>1, <3>2 DEF UsePromotion, Holds, ControlOK, TablesOK, OneTable, Session, KeyRow, Row, Rows, Goto, Lock, tables, locks,
         Claimed, Paying
    <3>3. CASE q # p
      <4>1. pc'[q] = pc[q] /\ tx'[q] = tx[q]
        BY <1>0, <1>4, <3>3 DEF UsePromotion, ControlOK, Goto, locks
      <4>2. \A row \in Rows : lock[row] = q => lock'[row] = q
        BY <1>0, <1>4, <3>3 DEF UsePromotion, ControlOK, Lock, locks
      <4>3. \A r \in Requests : claim[r] = q => claim'[r] = q
        BY <1>0, <1>4, <3>3 DEF UsePromotion, ControlOK, locks
      <4>. QED  BY <2>1, <3>1, <4>1, <4>2, <4>3, OthersKeep
    <3>. QED  BY <3>2, <3>3
  <2>. QED  BY <2>1, <2>2, <2>3, <1>a DEF LocksHold
<1>5. ASSUME NEW p \in Procs, DeductBalance(p) PROVE IInv'
  <2>1. UNCHANGED tables
    BY <1>5 DEF DeductBalance
  <2>2. ControlOK'
    BY <1>0, <1>5 DEF DeductBalance, ControlOK, TablesOK, Session, Steps, KeyRow, Row, Rows, Goto, Lock, tables, locks,
       Crosses, Lesser
  <2>3. ASSUME NEW q \in Procs PROVE Holds(q)'
    <3>1. Holds(q)
      BY <1>0 DEF LocksHold
    <3>2. CASE q = p
      BY <1>0, <1>5, <2>1, <3>1, <3>2 DEF DeductBalance, Holds, ControlOK, TablesOK, OneTable, Session, KeyRow, Row, Rows, Goto, Lock, tables, locks,
         Claimed, Paying
    <3>3. CASE q # p
      <4>1. pc'[q] = pc[q] /\ tx'[q] = tx[q]
        BY <1>0, <1>5, <3>3 DEF DeductBalance, ControlOK, Goto, locks
      <4>2. \A row \in Rows : lock[row] = q => lock'[row] = q
        BY <1>0, <1>5, <3>3 DEF DeductBalance, ControlOK, Lock, locks
      <4>3. \A r \in Requests : claim[r] = q => claim'[r] = q
        BY <1>0, <1>5, <3>3 DEF DeductBalance, ControlOK, locks
      <4>. QED  BY <2>1, <3>1, <4>1, <4>2, <4>3, OthersKeep
    <3>. QED  BY <3>2, <3>3
  <2>. QED  BY <2>1, <2>2, <2>3, <1>a DEF LocksHold
<1>6. ASSUME NEW p \in Procs, IncrementKeyQuota(p) PROVE IInv'
  <2>1. UNCHANGED tables
    BY <1>6 DEF IncrementKeyQuota
  <2>2. ControlOK'
    <3>1. [tx[p] EXCEPT !.exhausted = Crosses(key.used, tx[p].cost, KeyQuota)] \in Session
      <4>1. tx[p] \in Session
        BY <1>0 DEF ControlOK
      <4>2. Crosses(key.used, tx[p].cost, KeyQuota) \in {0, 1}
        BY DEF Crosses
      <4>. QED  BY <4>1, <4>2 DEF Session
    <3>2. tx' = [tx EXCEPT ![p] = [tx[p] EXCEPT !.exhausted = Crosses(key.used, tx[p].cost, KeyQuota)]]
      BY <1>0, <1>6 DEF IncrementKeyQuota, ControlOK
    <3>. QED  BY <1>0, <1>6, <3>1, <3>2, StepTyped DEF IncrementKeyQuota, ControlOK, Steps, Rows
  <2>3. ASSUME NEW q \in Procs PROVE Holds(q)'
    <3>1. Holds(q)
      BY <1>0 DEF LocksHold
    <3>2. CASE q = p
      BY <1>0, <1>6, <2>1, <3>1, <3>2 DEF IncrementKeyQuota, Holds, ControlOK, TablesOK, OneTable, Session, KeyRow, Row, Rows, Goto, Lock, tables, locks,
         Claimed, Paying
    <3>3. CASE q # p
      <4>1. pc'[q] = pc[q] /\ tx'[q] = tx[q]
        BY <1>0, <1>6, <3>3 DEF IncrementKeyQuota, ControlOK, Goto, locks
      <4>2. \A row \in Rows : lock[row] = q => lock'[row] = q
        BY <1>0, <1>6, <3>3 DEF IncrementKeyQuota, ControlOK, Lock, locks
      <4>3. \A r \in Requests : claim[r] = q => claim'[r] = q
        BY <1>0, <1>6, <3>3 DEF IncrementKeyQuota, ControlOK, locks
      <4>. QED  BY <2>1, <3>1, <4>1, <4>2, <4>3, OthersKeep
    <3>. QED  BY <3>2, <3>3
  <2>. QED  BY <2>1, <2>2, <2>3, <1>a DEF LocksHold
<1>7. ASSUME NEW p \in Procs, IncrementAccountQuota(p) PROVE IInv'
  <2>1. UNCHANGED tables
    BY <1>7 DEF IncrementAccountQuota
  <2>2. ControlOK'
    <3>1. [tx[p] EXCEPT !.crossed = Crosses(account.used, tx[p].cost, AccountLimit)] \in Session
      <4>1. tx[p] \in Session
        BY <1>0 DEF ControlOK
      <4>2. Crosses(account.used, tx[p].cost, AccountLimit) \in {0, 1}
        BY DEF Crosses
      <4>. QED  BY <4>1, <4>2 DEF Session
    <3>2. tx' = [tx EXCEPT ![p] = [tx[p] EXCEPT !.crossed = Crosses(account.used, tx[p].cost, AccountLimit)]]
      BY <1>0, <1>7 DEF IncrementAccountQuota, ControlOK
    <3>. QED  BY <1>0, <1>7, <3>1, <3>2, StepTyped DEF IncrementAccountQuota, ControlOK, Steps, Rows
  <2>3. ASSUME NEW q \in Procs PROVE Holds(q)'
    <3>1. Holds(q)
      BY <1>0 DEF LocksHold
    <3>2. CASE q = p
      BY <1>0, <1>7, <2>1, <3>1, <3>2 DEF IncrementAccountQuota, Holds, ControlOK, TablesOK, OneTable, Session, KeyRow, Row, Rows, Goto, Lock, tables, locks,
         Claimed, Paying
    <3>3. CASE q # p
      <4>1. pc'[q] = pc[q] /\ tx'[q] = tx[q]
        BY <1>0, <1>7, <3>3 DEF IncrementAccountQuota, ControlOK, Goto, locks
      <4>2. \A row \in Rows : lock[row] = q => lock'[row] = q
        BY <1>0, <1>7, <3>3 DEF IncrementAccountQuota, ControlOK, Lock, locks
      <4>3. \A r \in Requests : claim[r] = q => claim'[r] = q
        BY <1>0, <1>7, <3>3 DEF IncrementAccountQuota, ControlOK, locks
      <4>. QED  BY <2>1, <3>1, <4>1, <4>2, <4>3, OthersKeep
    <3>. QED  BY <3>2, <3>3
  <2>. QED  BY <2>1, <2>2, <2>3, <1>a DEF LocksHold
<1>8. ASSUME NEW p \in Procs, ReadKey(p) PROVE IInv'
  <2>1. UNCHANGED tables
    BY <1>8 DEF ReadKey
  <2>2. ControlOK'
    <3>1. PICK e \in {"other", "reset"}, k \in KeyRow : tx' = [tx EXCEPT ![p].edit = e, ![p].copy = k]
      BY <1>0, <1>8 DEF ReadKey, TablesOK, KeyRow
    <3>2. [tx[p] EXCEPT !.edit = e, !.copy = k] \in Session
      <4>1. tx[p] \in Session
        BY <1>0 DEF ControlOK
      <4>2. e \in {"none", "other", "reset"}
        OBVIOUS
      <4>. QED  BY <4>1, <4>2 DEF Session
    <3>3. tx' = [tx EXCEPT ![p] = [tx[p] EXCEPT !.edit = e, !.copy = k]]
      BY <1>0, <3>1 DEF ControlOK
    <3>4. Goto(p, "edit") /\ lock' = lock /\ claim' = claim /\ edits' \in Nat
      BY <1>0, <1>8 DEF ReadKey, ControlOK, locks
    <3>. QED  BY <1>0, <3>2, <3>3, <3>4, StepTyped DEF Steps
  <2>3. ASSUME NEW q \in Procs PROVE Holds(q)'
    <3>1. Holds(q)
      BY <1>0 DEF LocksHold
    <3>2. CASE q = p
      BY <1>0, <1>8, <2>1, <3>1, <3>2 DEF ReadKey, Holds, ControlOK, TablesOK, OneTable, Session, KeyRow, Row, Rows, Goto, Lock, tables, locks,
         Claimed, Paying
    <3>3. CASE q # p
      <4>1. pc'[q] = pc[q] /\ tx'[q] = tx[q]
        BY <1>0, <1>8, <3>3 DEF ReadKey, ControlOK, Goto, locks
      <4>2. \A row \in Rows : lock[row] = q => lock'[row] = q
        BY <1>0, <1>8, <3>3 DEF ReadKey, ControlOK, Lock, locks
      <4>3. \A r \in Requests : claim[r] = q => claim'[r] = q
        BY <1>0, <1>8, <3>3 DEF ReadKey, ControlOK, locks
      <4>. QED  BY <2>1, <3>1, <4>1, <4>2, <4>3, OthersKeep
    <3>. QED  BY <3>2, <3>3
  <2>. QED  BY <2>1, <2>2, <2>3, <1>a DEF LocksHold
<1>9. ASSUME NEW p \in Procs, CompareFingerprint(p) PROVE IInv'
  <2>1. UNCHANGED tables /\ Release(p) /\ edits' = edits
    BY <1>9 DEF CompareFingerprint, Rollback
  <2>. QED  BY <1>0, <2>1, ReleaseTyped, ReleaseKeeps, <1>a
<1>10. ASSUME NEW p \in Procs, Abort(p) PROVE IInv'
  <2>1. UNCHANGED tables /\ Release(p) /\ edits' = edits
    BY <1>10 DEF Abort, Rollback
  <2>. QED  BY <1>0, <2>1, ReleaseTyped, ReleaseKeeps, <1>a
<1>11. ASSUME NEW p \in Procs, LookupArchive(p) PROVE IInv'
  <2>1. CASE archive[tx[p].req] = NoRow
    <3>1. Goto(p, "promoRead") /\ UNCHANGED <<tables, locks, tx>> /\ edits' = edits /\ pc[p] = "archive"
      BY <1>11, <2>1 DEF LookupArchive
    <3>2. ControlOK'
      BY <1>0, <3>1 DEF ControlOK, Goto, Steps, locks
    <3>3. ASSUME NEW q \in Procs PROVE Holds(q)'
      BY <1>0, <2>1, <3>1 DEF LocksHold, Holds, ControlOK, Goto, locks, tables, Claimed, Paying
    <3>. QED  BY <3>1, <3>2, <3>3, <1>a DEF LocksHold
  <2>2. CASE archive[tx[p].req] # NoRow
    <3>1. UNCHANGED tables /\ Release(p) /\ edits' = edits
      BY <1>11, <2>2 DEF LookupArchive, Rollback
    <3>. QED  BY <1>0, <3>1, ReleaseTyped, ReleaseKeeps, <1>a
  <2>. QED  BY <2>1, <2>2
<1>12. ASSUME NEW p \in Procs, Commit(p) PROVE IInv'
  <2>0. Release(p) /\ edits' = edits /\ pc[p] = "commit"
    BY <1>12 DEF Commit
  <2>1. ControlOK'
    BY <1>0, <2>0, ReleaseTyped
  <2>2. CASE UNCHANGED tables
    BY <1>0, <2>0, <2>1, <2>2, ReleaseKeeps, <1>a
  <2>3. CASE Publish(p)
    <3>1. Holds(p)
      BY <1>0 DEF LocksHold
    <3>2. tx[p] \in Session /\ tx[p].req \in Requests /\ tx[p].cost \in Nat \ {0}
      BY <1>0, <2>0, <3>1 DEF Holds, ControlOK
    <3>3. tx[p].promo <= credit /\ tx[p].promo \in Nat
      BY <1>0, <2>0, <3>1, <3>2 DEF Holds, TablesOK, Lesser, Paying
    <3>4. TablesOK'
      BY <1>0, <2>3, <3>2, <3>3 DEF TablesOK, Publish, Session, Row, KeyRow
    <3>5. OneTable'
      BY <1>0, <2>0, <2>3, <3>1, <3>2 DEF OneTable, Publish, Holds, TablesOK, Claimed, Paying
    <3>6. ASSUME NEW q \in Procs PROVE Holds(q)'
      <4>1. Holds(q)
        BY <1>0 DEF LocksHold
      <4>2. CASE q = p
        BY <1>0, <2>0, <4>2 DEF Holds, Release, Goto, ControlOK, Claimed, Paying
      <4>3. CASE q # p
        <5>1. pc'[q] = pc[q] /\ tx'[q] = tx[q]
          BY <1>0, <2>0, <4>3 DEF Release, Goto, ControlOK
        <5>2. pc[q] \in Claimed => tx[q].req # tx[p].req
          BY <2>0, <3>1, <4>1, <4>3 DEF Holds, Claimed
        <5>3. pc[q] \notin Paying
          BY <2>0, <3>1, <4>1, <4>3 DEF Holds, Paying
        <5>4. \A r \in Requests : claim[r] = q => claim'[r] = q
          BY <2>0, <4>3 DEF Release
        <5>5. pc[q] \in Claimed => dedup'[tx[q].req] = dedup[tx[q].req]
          BY <1>0, <2>3, <5>2, <4>1 DEF Publish, TablesOK, Holds, Claimed
        <5>6. archive' = archive
          BY <2>3 DEF Publish
        <5>. QED  BY <4>1, <5>1, <5>3, <5>4, <5>5, <5>6 DEF Holds, Claimed, Paying
      <4>. QED  BY <4>2, <4>3
    <3>. QED  BY <2>1, <3>4, <3>5, <3>6 DEF IInv, TypeOK, LocksHold
  <2>. QED  BY <1>12, <2>2, <2>3 DEF Commit
<1>13. ASSUME NEW p \in Procs, WriteKey(p) PROVE IInv'
  <2>1. TablesOK' /\ ControlOK'
    BY <1>0, <1>13 DEF WriteKey, TablesOK, ControlOK, Goto, Steps, Session, KeyRow, Idle, locks
  <2>2. OneTable'
    BY <1>0, <1>13 DEF WriteKey, OneTable
  <2>3. ASSUME NEW q \in Procs PROVE Holds(q)'
    BY <1>0, <1>13 DEF WriteKey, LocksHold, Holds, ControlOK, Goto, locks, Claimed, Paying, None
  <2>. QED  BY <2>1, <2>2, <2>3 DEF IInv, TypeOK, LocksHold
<1>14. ASSUME NEW r \in Requests, ArchiveRow(r) PROVE IInv'
  <2>1. TablesOK' /\ ControlOK'
    BY <1>0, <1>14 DEF ArchiveRow, TablesOK, ControlOK, Row, NoRow, locks
  <2>2. OneTable'
    BY <1>0, <1>14 DEF ArchiveRow, OneTable, TablesOK
  <2>3. ASSUME NEW q \in Procs PROVE Holds(q)'
    BY <1>0, <1>14 DEF ArchiveRow, LocksHold, Holds, TablesOK, locks, Claimed, Paying
  <2>. QED  BY <2>1, <2>2, <2>3 DEF IInv, TypeOK, LocksHold
<1>15. CASE UNCHANGED vars
  BY <1>0, <1>15 DEF vars, tables, locks, IInv, TypeOK, TablesOK, ControlOK, OneTable, LocksHold, Holds
<1>. QED
  BY <1>1, <1>2, <1>3, <1>4, <1>5, <1>6, <1>7, <1>8, <1>9, <1>10, <1>11, <1>12, <1>13, <1>14, <1>15
  DEF Next, Continue

LEMMA InvariantHolds == Spec => []IInv
<1>. QED  BY InitHolds, Inductive, PTL DEF Spec

\* Every variable keeps its type: no attempt overdraws the promotional credit, whatever
\* fails and whoever bills at the same time (consumeUsageBillingPromotionCredit).
THEOREM TypeCorrect == Spec => []TypeOK
<1>1. IInv => TypeOK
  BY DEF IInv
<1>. QED  BY <1>1, InvariantHolds, PTL

\* A deduplication key is in the table or in the archive, never in both, although
\* attempts race with CleanupUsageBillingDedup (claimUsageBillingKey inserts first and
\* looks into the archive afterwards).
THEOREM KeysAreInOneTable == Spec => []OneTable
<1>1. IInv => OneTable
  BY DEF IInv
<1>. QED  BY <1>1, InvariantHolds, PTL

\* A step bills one request that was not billed before, or leaves the ledger unchanged.
LEMMA StepSimulation ==
  ASSUME IInv, [Next]_vars
  PROVE  [Ledger!Next]_(Ledger!ledger)
<1>. USE UsageBillingAssumption DEF Ledger!ledger
<1>0. TablesOK /\ ControlOK /\ OneTable /\ LocksHold
  BY DEF IInv, TypeOK
<1>1. CASE UNCHANGED tables
  BY <1>1 DEF tables
<1>2. ASSUME NEW p \in Procs, Commit(p), Publish(p) PROVE Ledger!Next
  <2>. DEFINE r == tx[p].req
              c == tx[p].cost
  <2>1. Holds(p) /\ pc[p] = "commit"
    BY <1>0, <1>2 DEF LocksHold, Commit
  <2>2. r \in Requests /\ c \in Costs /\ dedup[r] = NoRow /\ archive[r] = NoRow
        /\ tx[p].promo = Lesser(c, credit)
    BY <2>1 DEF Holds, Claimed, Paying
  <2>3. dedup' = [dedup EXCEPT ![r] = [cost |-> c, promo |-> tx[p].promo]] /\ archive' = archive
        /\ credit' = credit - tx[p].promo /\ balance' = balance - c
    BY <1>2 DEF Publish
  <2>4. dedup'[r] # NoRow
    BY <1>0, <2>2, <2>3 DEF TablesOK, NoRow
  <2>5. {q \in Requests : dedup'[q] # NoRow \/ archive'[q] # NoRow}
          = {q \in Requests : dedup[q] # NoRow \/ archive[q] # NoRow} \cup {r}
    BY <1>0, <2>2, <2>3, <2>4 DEF TablesOK
  <2>6. credit' = IF c < credit THEN credit - c ELSE 0
    BY <1>0, <2>2, <2>3 DEF TablesOK, Lesser
  <2>7. 0 - balance' = (0 - balance) + c
    <3>1. balance \in Int
      BY <1>0 DEF TablesOK
    <3>2. c \in Int
      <4>1. c \in Costs /\ Costs \subseteq Nat
        BY <2>2, UsageBillingAssumption
      <4>. HIDE DEF c
      <4>. QED  BY <4>1
    <3>. HIDE DEF c
    <3>. QED  BY <2>3, <3>1, <3>2
  <2>8. Ledger!Bill(r, c)
    BY <2>2, <2>5, <2>6, <2>7 DEF Ledger!Bill
  <2>9. r \in Requests /\ c \in Costs
    BY <2>2
  <2>. HIDE DEF r, c
  <2>. QED  BY <2>8, <2>9 DEF Ledger!Next, Ledger!Bill
<1>3. ASSUME NEW p \in Procs, WriteKey(p) PROVE UNCHANGED Ledger!ledger
  BY <1>3 DEF WriteKey
<1>4. ASSUME NEW r \in Requests, ArchiveRow(r) PROVE UNCHANGED Ledger!ledger
  <2>1. dedup' = [dedup EXCEPT ![r] = NoRow] /\ archive' = [archive EXCEPT ![r] = dedup[r]]
        /\ dedup[r] # NoRow /\ UNCHANGED <<credit, balance>>
    BY <1>0, <1>4 DEF ArchiveRow, OneTable, TablesOK
  <2>2. \A q \in Requests : dedup'[q] # NoRow \/ archive'[q] # NoRow
                            <=> dedup[q] # NoRow \/ archive[q] # NoRow
    BY <1>0, <2>1 DEF TablesOK
  <2>. QED  BY <2>1, <2>2
<1>5. ASSUME NEW p \in Procs, Apply(p) \/ Abort(p) \/ ReadKey(p) PROVE UNCHANGED tables
  BY <1>5 DEF Apply, Abort, ReadKey, Rollback
<1>6. ASSUME NEW p \in Procs, Continue(p)
      PROVE UNCHANGED tables \/ (Commit(p) /\ Publish(p)) \/ WriteKey(p)
  BY <1>6 DEF Continue, ClaimKey, CompareFingerprint, LookupArchive, ReadPromotion, UsePromotion,
     DeductBalance, IncrementKeyQuota, IncrementAccountQuota, Commit, Rollback
<1>7. CASE UNCHANGED vars
  BY <1>1, <1>7 DEF vars
<1>. QED  BY <1>1, <1>2, <1>3, <1>4, <1>5, <1>6, <1>7 DEF Next

\* Billing implements UsageLedger: each request is billed at most once, at its full cost,
\* and credit is used up to what is left, for every interleaving of attempts, failures,
\* repeated requests, archiving and edits.
THEOREM BillingImplementsLedger == Spec => ImplementsLedger
<1>1. Init => Ledger!Init
  BY DEF Init, Ledger!Init, NoRow
<1>2. IInv /\ [Next]_vars => [Ledger!Next]_(Ledger!ledger)
  BY StepSimulation
<1>. QED  BY <1>1, <1>2, InvariantHolds, PTL DEF Spec, ImplementsLedger, Ledger!Spec

\* Before the first edit no process is about to write a copy of the API key.
NoEdits == edits = 0 => \A p \in Procs : pc[p] # "edit"

\* Edits are only counted up.
LEMMA EditsGrow ==
  ASSUME ControlOK, [Next]_vars
  PROVE  edits' = edits \/ edits' = edits + 1
<1>1. ASSUME NEW p \in Procs, Apply(p) \/ Abort(p) \/ ReadKey(p) PROVE edits' = edits \/ edits' = edits + 1
  BY <1>1 DEF Apply, Abort, ReadKey
<1>2. ASSUME NEW p \in Procs, Continue(p) PROVE edits' = edits
  BY <1>2 DEF Continue, ClaimKey, CompareFingerprint, LookupArchive, ReadPromotion, UsePromotion,
     DeductBalance, IncrementKeyQuota, IncrementAccountQuota, Commit, WriteKey
<1>3. ASSUME NEW r \in Requests, ArchiveRow(r) PROVE edits' = edits
  BY <1>3 DEF ArchiveRow
<1>4. CASE UNCHANGED vars
  BY <1>4 DEF vars
<1>. QED  BY <1>1, <1>2, <1>3, <1>4 DEF Next

LEMMA NoEditStep ==
  ASSUME IInv, NoEdits, [Next]_vars
  PROVE  NoEdits'
<1>. SUFFICES ASSUME edits' = 0, NEW q \in Procs PROVE pc'[q] # "edit"
  BY DEF NoEdits
<1>e. ControlOK /\ edits \in Nat
  BY DEF IInv, TypeOK, ControlOK
<1>g. edits' = edits \/ edits' = edits + 1
  BY <1>e, EditsGrow
<1>z. edits = 0 /\ ~\E p \in Procs : ReadKey(p)
  <2>1. edits = 0
    BY <1>e, <1>g
  <2>2. ASSUME NEW p \in Procs, ReadKey(p) PROVE FALSE
    <3>1. edits' = edits + 1
      BY <2>2 DEF ReadKey
    <3>. QED  BY <2>1, <3>1
  <2>. QED  BY <2>1, <2>2
<1>0. ControlOK /\ pc[q] # "edit"
  BY <1>e, <1>z DEF NoEdits
<1>1. ASSUME NEW p \in Procs, NEW step \in Steps \ {"edit"}, Goto(p, step) PROVE pc'[q] # "edit"
  BY <1>0, <1>1 DEF Goto, ControlOK
<1>2. ASSUME NEW p \in Procs, Release(p) PROVE pc'[q] # "edit"
  BY <1>1, <1>2 DEF Release, Steps
<1>3. ASSUME NEW p \in Procs, Apply(p) \/ Abort(p) \/ ReadKey(p) PROVE pc'[q] # "edit"
  BY <1>1, <1>2, <1>3, <1>z DEF Apply, Abort, Rollback, Steps
<1>4. ASSUME NEW p \in Procs, ClaimKey(p) \/ CompareFingerprint(p) \/ LookupArchive(p) \/ Commit(p)
      PROVE pc'[q] # "edit"
  BY <1>1, <1>2, <1>4 DEF ClaimKey, CompareFingerprint, LookupArchive, Commit, Rollback, Steps
<1>5. ASSUME NEW p \in Procs, ReadPromotion(p) \/ UsePromotion(p) \/ DeductBalance(p)
                              \/ IncrementKeyQuota(p) \/ IncrementAccountQuota(p) \/ WriteKey(p)
      PROVE pc'[q] # "edit"
  BY <1>1, <1>5 DEF ReadPromotion, UsePromotion, DeductBalance, IncrementKeyQuota,
     IncrementAccountQuota, WriteKey, Steps
<1>6. ASSUME NEW r \in Requests, ArchiveRow(r) PROVE pc'[q] # "edit"
  BY <1>0, <1>6 DEF ArchiveRow
<1>7. CASE UNCHANGED vars
  BY <1>0, <1>7 DEF vars
<1>. QED  BY <1>3, <1>4, <1>5, <1>6, <1>7 DEF Next, Continue

\* The step that increments a counter under its lock keeps the reports right.
LEMMA CrossingStep ==
  ASSUME IInv, CrossingsReported, NoEdits, [Next]_vars
  PROVE  CrossingsReported'
<1>. USE UsageBillingAssumption
<1>0. TablesOK /\ ControlOK /\ LocksHold /\ edits \in Nat
  BY DEF IInv, TypeOK, ControlOK
<1>e. edits' = 0 => edits = 0
  BY <1>0, EditsGrow
<1>1. CASE UNCHANGED <<key, account, announced>>
  BY <1>1, <1>e DEF CrossingsReported
<1>2. ASSUME NEW p \in Procs, Commit(p), Publish(p) PROVE CrossingsReported'
  <2>. DEFINE c == tx[p].cost
  <2>1. Holds(p) /\ pc[p] = "commit"
    BY <1>0, <1>2 DEF LocksHold, Commit
  <2>2. c \in Nat \ {0} /\ tx[p].exhausted = Crosses(key.used, c, KeyQuota)
        /\ tx[p].crossed = Crosses(account.used, c, AccountLimit)
    BY <2>1 DEF Holds
  <2>3. key' = [used |-> key.used + c,
                status |-> IF tx[p].exhausted = 1 /\ key.status = "active" THEN "exhausted" ELSE key.status]
        /\ account' = [used |-> account.used + c, events |-> account.events + tx[p].crossed]
        /\ announced' = announced + tx[p].exhausted
    BY <1>2 DEF Publish
  <2>4. key.used \in Nat /\ account.used \in Nat
    BY <1>0 DEF TablesOK, KeyRow
  <2>5. edits' = 0 =>
          /\ announced' = (IF key'.used >= KeyQuota THEN 1 ELSE 0)
          /\ key'.status = (IF key'.used >= KeyQuota THEN "exhausted" ELSE "active")
    BY <1>e, <2>2, <2>3, <2>4 DEF CrossingsReported, Crosses
  <2>6. account'.events = (IF account'.used >= AccountLimit THEN 1 ELSE 0)
    BY <2>2, <2>3, <2>4 DEF CrossingsReported, Crosses
  <2>. QED  BY <2>5, <2>6 DEF CrossingsReported
<1>3. ASSUME NEW p \in Procs, Apply(p) \/ Abort(p) \/ ReadKey(p) PROVE UNCHANGED <<key, account, announced>>
  BY <1>3 DEF Apply, Abort, ReadKey, Rollback, tables
<1>4. ASSUME NEW p \in Procs, Continue(p)
      PROVE UNCHANGED <<key, account, announced>> \/ (Commit(p) /\ Publish(p)) \/ WriteKey(p)
  BY <1>4 DEF Continue, ClaimKey, CompareFingerprint, LookupArchive, ReadPromotion, UsePromotion,
     DeductBalance, IncrementKeyQuota, IncrementAccountQuota, Commit, Rollback, tables
<1>7. ASSUME NEW p \in Procs, WriteKey(p) PROVE CrossingsReported'
  BY <1>0, <1>7 DEF WriteKey, NoEdits, CrossingsReported
<1>5. ASSUME NEW r \in Requests, ArchiveRow(r) PROVE UNCHANGED <<key, account, announced>>
  BY <1>5 DEF ArchiveRow
<1>6. CASE UNCHANGED vars
  BY <1>1, <1>6 DEF vars, tables
<1>. QED  BY <1>1, <1>2, <1>3, <1>4, <1>5, <1>6, <1>7 DEF Next

\* The commit that reaches the key's quota or the account's limit reports it, exactly
\* once, for all costs and limits: in the scheduler's outbox always, in the key's status
\* and to the caller, who invalidates the cached key, until an owner edits the key.
THEOREM LimitsAreReportedOnce == Spec => []CrossingsReported
<1>1. Init => CrossingsReported /\ NoEdits
  BY UsageBillingAssumption DEF Init, CrossingsReported, NoEdits
<1>2. NoEdits /\ IInv /\ [Next]_vars => NoEdits'
  BY NoEditStep
<1>3. CrossingsReported /\ NoEdits /\ IInv /\ [Next]_vars => CrossingsReported'
  BY CrossingStep
<1>. QED  BY <1>1, <1>2, <1>3, InvariantHolds, PTL DEF Spec

\* What request r has on record, one by one.
Units(r) == {r} \X (1..(dedup[r].promo + archive[r].promo))

\* A request has as many units as its records say.
LEMMA UnitsCount ==
  ASSUME NEW r, NEW n \in Nat
  PROVE  IsFiniteSet({r} \X (1..n)) /\ Cardinality({r} \X (1..n)) = n
<1>1. IsFiniteSet({r}) /\ Cardinality({r}) = 1
  BY FS_Singleton
<1>2. IsFiniteSet(1..n) /\ Cardinality(1..n) = n
  BY FS_Interval
<1>3. /\ IsFiniteSet({r} \X (1..n))
      /\ Cardinality({r} \X (1..n)) = Cardinality({r}) * Cardinality(1..n)
  BY <1>1, <1>2, FS_Product
<1>4. Cardinality({r}) * Cardinality(1..n) = n
  BY <1>1, <1>2
<1>. QED  BY <1>3, <1>4

\* The credit used is a finite number of units, as many as are missing.
Recorded == IsFiniteSet(OnRecord) /\ PromotionOnRecord

\* Only a commit and the archiving job touch the records.  The commit adds the units its
\* transaction has read, under the lock, to a request that had none; the archiving job
\* moves a request's units to a table where it has none.
LEMMA RecordingStep ==
  ASSUME IInv, Recorded, [Next]_vars
  PROVE  Recorded'
<1>. USE UsageBillingAssumption
<1>0. TablesOK /\ ControlOK /\ LocksHold /\ OneTable
  BY DEF IInv, TypeOK
<1>1. ASSUME UNCHANGED <<dedup, archive, credit>> PROVE Recorded'
  BY <1>1 DEF Recorded, PromotionOnRecord, OnRecord
<1>2. ASSUME NEW p \in Procs, Commit(p), Publish(p) PROVE Recorded'
  <2>1. Holds(p) /\ pc[p] = "commit" /\ tx[p].promo \in Nat
    BY <1>0, <1>2 DEF LocksHold, Commit, ControlOK, Session
  <2>. PICK r \in Requests, n \in Nat : r = tx[p].req /\ n = tx[p].promo
    BY <2>1 DEF Holds
  <2>. DEFINE Added == {r} \X (1..n)
  <2>2. dedup[r] = NoRow /\ archive[r] = NoRow /\ n = Lesser(tx[p].cost, credit)
    BY <2>1 DEF Holds, Claimed, Paying
  <2>3. n \in Nat /\ credit \in Nat /\ credit' = credit - n
    BY <1>0, <1>2 DEF TablesOK, ControlOK, Session, Publish
  <2>4. /\ archive' = archive /\ dedup'[r] = [cost |-> tx[p].cost, promo |-> n]
        /\ \A q \in Requests \ {r} : dedup'[q] = dedup[q]
    BY <1>0, <1>2, <2>2 DEF Publish, TablesOK
  <2>5. Units(r) = {} /\ Units(r)' = Added
    <3>1. dedup[r].promo + archive[r].promo = 0 /\ dedup'[r].promo + archive'[r].promo = n
      BY <2>2, <2>3, <2>4 DEF NoRow
    <3>. QED  BY <3>1 DEF Units
  <2>6. \A q \in Requests \ {r} : Units(q)' = Units(q)
    BY <2>4 DEF Units
  <2>7. OnRecord = UNION {Units(q) : q \in Requests} /\ OnRecord' = UNION {Units(q)' : q \in Requests}
    BY DEF OnRecord, Units
  <2>8. OnRecord' = OnRecord \cup Added
    BY <2>2, <2>5, <2>6, <2>7
  <2>9. OnRecord \cap Added = {}
    <3>1. ASSUME NEW u \in OnRecord, u \in Added PROVE FALSE
      <4>1. PICK q \in Requests : u \in Units(q)
        BY <2>7
      <4>2. u[1] = q /\ u[1] = r
        BY <3>1, <4>1 DEF Units
      <4>. QED  BY <2>5, <4>1, <4>2
    <3>. QED  BY <3>1
  <2>10. IsFiniteSet(Added) /\ Cardinality(Added) = n
    BY <2>3, UnitsCount
  <2>11. IsFiniteSet(OnRecord) /\ Cardinality(OnRecord) = Promotion - credit
         /\ Cardinality(OnRecord) \in Nat
    BY FS_CardinalityType DEF Recorded, PromotionOnRecord
  <2>12. /\ IsFiniteSet(OnRecord \cup Added)
         /\ Cardinality(OnRecord \cup Added) = Cardinality(OnRecord) + n
    <3>1. Cardinality(OnRecord \cap Added) = 0
      BY <2>9, FS_EmptySet
    <3>2. IsFiniteSet(OnRecord) /\ IsFiniteSet(Added)
      BY <2>10, <2>11
    <3>. HIDE DEF Added
    <3>3. /\ IsFiniteSet(OnRecord \cup Added)
          /\ Cardinality(OnRecord \cup Added) =
               Cardinality(OnRecord) + Cardinality(Added) - Cardinality(OnRecord \cap Added)
      BY <3>2, FS_Union
    <3>. QED  BY <2>3, <2>10, <2>11, <3>1, <3>3
  <2>. QED  BY <2>3, <2>8, <2>11, <2>12 DEF Recorded, PromotionOnRecord
<1>3. ASSUME NEW r \in Requests, ArchiveRow(r) PROVE Recorded'
  <2>1. archive[r] = NoRow /\ dedup[r] \in Row
    BY <1>0, <1>3 DEF ArchiveRow, OneTable, TablesOK
  <2>2. credit' = credit /\ dedup'[r] = NoRow /\ archive'[r] = dedup[r]
        /\ \A q \in Requests \ {r} : dedup'[q] = dedup[q] /\ archive'[q] = archive[q]
    BY <1>0, <1>3, <2>1 DEF ArchiveRow, TablesOK
  <2>3. dedup'[r].promo + archive'[r].promo = dedup[r].promo + archive[r].promo
    BY <2>1, <2>2 DEF NoRow, Row
  <2>4. \A q \in Requests : dedup'[q].promo + archive'[q].promo = dedup[q].promo + archive[q].promo
    BY <2>2, <2>3
  <2>5. OnRecord' = OnRecord
    BY <2>4 DEF OnRecord
  <2>. QED  BY <2>2, <2>5 DEF Recorded, PromotionOnRecord
<1>4. ASSUME NEW p \in Procs, Apply(p) \/ Abort(p) \/ ReadKey(p)
      PROVE UNCHANGED <<dedup, archive, credit>>
  BY <1>4 DEF Apply, Abort, ReadKey, Rollback, tables
<1>5. ASSUME NEW p \in Procs, Continue(p)
      PROVE UNCHANGED <<dedup, archive, credit>> \/ (Commit(p) /\ Publish(p))
  BY <1>5 DEF Continue, ClaimKey, CompareFingerprint, LookupArchive, ReadPromotion, UsePromotion,
     DeductBalance, IncrementKeyQuota, IncrementAccountQuota, Commit, Rollback, WriteKey, tables
<1>6. CASE UNCHANGED vars
  BY <1>1, <1>6 DEF vars, tables
<1>. QED  BY <1>1, <1>2, <1>3, <1>4, <1>5, <1>6 DEF Next

\* The promotional credit that is missing is on record with the requests that used it, for
\* any number of attempts, requests and costs, all failures and the archiving of records
\* at any time (consumeUsageBillingPromotionCredit, CleanupUsageBillingDedup).
THEOREM PromotionIsOnRecord == Spec => []PromotionOnRecord
<1>1. Init => Recorded
  <2>. SUFFICES ASSUME Init PROVE Recorded
    OBVIOUS
  <2>1. \A r \in Requests : dedup[r].promo + archive[r].promo = 0
    BY DEF Init, NoRow
  <2>2. OnRecord = {}
    BY <2>1 DEF OnRecord
  <2>3. Promotion - credit = 0
    BY UsageBillingAssumption DEF Init
  <2>. QED  BY <2>2, <2>3, FS_EmptySet DEF Recorded, PromotionOnRecord
<1>2. Recorded /\ IInv /\ [Next]_vars => Recorded'
  BY RecordingStep
<1>3. Recorded => PromotionOnRecord
  BY DEF Recorded
<1>. QED  BY <1>1, <1>2, <1>3, InvariantHolds, PTL DEF Spec

----------------------------------------------------------------------------
(* The billing cache: counting tasks.                                      *)

\* How many of the values of f, a function or a sequence, are in T.
Marked(f, T) == {x \in DOMAIN f : f[x] \in T}
Num(f, T) == Cardinality(Marked(f, T))
One(v, T) == IF v \in T THEN 1 ELSE 0

\* Counting in a function over a finite set gives a number.
LEMMA NumIsNat ==
  ASSUME NEW f, NEW T, IsFiniteSet(DOMAIN f)
  PROVE  IsFiniteSet(Marked(f, T)) /\ Num(f, T) \in Nat
<1>1. Marked(f, T) \in SUBSET DOMAIN f
  BY DEF Marked
<1>2. IsFiniteSet(Marked(f, T))
  BY <1>1, FS_Subset
<1>. QED  BY <1>2, FS_CardinalityType DEF Num

\* One value is replaced.
LEMMA NumExcept ==
  ASSUME NEW f, IsFiniteSet(DOMAIN f), NEW x \in DOMAIN f, NEW v, NEW T,
         NEW g, DOMAIN g = DOMAIN f, g[x] = v, \A y \in DOMAIN f \ {x} : g[y] = f[y]
  PROVE  Num(g, T) = Num(f, T) - One(f[x], T) + One(v, T)
<1>. DEFINE R == Marked(f, T) \ {x}
<1>1. IsFiniteSet(Marked(f, T)) /\ Num(f, T) \in Nat
  BY NumIsNat
<1>2. IsFiniteSet(R) /\ Cardinality(R) = Num(f, T) - One(f[x], T)
  <2>1. /\ IsFiniteSet(Marked(f, T) \ {x})
        /\ Cardinality(Marked(f, T) \ {x}) =
             IF x \in Marked(f, T) THEN Cardinality(Marked(f, T)) - 1 ELSE Cardinality(Marked(f, T))
    BY <1>1, FS_RemoveElement
  <2>2. x \in Marked(f, T) <=> f[x] \in T
    BY DEF Marked
  <2>. QED  BY <1>1, <2>1, <2>2 DEF Num, One
<1>3. CASE v \in T
  <2>1. Marked(g, T) = R \cup {x} /\ x \notin R
    BY <1>3 DEF Marked
  <2>2. Cardinality(R \cup {x}) = Cardinality(R) + 1
    BY <1>2, <2>1, FS_AddElement
  <2>. QED  BY <1>1, <1>2, <1>3, <2>1, <2>2 DEF Num, One
<1>4. CASE v \notin T
  <2>1. Marked(g, T) = R
    BY <1>4 DEF Marked
  <2>2. Num(g, T) = Cardinality(R)
    BY <2>1 DEF Num
  <2>3. One(v, T) = 0 /\ One(f[x], T) \in {0, 1}
    BY <1>4 DEF One
  <2>. HIDE DEF R
  <2>. QED  BY <1>1, <1>2, <2>2, <2>3
<1>. QED  BY <1>3, <1>4

\* A task is queued.
LEMMA NumAppend ==
  ASSUME NEW V, NEW q \in Seq(V), NEW t \in V, NEW T
  PROVE  /\ Num(q, T) \in Nat
         /\ Num(Append(q, t), T) = Num(q, T) + One(t, T)
<1>. DEFINE n == Len(q)
            r == Append(q, t)
<1>1. n \in Nat /\ DOMAIN q = 1..n /\ DOMAIN r = 1..(n+1) /\ r[n+1] = t
      /\ \A i \in 1..n : r[i] = q[i]
  OBVIOUS
<1>2. IsFiniteSet(DOMAIN q)
  BY <1>1, FS_Interval
<1>3. IsFiniteSet(Marked(q, T)) /\ Num(q, T) \in Nat
  BY <1>2, NumIsNat
<1>4. CASE t \in T
  <2>1. Marked(r, T) = Marked(q, T) \cup {n + 1} /\ n + 1 \notin Marked(q, T)
    BY <1>1, <1>4 DEF Marked
  <2>2. Cardinality(Marked(q, T) \cup {n + 1}) = Cardinality(Marked(q, T)) + 1
    BY <1>3, <2>1, FS_AddElement
  <2>. QED  BY <1>3, <1>4, <2>1, <2>2 DEF Num, One
<1>5. CASE t \notin T
  <2>1. Marked(r, T) = Marked(q, T)
    BY <1>1, <1>5 DEF Marked
  <2>. QED  BY <1>3, <1>5, <2>1 DEF Num, One
<1>. QED  BY <1>4, <1>5

\* The first task is taken: the others move up.
LEMMA NumTail ==
  ASSUME NEW V, NEW q \in Seq(V), q # <<>>, NEW T
  PROVE  /\ Num(q, T) \in Nat
         /\ Num(Tail(q), T) = Num(q, T) - One(Head(q), T)
<1>. DEFINE n == Len(q)
            r == Tail(q)
            Rest == Marked(q, T) \ {1}
            up == [i \in Marked(r, T) |-> i + 1]
<1>1. n \in Nat \ {0} /\ DOMAIN q = 1..n /\ DOMAIN r = 1..(n-1) /\ Head(q) = q[1]
      /\ \A i \in 1..(n-1) : r[i] = q[i+1]
  OBVIOUS
<1>2. IsFiniteSet(DOMAIN q) /\ IsFiniteSet(DOMAIN r)
  BY <1>1, FS_Interval
<1>3. /\ IsFiniteSet(Marked(q, T)) /\ Num(q, T) \in Nat
      /\ IsFiniteSet(Marked(r, T)) /\ Num(r, T) \in Nat
  BY <1>2, NumIsNat
<1>4. Cardinality(Rest) = Num(q, T) - One(Head(q), T)
  <2>1. Cardinality(Rest) =
          IF 1 \in Marked(q, T) THEN Cardinality(Marked(q, T)) - 1 ELSE Cardinality(Marked(q, T))
    BY <1>3, FS_RemoveElement
  <2>2. 1 \in Marked(q, T) <=> Head(q) \in T
    BY <1>1 DEF Marked
  <2>. QED  BY <1>3, <2>1, <2>2 DEF Num, One
<1>5. up \in Bijection(Marked(r, T), Rest)
  <2>1. \A i \in Marked(r, T) : up[i] \in Rest
    BY <1>1 DEF Marked
  <2>2. \A i, j \in Marked(r, T) : up[i] = up[j] => i = j
    BY <1>1 DEF Marked
  <2>3. \A j \in Rest : j - 1 \in Marked(r, T) /\ up[j - 1] = j
    BY <1>1 DEF Marked
  <2>. QED  BY <2>1, <2>2, <2>3 DEF Bijection, Injection, Surjection, IsInjective
<1>6. Cardinality(Rest) = Cardinality(Marked(r, T))
  <2>1. ExistsBijection(Marked(r, T), Rest)
    BY <1>5 DEF ExistsBijection
  <2>. QED  BY <1>3, <2>1, FS_Bijection
<1>. QED  BY <1>3, <1>4, <1>6 DEF Num

\* Disjoint parts of a finite set are together no more than it.
LEMMA Parts ==
  ASSUME NEW S, IsFiniteSet(S), NEW A, NEW B, NEW C, A \cup B \cup C \subseteq S,
         A \cap B = {}, A \cap C = {}, B \cap C = {}
  PROVE  /\ Cardinality(A) \in Nat /\ Cardinality(B) \in Nat /\ Cardinality(C) \in Nat
         /\ Cardinality(S) \in Nat
         /\ Cardinality(A) + Cardinality(B) + Cardinality(C) <= Cardinality(S)
<1>1. /\ IsFiniteSet(A) /\ IsFiniteSet(B) /\ IsFiniteSet(C)
      /\ IsFiniteSet(A \cup B) /\ IsFiniteSet(A \cup B \cup C)
      /\ Cardinality(A \cup B \cup C) <= Cardinality(S)
  BY FS_Subset
<1>2. /\ Cardinality(A) \in Nat /\ Cardinality(B) \in Nat /\ Cardinality(C) \in Nat
      /\ Cardinality(A \cup B) \in Nat /\ Cardinality(S) \in Nat
  BY <1>1, FS_CardinalityType
<1>3. Cardinality({}) = 0
  BY FS_EmptySet
<1>4. Cardinality(A \cup B) = Cardinality(A) + Cardinality(B) - Cardinality(A \cap B)
  BY <1>1, FS_Union
<1>5. Cardinality(A \cup B \cup C) =
        Cardinality(A \cup B) + Cardinality(C) - Cardinality((A \cup B) \cap C)
  BY <1>1, FS_Union
<1>6. (A \cup B) \cap C = {}
  OBVIOUS
<1>7. Cardinality(A \cap B) = 0 /\ Cardinality((A \cup B) \cap C) = 0
  BY <1>3, <1>6
<1>8. Cardinality(A \cup B \cup C) = Cardinality(A) + Cardinality(B) + Cardinality(C)
  BY <1>2, <1>4, <1>5, <1>7
<1>. QED  BY <1>1, <1>2, <1>8

----------------------------------------------------------------------------
(* The billing cache: what can still be charged.                           *)

Limit == Credit + MaxTopUps
Weight == Limit + OnTheirWay

\* The tasks there are: a value is at most all the credit, a deduction takes one.
Carried == {t \in Tasks : IF t.op = "deduct" THEN t = Deductions ELSE t.v <= Limit}
Positives == {t \in Tasks : t.op = "set" /\ t.v > 0}

OnWay(T) == Num(queue, T) + Num(hand, T) + Num(task, T)
Values == OnWay(Positives)
Debits == OnWay({Deductions})
Serving == {p \in Calls : at[p] = "serve"}

\* Requests that are let pass when a value that was read has been queued: the one that read
\* it, or all that may join it.
Hopeful ==
  {p \in Calls : \/ task[p] \in Positives
                 \/ kind = "balance" /\ \E q \in Calls : task[q] \in Positives}

\* The credit that a request finds in the cache.
Shown == IF cached # Nil /\ cached > 0 THEN cached ELSE 0

\* How much may still be charged without another read of the database: while the cache
\* shows credit, that and a deduction in every free place; else what is being served.  Each
\* value on its way renews it.
Room(c, v, d, s, h) == (IF c > 0 THEN c + OnTheirWay - v - d ELSE s) + v * Weight + h
Allowance == Room(Shown, Values, Debits, Cardinality(Serving), Cardinality(Hopeful))

LEMMA Places ==
  /\ OnTheirWay \in Nat /\ Limit \in Nat /\ Weight \in Nat /\ OnTheirWay <= Weight
  /\ Cardinality(Calls) \in Nat /\ Cardinality(Workers) \in Nat
  /\ Cardinality(Calls) <= OnTheirWay
  /\ IsFiniteSet(Calls) /\ IsFiniteSet(Workers)
<1>1. IsFiniteSet(Calls) /\ IsFiniteSet(Workers)
  BY BillingCacheAssumption
<1>2. Cardinality(Calls) \in Nat /\ Cardinality(Workers) \in Nat
  BY <1>1, FS_CardinalityType
<1>. QED  BY <1>1, <1>2, BillingCacheAssumption DEF OnTheirWay, Limit, Weight

\* Where there is a request there is a place.
LEMMA SomePlace == ASSUME NEW p \in Calls PROVE OnTheirWay >= 1 /\ Weight >= 1
<1>1. Cardinality(Calls) # 0
  BY Places, FS_EmptySet
<1>. QED  BY <1>1, Places

LEMMA SomeWorker == ASSUME NEW w \in Workers PROVE OnTheirWay >= 1 /\ Weight >= 1
<1>1. Cardinality(Workers) # 0
  BY Places, FS_EmptySet
<1>2. OnTheirWay = QueueSize + Cardinality(Workers) + Cardinality(Calls) /\ QueueSize \in Nat
  BY BillingCacheAssumption DEF OnTheirWay
<1>. QED  BY <1>1, <1>2, Places

LEMMA Product ==
  ASSUME NEW a \in Nat, NEW b \in Nat
  PROVE  /\ a * b \in Nat
         /\ a >= 1 => (a - 1) * b = a * b - b
         /\ a >= 1 /\ b >= 1 => a * b >= a + b - 1
<1>1. a * b \in Nat
  OBVIOUS
<1>2. (a - 1) * b = a * b - b
  OBVIOUS
<1>3. ASSUME a >= 1, b >= 1 PROVE a * b >= a + b - 1
  <2>1. a - 1 \in Nat /\ b - 1 \in Nat
    BY <1>3
  <2>2. (a - 1) * (b - 1) \in Nat
    BY <2>1
  <2>3. (a - 1) * (b - 1) = a * b - a - b + 1
    OBVIOUS
  <2>. QED  BY <2>2, <2>3, <1>1
<1>. QED  BY <1>1, <1>2, <1>3

\* A value is dropped, or decides, and nothing else changes: no more can be charged.
LEMMA RoomLower ==
  ASSUME NEW c \in Nat, NEW v \in Nat, NEW u \in Nat, NEW d \in Nat, NEW s \in Nat, NEW h \in Nat,
         NEW r \in Nat, NEW g \in Nat,
         u = v \/ (u = v - 1 /\ Weight >= 1), g <= h, c = 0 => r + g <= s + h
  PROVE  Room(c, u, d, r, g) <= Room(c, v, d, s, h)
<1>1. v * Weight \in Nat /\ u * Weight \in Nat /\ (u = v - 1 => u * Weight = v * Weight - Weight)
  BY Product, Places
<1>2. CASE u = v
  BY <1>2, <1>1, Places DEF Room
<1>3. CASE u = v - 1 /\ Weight >= 1
  <2>1. c + OnTheirWay - u - d <= c + OnTheirWay - v - d + Weight
    BY <1>3, Places
  <2>. QED  BY <1>1, <1>3, <2>1, Places DEF Room
<1>. QED  BY <1>2, <1>3

\* A deduction is carried out.
LEMMA RoomDebit ==
  ASSUME NEW c \in Nat, NEW v \in Nat, NEW d \in Nat, NEW s \in Nat, NEW h \in Nat,
         d >= 1, s + d + v <= OnTheirWay
  PROVE  Room(IF c > 0 THEN c - 1 ELSE 0, v, d - 1, s, h) <= Room(c, v, d, s, h)
BY Product, Places DEF Room

\* The entry is deleted, or what it shows is replaced by nothing.
LEMMA RoomGone ==
  ASSUME NEW c \in Nat, NEW v \in Nat, NEW d \in Nat, NEW s \in Nat, NEW h \in Nat,
         s + d + v <= OnTheirWay
  PROVE  Room(0, v, d, s, h) <= Room(c, v, d, s, h)
BY Product, Places DEF Room

\* A value is stored.
LEMMA RoomSet ==
  ASSUME NEW c \in Nat, NEW v \in Nat, NEW d \in Nat, NEW s \in Nat, NEW h \in Nat,
         NEW x \in Nat, x <= Limit, x > 0, v >= 1, s + d + v <= OnTheirWay
  PROVE  Room(x, v - 1, d, s, h) <= Room(c, v, d, s, h)
<1>1. v * Weight \in Nat /\ (v - 1) * Weight = v * Weight - Weight
  BY Product, Places
<1>2. Weight = Limit + OnTheirWay
  BY DEF Weight
<1>. QED  BY <1>1, <1>2, Places DEF Room

\* A request is charged.
LEMMA RoomCharge ==
  ASSUME NEW c \in Nat, NEW v \in Nat, NEW d \in Nat, NEW s \in Nat, NEW h \in Nat, s >= 1
  PROVE  Room(c, v, d + 1, s - 1, h) <= Room(c, v, d, s, h) - 1
BY Product, Places DEF Room

\* After a charge the bound leaves room for whatever there may be.
LEMMA RoomFits ==
  ASSUME NEW c \in Nat, NEW v \in Nat, NEW d \in Nat, NEW s \in Nat, NEW h \in Nat,
         d >= 1, s + d + v <= OnTheirWay, h <= OnTheirWay, c <= Limit
  PROVE  Room(c, v, d, s, h) <= OnTheirWay * Weight
<1>. DEFINE m == OnTheirWay - v
<1>1. m \in Nat /\ m >= 1 /\ OnTheirWay >= 1
  BY Places
<1>2. OnTheirWay * Weight = v * Weight + m * Weight
  BY Places
<1>3. m * Weight >= m + Weight - 1 /\ v * Weight \in Nat
  BY <1>1, Product, Places
<1>4. (IF c > 0 THEN c + OnTheirWay - v - d ELSE s) + h <= m + Weight - 1
  BY <1>1, Places DEF Weight
<1>. QED  BY <1>1, <1>2, <1>3, <1>4, Places DEF Room

----------------------------------------------------------------------------
(* The billing cache: its invariant.                                       *)

\* What is carried, what is cached and what the database says, all within the credit.
Carrying ==
  /\ queue \in Seq(Carried)
  /\ hand \in [Workers -> Carried \cup {Nil}]
  /\ task \in [Calls -> Carried \cup {Nil}]
  /\ cached # Nil => cached <= Limit
  /\ topUps.made <= MaxTopUps /\ left <= Credit + topUps.made

\* A request has a task while it hands it over, and only deductions are made at once.
CallsOK ==
  \A p \in Calls :
    /\ at[p] \in {"offer", "send", "fallback"} <=> task[p] # Nil
    /\ at[p] = "fallback" => task[p] = Deductions

\* One request at a time loads the balance; nobody joins the load of a subscription.
Alone ==
  IF kind = "balance" THEN \A p, q \in Calls : InFlight(p) /\ InFlight(q) => p = q
  ELSE \A p \in Calls : at[p] # "wait"

\* A deduction that is owed is on its way, or went with a sender that panicked.
Owing == Debits <= owed /\ (panicked \/ owed = Debits)

Sound ==
  /\ breaker.state = "closed" => breaker.failures < Threshold
  /\ "stop" \notin faults => service = "running"

CacheShape == CacheTypeOK /\ Carrying /\ CallsOK /\ Alone /\ Sound

\* While there is no credit left, what may still be charged stays within the bound.
Budget ==
  faults = {} /\ left <= 0 => Allowance <= left + OnTheirWay * Weight

\* OverdraftBounded is not inductive: what the next requests may overdraw depends on the
\* values that are cached or on their way, and on the deductions those do not show yet.
CacheInv == CacheShape /\ Owing /\ Budget

\* All counts are numbers.
LEMMA Counts ==
  ASSUME CacheShape
  PROVE  /\ IsFiniteSet(DOMAIN queue) /\ DOMAIN hand = Workers /\ DOMAIN task = Calls
         /\ Values \in Nat /\ Debits \in Nat
         /\ IsFiniteSet(Serving) /\ Cardinality(Serving) \in Nat
         /\ IsFiniteSet(Hopeful) /\ Cardinality(Hopeful) \in Nat
         /\ Cardinality(Hopeful) <= Cardinality(Calls) /\ Cardinality(Serving) <= Cardinality(Calls)
         /\ Shown \in Nat /\ Shown <= Limit
<1>1. /\ IsFiniteSet(DOMAIN queue) /\ DOMAIN hand = Workers /\ DOMAIN task = Calls
  <2>1. DOMAIN queue = 1..Len(queue) /\ Len(queue) \in Nat
    BY DEF CacheShape, CacheTypeOK
  <2>. QED  BY <2>1, FS_Interval DEF CacheShape, CacheTypeOK
<1>2. \A T : Num(queue, T) \in Nat /\ Num(hand, T) \in Nat /\ Num(task, T) \in Nat
  BY <1>1, NumIsNat, Places
<1>3. Values \in Nat /\ Debits \in Nat
  BY <1>2 DEF Values, Debits, OnWay
<1>4. Serving \in SUBSET Calls /\ Hopeful \in SUBSET Calls
  BY DEF Serving, Hopeful
<1>5. /\ IsFiniteSet(Serving) /\ Cardinality(Serving) \in Nat
      /\ IsFiniteSet(Hopeful) /\ Cardinality(Hopeful) \in Nat
      /\ Cardinality(Hopeful) <= Cardinality(Calls) /\ Cardinality(Serving) <= Cardinality(Calls)
  BY <1>4, Places, FS_Subset, FS_CardinalityType
<1>6. cached \in Int \cup {Nil} /\ (cached # Nil => cached <= Limit)
  BY DEF CacheShape, CacheTypeOK, Carrying
<1>7. Shown \in Nat /\ Shown <= Limit
  BY <1>6, Places, BillingCacheAssumption DEF Shown
<1>. QED  BY <1>1, <1>3, <1>5, <1>7

\* Each place holds a value, a deduction, or a request that is being served.
LEMMA PlacesSuffice ==
  ASSUME CacheShape
  PROVE  Cardinality(Serving) + Debits + Values <= OnTheirWay
<1>. DEFINE D == {Deductions}
<1>1. Deductions \notin Positives /\ Nil \notin Positives \cup D
  BY BillingCacheAssumption DEF Deductions, Positives, Tasks
<1>2. IsFiniteSet(DOMAIN queue) /\ DOMAIN hand = Workers /\ DOMAIN task = Calls
  BY Counts
<1>3. /\ Num(queue, Positives) \in Nat /\ Num(queue, D) \in Nat
      /\ Num(queue, Positives) + Num(queue, D) <= QueueSize
  <2>1. Cardinality(DOMAIN queue) = Len(queue) /\ Len(queue) <= QueueSize /\ Len(queue) \in Nat
    <3>1. DOMAIN queue = 1..Len(queue) /\ Len(queue) \in Nat /\ Len(queue) <= QueueSize
      BY DEF CacheShape, CacheTypeOK
    <3>2. Cardinality(1..Len(queue)) = IF 1 > Len(queue) THEN 0 ELSE Len(queue) - 1 + 1
      BY <3>1, FS_Interval
    <3>3. Cardinality(1..Len(queue)) = Len(queue)
      BY <3>1, <3>2
    <3>. QED  BY <3>1, <3>3
  <2>2. /\ Marked(queue, Positives) \cup Marked(queue, D) \cup {} \subseteq DOMAIN queue
        /\ Marked(queue, Positives) \cap Marked(queue, D) = {}
        /\ Marked(queue, Positives) \cap {} = {} /\ Marked(queue, D) \cap {} = {}
    BY <1>1 DEF Marked
  <2>3. /\ Cardinality(Marked(queue, Positives)) \in Nat /\ Cardinality(Marked(queue, D)) \in Nat
        /\ Cardinality({}) \in Nat
        /\ Cardinality(Marked(queue, Positives)) + Cardinality(Marked(queue, D)) + Cardinality({})
             <= Cardinality(DOMAIN queue)
    <3>. HIDE DEF D
    <3>. QED  BY <1>2, <2>2, Parts
  <2>. QED  BY <2>1, <2>3, BillingCacheAssumption DEF Num
<1>4. /\ Num(hand, Positives) \in Nat /\ Num(hand, D) \in Nat
      /\ Num(hand, Positives) + Num(hand, D) <= Cardinality(Workers)
  <2>1. /\ Marked(hand, Positives) \cup Marked(hand, D) \cup {} \subseteq Workers
        /\ Marked(hand, Positives) \cap Marked(hand, D) = {}
    BY <1>1, <1>2 DEF Marked
  <2>2. /\ Cardinality(Marked(hand, Positives)) \in Nat /\ Cardinality(Marked(hand, D)) \in Nat
        /\ Cardinality({}) \in Nat
        /\ Cardinality(Marked(hand, Positives)) + Cardinality(Marked(hand, D)) + Cardinality({})
             <= Cardinality(Workers)
    <3>. HIDE DEF D
    <3>. QED  BY Places, <2>1, Parts
  <2>. QED  BY <2>2, Places DEF Num
<1>5. /\ Num(task, Positives) \in Nat /\ Num(task, D) \in Nat
      /\ Num(task, Positives) + Num(task, D) + Cardinality(Serving) <= Cardinality(Calls)
  <2>1. /\ Marked(task, Positives) \cup Marked(task, D) \cup Serving \subseteq Calls
        /\ Marked(task, Positives) \cap Marked(task, D) = {}
        /\ Marked(task, Positives) \cap Serving = {} /\ Marked(task, D) \cap Serving = {}
    <3>1. \A p \in Serving : task[p] = Nil
      BY DEF Serving, CacheShape, CallsOK
    <3>. QED  BY <1>1, <1>2, <3>1 DEF Marked, Serving
  <2>2. /\ Cardinality(Marked(task, Positives)) \in Nat /\ Cardinality(Marked(task, D)) \in Nat
        /\ Cardinality(Marked(task, Positives)) + Cardinality(Marked(task, D)) + Cardinality(Serving)
             <= Cardinality(Calls)
    <3>. HIDE DEF D
    <3>. QED  BY Places, <2>1, Parts
  <2>. QED  BY <2>2 DEF Num
<1>6. /\ Values = Num(queue, Positives) + Num(hand, Positives) + Num(task, Positives)
      /\ Debits = Num(queue, D) + Num(hand, D) + Num(task, D)
  BY DEF Values, Debits, OnWay
<1>7. Cardinality(Serving) \in Nat /\ QueueSize \in Nat
  BY Counts, BillingCacheAssumption
<1>. HIDE DEF D
<1>. QED  BY <1>3, <1>4, <1>5, <1>6, <1>7, Places DEF OnTheirWay

\* What the property counts is what is counted here.
LEMMA SameDebits == ASSUME CacheShape PROVE DeductionsOnTheirWay = Debits
<1>1. DOMAIN hand = Workers /\ DOMAIN task = Calls
  BY Counts
<1>2. /\ Marked(queue, {Deductions}) = {i \in DOMAIN queue : queue[i] = Deductions}
      /\ Marked(hand, {Deductions}) = {w \in Workers : hand[w] = Deductions}
      /\ Marked(task, {Deductions}) = {p \in Calls : task[p] = Deductions}
  BY <1>1 DEF Marked
<1>. QED  BY <1>2 DEF DeductionsOnTheirWay, Debits, OnWay, Num

LEMMA CacheInitHolds == CacheInit => CacheInv
<1>. SUFFICES ASSUME CacheInit PROVE CacheInv
  OBVIOUS
<1>. USE BillingCacheAssumption
<1>0. queue = <<>> /\ hand = [w \in Workers |-> Nil] /\ task = [p \in Calls |-> Nil]
      /\ at = [p \in Calls |-> "idle"] /\ cached = Nil
  BY DEF CacheInit
<1>1. CacheTypeOK
  <2>1. queue \in Seq(Tasks) /\ Len(queue) <= QueueSize
    BY <1>0
  <2>2. hand \in [Workers -> Tasks \cup {Nil}] /\ task \in [Calls -> Tasks \cup {Nil}]
        /\ at \in [Calls -> Stages]
    BY <1>0 DEF Stages
  <2>3. breaker \in [state : {"closed", "open", "halfOpen"}, failures : 0 .. Threshold, slots : 0 .. Slots]
    BY DEF CacheInit, Closed
  <2>4. left \in Int /\ topUps \in [made : Nat, pending : Nat]
    BY DEF CacheInit
  <2>5. /\ kind \in Kinds /\ faults \in FaultSets /\ fresh \in BOOLEAN /\ owed \in Nat
        /\ service \in {"running", "stopping", "closed", "stopped"}
        /\ panicked \in BOOLEAN
    BY DEF CacheInit
  <2>6. dbDown \in BOOLEAN
    <3>1. dbDown = ("db" \in faults)
      BY Zenon DEF CacheInit
    <3>2. CASE "db" \in faults
      BY <3>1, <3>2
    <3>3. CASE "db" \notin faults
      BY <3>1, <3>3
    <3>. QED  BY <3>2, <3>3
  <2>. QED  BY <1>0, <2>1, <2>2, <2>3, <2>4, <2>5, <2>6 DEF CacheTypeOK
<1>2. Carrying /\ CallsOK /\ Alone /\ Sound
  <2>1. queue \in Seq(Carried)
    BY <1>0
  <2>. QED  BY <1>0, <2>1 DEF CacheInit, Carrying, CallsOK, Alone, InFlight, Sound, Closed
<1>3. CacheShape
  BY <1>1, <1>2 DEF CacheShape
<1>4. \A T : Nil \notin T =>
        Marked(queue, T) = {} /\ Marked(hand, T) = {} /\ Marked(task, T) = {}
  BY <1>0 DEF Marked
<1>5. Nil \notin Positives /\ Nil \notin {Deductions}
  BY DEF Positives, Tasks, Deductions
<1>6. Values = 0 /\ Debits = 0
  <2>1. Num(queue, Positives) = 0 /\ Num(hand, Positives) = 0 /\ Num(task, Positives) = 0
    BY <1>4, <1>5, FS_EmptySet DEF Num
  <2>2. /\ Num(queue, {Deductions}) = 0 /\ Num(hand, {Deductions}) = 0
        /\ Num(task, {Deductions}) = 0
    BY <1>4, <1>5, FS_EmptySet DEF Num
  <2>. QED  BY <2>1, <2>2 DEF Values, Debits, OnWay
<1>7. Serving = {} /\ Hopeful = {} /\ Shown = 0
  BY <1>0, <1>5 DEF Serving, Hopeful, Shown
<1>8. Allowance = 0
  <2>1. Cardinality({}) = 0
    BY FS_EmptySet
  <2>. QED  BY <1>6, <1>7, <2>1, Places DEF Allowance, Room
<1>9. left = Credit /\ owed = 0 /\ OnTheirWay * Weight \in Nat
  BY Places, Product DEF CacheInit
<1>. QED  BY <1>3, <1>6, <1>8, <1>9 DEF CacheInv, Owing, Budget

\* The invariant's shape in the parts that an action touches.
FlowOK ==
  /\ kind \in Kinds
  /\ at \in [Calls -> Stages] /\ task \in [Calls -> Carried \cup {Nil}]
  /\ CallsOK /\ Alone
EntryOK == cached \in Int \cup {Nil} /\ fresh \in BOOLEAN /\ (cached # Nil => cached <= Limit)
PoolOK ==
  /\ queue \in Seq(Carried) /\ Len(queue) <= QueueSize
  /\ hand \in [Workers -> Carried \cup {Nil}]
StoreOK ==
  /\ left \in Int /\ topUps \in [made : Nat, pending : Nat]
  /\ topUps.made <= MaxTopUps /\ left <= Credit + topUps.made
BreakerOK ==
  /\ breaker \in [state : {"closed", "open", "halfOpen"}, failures : 0 .. Threshold, slots : 0 .. Slots]
  /\ breaker.state = "closed" => breaker.failures < Threshold
RestOK ==
  /\ faults \in FaultSets /\ owed \in Nat
  /\ service \in {"running", "stopping", "closed", "stopped"}
  /\ "stop" \notin faults => service = "running"
  /\ dbDown \in BOOLEAN /\ panicked \in BOOLEAN

LEMMA TaskKinds ==
  /\ Carried \subseteq Tasks /\ Nil \notin Carried /\ Deductions \in Carried
  /\ \A t \in Carried : \/ t = Deductions /\ t.op = "deduct" /\ t.v = 1
                        \/ t # Deductions /\ t.op = "set" /\ t.v \in Int /\ t.v <= Limit
BY BillingCacheAssumption DEF Carried, Tasks, Deductions

LEMMA ShapeParts ==
  CacheShape <=> FlowOK /\ EntryOK /\ PoolOK /\ StoreOK /\ BreakerOK /\ RestOK
<1>1. CacheShape => FlowOK /\ EntryOK /\ PoolOK /\ StoreOK
  BY DEF CacheShape, CacheTypeOK, Carrying, FlowOK, EntryOK, PoolOK, StoreOK
<1>2. CacheShape => BreakerOK
  BY DEF CacheShape, CacheTypeOK, Sound, BreakerOK
<1>3. CacheShape => RestOK
  BY DEF CacheShape, CacheTypeOK, Sound, RestOK
<1>4. ASSUME FlowOK, EntryOK, PoolOK, StoreOK, BreakerOK, RestOK PROVE CacheShape
  <2>1. Carrying /\ CallsOK /\ Alone /\ Sound
    BY <1>4 DEF Carrying, FlowOK, EntryOK, PoolOK, StoreOK, BreakerOK, RestOK, Sound
  <2>2. queue \in Seq(Tasks) /\ Len(queue) <= QueueSize
    <3>1. queue \in Seq(Carried) /\ Len(queue) <= QueueSize
      BY <1>4 DEF PoolOK
    <3>. QED  BY <3>1, TaskKinds
  <2>3. hand \in [Workers -> Tasks \cup {Nil}] /\ task \in [Calls -> Tasks \cup {Nil}]
    BY <1>4, TaskKinds DEF PoolOK, FlowOK
  <2>4. CacheTypeOK
    BY <1>4, <2>2, <2>3 DEF CacheTypeOK, FlowOK, EntryOK, StoreOK, BreakerOK, RestOK
  <2>. QED  BY <2>1, <2>4 DEF CacheShape
<1>. QED  BY <1>1, <1>2, <1>3, <1>4

LEMMA NextShapeParts ==
  /\ CacheShape' <=> FlowOK' /\ EntryOK' /\ PoolOK' /\ StoreOK' /\ BreakerOK' /\ RestOK'
BY ShapeParts, PTL

\* An outcome that is counted leaves the breaker within its bounds.
LEMMA OutcomeCounted ==
  ASSUME BreakerOK, OnFailure \/ OnSuccess
  PROVE  BreakerOK'
<1>. USE BillingCacheAssumption
<1>1. CASE OnSuccess
  BY <1>1 DEF OnSuccess, Closed, BreakerOK
<1>2. CASE OnFailure
  <2>1. CASE breaker.state = "open"
    BY <1>2, <2>1 DEF OnFailure, BreakerOK
  <2>2. CASE breaker.state = "halfOpen"
    <3>1. breaker' = [breaker EXCEPT !.state = "open", !.slots = 0]
      BY <1>2, <2>2 DEF OnFailure
    <3>2. breaker' = [state |-> "open", failures |-> breaker.failures, slots |-> 0]
      BY <3>1 DEF BreakerOK
    <3>3. breaker.failures \in 0 .. Threshold /\ 0 \in 0 .. Slots
      BY DEF BreakerOK
    <3>. QED  BY <3>2, <3>3 DEF BreakerOK
  <2>3. CASE breaker.state = "closed"
    BY <1>2, <2>3 DEF OnFailure, BreakerOK
  <2>. QED  BY <2>1, <2>2, <2>3 DEF BreakerOK
<1>. QED  BY <1>1, <1>2

\* A request that has nothing to hand over goes on to another such step.
LEMMA MoveKeepsFlow ==
  ASSUME FlowOK, NEW p \in Calls, NEW x \in Stages, MoveTo(p, x),
         at[p] \notin {"offer", "send", "fallback"}, x \notin {"offer", "send", "fallback"},
         x = "load" => (kind # "balance" \/ ~ \E q \in Calls : InFlight(q)),
         x = "wait" => kind = "balance"
  PROVE  FlowOK'
<1>1. kind' = kind /\ task' = task /\ at' = [at EXCEPT ![p] = x]
  BY DEF MoveTo, setup
<1>2. at' \in [Calls -> Stages] /\ task' \in [Calls -> Carried \cup {Nil}] /\ kind' \in Kinds
  BY <1>1 DEF FlowOK
<1>3. CallsOK'
  BY <1>1 DEF FlowOK, CallsOK
<1>4. \A q \in Calls : InFlight(q)' => InFlight(q) \/ (q = p /\ x = "load")
  BY <1>1 DEF FlowOK, InFlight
<1>5. Alone'
  BY <1>1, <1>4 DEF FlowOK, Alone
<1>. QED  BY <1>2, <1>3, <1>5 DEF FlowOK

\* What a request hands over goes from one place to the next.
LEMMA HandingKeepsFlow ==
  ASSUME FlowOK, NEW p \in Calls, NEW x \in {"send", "fallback"}, MoveTo(p, x),
         at[p] \in {"offer", "send"}, x = "fallback" => task[p].op # "set"
  PROVE  FlowOK'
<1>1. kind' = kind /\ task' = task /\ at' = [at EXCEPT ![p] = x]
  BY DEF MoveTo, setup
<1>2. at' \in [Calls -> Stages] /\ task' \in [Calls -> Carried \cup {Nil}] /\ kind' \in Kinds
  BY <1>1 DEF FlowOK, Stages
<1>3. CallsOK'
  <2>1. task[p] # Nil /\ task[p] \in Carried \cup {Nil}
    BY DEF FlowOK, CallsOK
  <2>2. x = "fallback" => task[p] = Deductions
    BY <2>1, TaskKinds
  <2>. QED  BY <1>1, <2>1, <2>2 DEF FlowOK, CallsOK
<1>4. \A q \in Calls : InFlight(q)' => InFlight(q)
  BY <1>1 DEF FlowOK, InFlight
<1>5. Alone'
  BY <1>1, <1>4 DEF FlowOK, Alone
<1>. QED  BY <1>2, <1>3, <1>5 DEF FlowOK

\* A request is rid of what it handed over, and nobody who waited for it waits on.
LEMMA DoneKeepsFlow ==
  ASSUME FlowOK, NEW p \in Calls, task[p] # Nil, UNCHANGED kind,
         task' = [task EXCEPT ![p] = Nil], at' \in [Calls -> Stages],
         at'[p] \in {"idle", "serve"},
         \A q \in Calls \ {p} : at'[q] = at[q] \/ (at[q] = "wait" /\ at'[q] \in {"idle", "serve"})
  PROVE  FlowOK'
<1>1. task' \in [Calls -> Carried \cup {Nil}] /\ kind' \in Kinds
  BY DEF FlowOK
<1>2. CallsOK'
  BY DEF FlowOK, CallsOK
<1>3. \A q \in Calls : InFlight(q)' => InFlight(q)
  BY DEF FlowOK, InFlight
<1>4. Alone'
  BY <1>3 DEF FlowOK, Alone
<1>. QED  BY <1>1, <1>2, <1>4 DEF FlowOK

\* A request gets something to hand over.
LEMMA TaskKeepsFlow ==
  ASSUME FlowOK, NEW p \in Calls, NEW t \in Carried, UNCHANGED kind,
         task' = [task EXCEPT ![p] = t], at' = [at EXCEPT ![p] = "offer"],
         at[p] = "load" \/ t = Deductions
  PROVE  FlowOK'
<1>1. /\ task' \in [Calls -> Carried \cup {Nil}] /\ kind' \in Kinds /\ at' \in [Calls -> Stages]
      /\ t # Nil
  BY TaskKinds DEF FlowOK, Stages
<1>2. CallsOK'
  BY <1>1 DEF FlowOK, CallsOK
<1>3. \A q \in Calls : InFlight(q)' => InFlight(q)
  BY TaskKinds DEF FlowOK, InFlight
<1>4. Alone'
  BY <1>3 DEF FlowOK, Alone
<1>. QED  BY <1>1, <1>2, <1>4 DEF FlowOK

\* A write is carried out, or fails, in Redis.
LEMMA PerformKeepsEntry ==
  ASSUME EntryOK, NEW t \in Carried, Perform(t)
  PROVE  EntryOK'
<1>. USE BillingCacheAssumption
<1>1. CASE UNCHANGED entry
  BY <1>1 DEF entry, EntryOK
<1>2. CASE /\ cached' = IF t.op = "set" THEN t.v ELSE IF cached = Nil THEN Nil ELSE cached - t.v
           /\ fresh' = (cached' # Nil)
  <2>1. cached' \in Int \cup {Nil} /\ (cached' # Nil => cached' <= Limit)
    BY <1>2, TaskKinds, Places DEF EntryOK
  <2>2. fresh' \in BOOLEAN
    <3>1. CASE cached' = Nil
      BY <1>2, <3>1
    <3>2. CASE cached' # Nil
      BY <1>2, <3>2
    <3>. QED  BY <3>1, <3>2
  <2>. QED  BY <2>1, <2>2 DEF EntryOK
<1>. QED  BY <1>1, <1>2 DEF Perform

\* A load ends, with its value queued or dropped, for all who wait for it.
LEMMA LoadedKeepsFlow ==
  ASSUME FlowOK, BreakerOK, NEW p \in Calls, task[p] # Nil, at[p] \in {"offer", "send"}, Loaded(p)
  PROVE  FlowOK' /\ BreakerOK'
<1>1. /\ at' = [q \in Calls |-> IF q = p \/ at[q] = "wait" THEN Verdict(task[p].v) ELSE at[q]]
      /\ task' = [task EXCEPT ![p] = Nil] /\ kind' = kind /\ OnSuccess
  BY DEF Loaded, setup
<1>2. Verdict(task[p].v) \in {"idle", "serve"}
  BY DEF Verdict
<1>3. at' \in [Calls -> Stages]
  BY <1>1, <1>2 DEF FlowOK, Stages
<1>4. FlowOK'
  BY <1>1, <1>2, <1>3, DoneKeepsFlow
<1>. QED  BY <1>1, <1>4, OutcomeCounted

\* The request whose deduction has been handed over, or made, is over.
LEMMA FinishKeepsFlow ==
  ASSUME FlowOK, NEW p \in Calls, task[p] # Nil, Finish(p)
  PROVE  FlowOK'
<1>1. /\ at' = [at EXCEPT ![p] = "idle"]
      /\ task' = [task EXCEPT ![p] = Nil] /\ kind' = kind
  BY DEF Finish, setup
<1>2. at' \in [Calls -> Stages] /\ at'[p] = "idle" /\ \A q \in Calls \ {p} : at'[q] = at[q]
  BY <1>1 DEF FlowOK, Stages
<1>. QED  BY <1>1, <1>2, DoneKeepsFlow

\* A request's task is replaced, or a worker's.
LEMMA TaskSwapped ==
  ASSUME CacheShape, NEW p \in Calls, NEW v, NEW T
  PROVE  /\ Num([task EXCEPT ![p] = v], T) = Num(task, T) - One(task[p], T) + One(v, T)
         /\ Num([task EXCEPT ![p] = v], T) \in Nat /\ Num(task, T) \in Nat
<1>1. task \in [Calls -> Tasks \cup {Nil}] /\ IsFiniteSet(Calls)
  BY Places DEF CacheShape, CacheTypeOK
<1>2. DOMAIN [task EXCEPT ![p] = v] = Calls /\ DOMAIN task = Calls
  BY <1>1
<1>3. Num([task EXCEPT ![p] = v], T) \in Nat
  BY <1>1, <1>2, NumIsNat
<1>4. Num(task, T) \in Nat
  BY <1>1, <1>2, NumIsNat
<1>5. Num([task EXCEPT ![p] = v], T) = Num(task, T) - One(task[p], T) + One(v, T)
  <2>. DEFINE g == [task EXCEPT ![p] = v]
  <2>1. /\ IsFiniteSet(DOMAIN task) /\ p \in DOMAIN task /\ DOMAIN g = DOMAIN task /\ g[p] = v
        /\ \A y \in DOMAIN task \ {p} : g[y] = task[y]
    BY <1>1, <1>2
  <2>. HIDE DEF g
  <2>2. Num(g, T) = Num(task, T) - One(task[p], T) + One(v, T)
    BY <2>1, NumExcept
  <2>. QED  BY <2>2 DEF g
<1>. QED  BY <1>3, <1>4, <1>5

LEMMA HandSwapped ==
  ASSUME CacheShape, NEW w \in Workers, NEW v, NEW T
  PROVE  /\ Num([hand EXCEPT ![w] = v], T) = Num(hand, T) - One(hand[w], T) + One(v, T)
         /\ Num([hand EXCEPT ![w] = v], T) \in Nat /\ Num(hand, T) \in Nat
<1>1. hand \in [Workers -> Tasks \cup {Nil}] /\ IsFiniteSet(Workers)
  BY Places DEF CacheShape, CacheTypeOK
<1>2. DOMAIN [hand EXCEPT ![w] = v] = Workers /\ DOMAIN hand = Workers
  BY <1>1
<1>3. Num([hand EXCEPT ![w] = v], T) \in Nat
  BY <1>1, <1>2, NumIsNat
<1>4. Num(hand, T) \in Nat
  BY <1>1, <1>2, NumIsNat
<1>5. Num([hand EXCEPT ![w] = v], T) = Num(hand, T) - One(hand[w], T) + One(v, T)
  <2>. DEFINE g == [hand EXCEPT ![w] = v]
  <2>1. /\ IsFiniteSet(DOMAIN hand) /\ w \in DOMAIN hand /\ DOMAIN g = DOMAIN hand /\ g[w] = v
        /\ \A y \in DOMAIN hand \ {w} : g[y] = hand[y]
    BY <1>1, <1>2
  <2>. HIDE DEF g
  <2>2. Num(g, T) = Num(hand, T) - One(hand[w], T) + One(v, T)
    BY <2>1, NumExcept
  <2>. QED  BY <2>2 DEF g
<1>. QED  BY <1>3, <1>4, <1>5

\* Which tasks count as a value to spend, and which as a deduction.
LEMMA Counted ==
  /\ One(Nil, Positives) = 0 /\ One(Nil, {Deductions}) = 0
  /\ One(Deductions, Positives) = 0 /\ One(Deductions, {Deductions}) = 1
  /\ \A t \in Carried : t.op = "set" => /\ One(t, {Deductions}) = 0
                                        /\ One(t, Positives) = IF t.v > 0 THEN 1 ELSE 0
BY BillingCacheAssumption, TaskKinds DEF One, Positives, Tasks, Deductions

\* A deduction on its way is owed.
LEMMA Owed ==
  ASSUME CacheShape, Owing
  PROVE  /\ \A p \in Calls : task[p] = Deductions => owed >= 1 /\ Debits >= 1
         /\ \A w \in Workers : hand[w] = Deductions => owed >= 1 /\ Debits >= 1
         /\ \A p \in Calls : task[p] \in Positives => Values >= 1
         /\ \A w \in Workers : hand[w] \in Positives => Values >= 1
<1>0. owed \in Nat /\ Debits <= owed /\ Debits \in Nat
  BY Counts DEF Owing, CacheShape, CacheTypeOK
<1>1. \A T : Num(queue, T) \in Nat /\ Num(hand, T) \in Nat /\ Num(task, T) \in Nat
  BY Counts, NumIsNat, Places
<1>2. /\ Debits = Num(queue, {Deductions}) + Num(hand, {Deductions}) + Num(task, {Deductions})
      /\ Values = Num(queue, Positives) + Num(hand, Positives) + Num(task, Positives)
  BY DEF Debits, Values, OnWay
<1>3. ASSUME NEW p \in Calls, NEW T, task[p] \in T, Nil \notin T PROVE Num(task, T) >= 1
  <2>1. One(task[p], T) = 1 /\ One(Nil, T) = 0
    BY <1>3 DEF One
  <2>2. /\ Num([task EXCEPT ![p] = Nil], T) = Num(task, T) - 1 + 0
        /\ Num([task EXCEPT ![p] = Nil], T) \in Nat
    BY <2>1, TaskSwapped
  <2>. QED  BY <2>2, <1>1
<1>4. ASSUME NEW w \in Workers, NEW T, hand[w] \in T, Nil \notin T PROVE Num(hand, T) >= 1
  <2>1. One(hand[w], T) = 1 /\ One(Nil, T) = 0
    BY <1>4 DEF One
  <2>2. /\ Num([hand EXCEPT ![w] = Nil], T) = Num(hand, T) - 1 + 0
        /\ Num([hand EXCEPT ![w] = Nil], T) \in Nat
    BY <2>1, HandSwapped
  <2>. QED  BY <2>2, <1>1
<1>5. Nil \notin {Deductions} /\ Nil \notin Positives
  BY BillingCacheAssumption, TaskKinds DEF Positives
<1>6. /\ \A p \in Calls : task[p] = Deductions => Num(task, {Deductions}) >= 1
      /\ \A w \in Workers : hand[w] = Deductions => Num(hand, {Deductions}) >= 1
      /\ \A p \in Calls : task[p] \in Positives => Num(task, Positives) >= 1
      /\ \A w \in Workers : hand[w] \in Positives => Num(hand, Positives) >= 1
  BY <1>3, <1>4, <1>5
<1>7. /\ \A T : Num(queue, T) >= 0 /\ Num(hand, T) >= 0 /\ Num(task, T) >= 0
      /\ Num(queue, Positives) \in Nat /\ Num(hand, Positives) \in Nat /\ Num(task, Positives) \in Nat
      /\ Num(queue, {Deductions}) \in Nat /\ Num(hand, {Deductions}) \in Nat
      /\ Num(task, {Deductions}) \in Nat
  BY <1>1
<1>8. ASSUME NEW p \in Calls, task[p] = Deductions PROVE owed >= 1 /\ Debits >= 1
  <2>1. Num(task, {Deductions}) >= 1
    BY <1>6, <1>8
  <2>2. Debits >= 1
    BY <1>2, <1>7, <2>1
  <2>. QED  BY <1>0, <2>2
<1>9. ASSUME NEW w \in Workers, hand[w] = Deductions PROVE owed >= 1 /\ Debits >= 1
  <2>1. Num(hand, {Deductions}) >= 1
    BY <1>6, <1>9
  <2>2. Debits >= 1
    BY <1>2, <1>7, <2>1
  <2>. QED  BY <1>0, <2>2
<1>10. ASSUME NEW p \in Calls, task[p] \in Positives PROVE Values >= 1
  BY <1>2, <1>6, <1>7, <1>10
<1>11. ASSUME NEW w \in Workers, hand[w] \in Positives PROVE Values >= 1
  BY <1>2, <1>6, <1>7, <1>11
<1>. QED  BY <1>8, <1>9, <1>10, <1>11

\* The types, and what is carried, handed over and counted, hold after every step.
LEMMA ShapeStep == CacheShape /\ Owing /\ [CacheNext]_cacheVars => CacheShape'
<1>. SUFFICES ASSUME CacheShape, Owing, [CacheNext]_cacheVars PROVE CacheShape'
  OBVIOUS
<1>. USE BillingCacheAssumption
<1>0. FlowOK /\ EntryOK /\ PoolOK /\ StoreOK /\ BreakerOK /\ RestOK
  BY ShapeParts
<1>f. UNCHANGED <<setup, flow>> => FlowOK'
  BY <1>0 DEF setup, flow, FlowOK, CallsOK, Alone, InFlight
<1>e. UNCHANGED entry => EntryOK'
  BY <1>0 DEF entry, EntryOK
<1>p. UNCHANGED <<queue, hand>> => PoolOK'
  BY <1>0 DEF PoolOK
<1>s. UNCHANGED store => StoreOK'
  BY <1>0 DEF store, StoreOK
<1>b. UNCHANGED breaker => BreakerOK'
  BY <1>0 DEF BreakerOK
<1>r. UNCHANGED <<faults, owed, service, dbDown, panicked>> => RestOK'
  BY <1>0 DEF RestOK
<1>1. ASSUME NEW p \in Calls, Allow(p) PROVE CacheShape'
  <2>1. EntryOK' /\ PoolOK' /\ StoreOK' /\ RestOK'
    BY <1>1, <1>e, <1>p, <1>s, <1>r DEF Allow, MoveTo, setup, entry, pool, store
  <2>2. FlowOK'
    BY <1>0, <1>1, MoveKeepsFlow DEF Allow, Stages
  <2>3. BreakerOK'
    <3>1. CASE breaker.state = "closed" /\ UNCHANGED breaker
      BY <3>1, <1>b
    <3>2. CASE breaker.state = "open" /\ breaker' = [breaker EXCEPT !.state = "halfOpen", !.slots = Slots - 1]
      <4>1. breaker' = [state |-> "halfOpen", failures |-> breaker.failures, slots |-> Slots - 1]
        BY <1>0, <3>2 DEF BreakerOK
      <4>2. breaker.failures \in 0 .. Threshold /\ Slots - 1 \in 0 .. Slots
        BY <1>0 DEF BreakerOK
      <4>. QED  BY <4>1, <4>2 DEF BreakerOK
    <3>3. CASE breaker.state = "halfOpen" /\ breaker.slots > 0 /\ breaker' = [breaker EXCEPT !.slots = @ - 1]
      <4>1. breaker' = [state |-> "halfOpen", failures |-> breaker.failures, slots |-> breaker.slots - 1]
        BY <1>0, <3>3 DEF BreakerOK
      <4>2. breaker.failures \in 0 .. Threshold /\ breaker.slots - 1 \in 0 .. Slots
        BY <1>0, <3>3 DEF BreakerOK
      <4>. QED  BY <4>1, <4>2 DEF BreakerOK
    <3>. QED  BY <1>1, <3>1, <3>2, <3>3 DEF Allow
  <2>. QED  BY <2>1, <2>2, <2>3, NextShapeParts
<1>2. ASSUME NEW p \in Calls, Lookup(p) PROVE CacheShape'
  <2>1. EntryOK' /\ PoolOK' /\ StoreOK' /\ RestOK'
    BY <1>2, <1>e, <1>p, <1>s, <1>r DEF Lookup, MoveTo, setup, entry, pool, store
  <2>2. CASE cached # Nil /\ MoveTo(p, Verdict(cached)) /\ OnSuccess
    <3>1. Verdict(cached) \in {"serve", "idle"}
      BY DEF Verdict
    <3>2. FlowOK'
      BY <1>0, <1>2, <2>2, <3>1, MoveKeepsFlow DEF Lookup, Stages
    <3>. QED  BY <1>0, <2>1, <2>2, <3>2, OutcomeCounted, NextShapeParts
  <2>3. CASE /\ MoveTo(p, IF kind = "balance" /\ \E q \in Calls : InFlight(q) THEN "wait" ELSE "load")
             /\ UNCHANGED breaker
    <3>1. CASE kind = "balance" /\ \E q \in Calls : InFlight(q)
      <4>1. MoveTo(p, "wait")
        BY <2>3, <3>1
      <4>2. FlowOK'
        BY <1>0, <1>2, <3>1, <4>1, MoveKeepsFlow DEF Lookup, Stages
      <4>. QED  BY <2>1, <2>3, <1>b, <4>2, NextShapeParts
    <3>2. CASE ~ (kind = "balance" /\ \E q \in Calls : InFlight(q))
      <4>1. MoveTo(p, "load")
        BY <2>3, <3>2
      <4>2. FlowOK'
        BY <1>0, <1>2, <3>2, <4>1, MoveKeepsFlow DEF Lookup, Stages
      <4>. QED  BY <2>1, <2>3, <1>b, <4>2, NextShapeParts
    <3>. QED  BY <3>1, <3>2
  <2>. QED  BY <1>2, <2>2, <2>3 DEF Lookup
<1>3. ASSUME NEW p \in Calls, Load(p) PROVE CacheShape'
  <2>1. EntryOK' /\ PoolOK' /\ StoreOK' /\ RestOK' /\ BreakerOK' /\ kind' = kind
    BY <1>3, <1>e, <1>p, <1>s, <1>r, <1>b DEF Load, setup, entry, pool, store, guard
  <2>2. CASE /\ task' = [task EXCEPT ![p] = [op |-> "set", v |-> left]]
             /\ at' = [at EXCEPT ![p] = "offer"]
    <3>1. [op |-> "set", v |-> left] \in Carried
      BY <1>0 DEF StoreOK, Carried, Tasks, Limit
    <3>2. FlowOK'
      BY <1>0, <1>3, <2>1, <2>2, <3>1, TaskKeepsFlow DEF Load
    <3>. QED  BY <2>1, <3>2, NextShapeParts
  <2>3. CASE /\ at' = [q \in Calls |-> IF q = p \/ at[q] = "wait" THEN "failed" ELSE at[q]]
             /\ UNCHANGED task
    <3>1. at' \in [Calls -> Stages] /\ task' \in [Calls -> Carried \cup {Nil}] /\ kind' \in Kinds
      BY <1>0, <2>1, <2>3 DEF FlowOK, Stages
    <3>2. CallsOK'
      BY <1>0, <1>3, <2>3 DEF FlowOK, CallsOK, Load
    <3>3. \A q \in Calls : InFlight(q)' => InFlight(q)
      BY <1>0, <2>3 DEF FlowOK, InFlight
    <3>4. Alone'
      BY <1>0, <2>1, <2>3, <3>3 DEF FlowOK, Alone
    <3>. QED  BY <2>1, <3>1, <3>2, <3>4, NextShapeParts DEF FlowOK
  <2>. QED  BY <1>3, <2>2, <2>3 DEF Load
<1>4. ASSUME NEW p \in Calls, Fail(p) PROVE CacheShape'
  <2>1. EntryOK' /\ PoolOK' /\ StoreOK' /\ RestOK'
    BY <1>4, <1>e, <1>p, <1>s, <1>r DEF Fail, MoveTo, setup, entry, pool, store
  <2>2. FlowOK'
    BY <1>0, <1>4, MoveKeepsFlow DEF Fail, Stages
  <2>3. BreakerOK'
    BY <1>0, <1>4, OutcomeCounted DEF Fail
  <2>. QED  BY <2>1, <2>2, <2>3, NextShapeParts
<1>5. ASSUME NEW p \in Calls, Charge(p) PROVE CacheShape'
  <2>1. EntryOK' /\ PoolOK' /\ BreakerOK' /\ kind' = kind
    BY <1>5, <1>e, <1>p, <1>b DEF Charge, setup, entry, pool, guard
  <2>2. StoreOK' /\ RestOK'
    BY <1>0, <1>5 DEF Charge, StoreOK, RestOK, setup, pool, guard
  <2>3. FlowOK'
    BY <1>0, <1>5, <2>1, TaskKinds, TaskKeepsFlow DEF Charge, Deductions
  <2>. QED  BY <2>1, <2>2, <2>3, NextShapeParts
<1>6. ASSUME NEW p \in Calls, at[p] \in {"offer", "send"} PROVE task[p] # Nil /\ task[p] \in Carried
  BY <1>0, <1>6 DEF FlowOK, CallsOK
<1>7. ASSUME NEW p \in Calls, at[p] \in {"offer", "send"}, Refused(p) PROVE FlowOK' /\ BreakerOK'
  <2>1. CASE task[p].op = "set"
    BY <1>0, <1>6, <1>7, <2>1, LoadedKeepsFlow DEF Refused
  <2>2. CASE task[p].op # "set"
    <3>1. MoveTo(p, "fallback") /\ UNCHANGED breaker
      BY <1>7, <2>2 DEF Refused
    <3>. QED  BY <1>0, <1>7, <2>2, <3>1, <1>b, HandingKeepsFlow
  <2>. QED  BY <2>1, <2>2
<1>8. ASSUME NEW p \in Calls, Refused(p) PROVE UNCHANGED <<kind, faults>>
  BY <1>8 DEF Refused, Loaded, MoveTo, setup
<1>9. ASSUME NEW p \in Calls, Offer(p) PROVE CacheShape'
  <2>1. EntryOK' /\ PoolOK' /\ StoreOK' /\ RestOK'
    BY <1>8, <1>9, <1>e, <1>p, <1>s, <1>r DEF Offer, MoveTo, setup, entry, pool, store
  <2>2. FlowOK' /\ BreakerOK'
    <3>1. CASE service = "running"
      BY <1>0, <1>9, <3>1, <1>b, HandingKeepsFlow DEF Offer
    <3>2. CASE service # "running"
      BY <1>7, <1>9, <3>2 DEF Offer
    <3>. QED  BY <3>1, <3>2
  <2>. QED  BY <2>1, <2>2, NextShapeParts
<1>10. ASSUME NEW p \in Calls, Send(p) PROVE CacheShape'
  <2>0. at[p] = "send" /\ UNCHANGED <<hand, service, owed, dbDown>>
    BY <1>10 DEF Send
  <2>1. EntryOK' /\ StoreOK'
    BY <1>10, <1>e, <1>s DEF Send, entry, store
  <2>2. CASE /\ Len(queue) < QueueSize
             /\ queue' = Append(queue, task[p])
             /\ IF task[p].op = "set" THEN Loaded(p) ELSE Finish(p)
             /\ UNCHANGED panicked
    <3>1. FlowOK' /\ BreakerOK'
      <4>1. CASE task[p].op = "set"
        BY <1>0, <1>6, <2>0, <2>2, <4>1, LoadedKeepsFlow
      <4>2. CASE task[p].op # "set"
        <5>1. Finish(p) /\ UNCHANGED breaker
          BY <2>2, <4>2 DEF Finish
        <5>. QED  BY <1>0, <1>6, <2>0, <5>1, <1>b, FinishKeepsFlow
      <4>. QED  BY <4>1, <4>2
    <3>2. PoolOK'
      BY <1>0, <1>6, <2>0, <2>2 DEF PoolOK
    <3>3. RestOK'
      BY <2>0, <2>2, <1>r DEF Loaded, Finish, setup
    <3>. QED  BY <2>1, <3>1, <3>2, <3>3, NextShapeParts
  <2>3. CASE Refused(p) /\ UNCHANGED <<queue, panicked>>
    <3>1. FlowOK' /\ BreakerOK'
      BY <1>7, <2>0, <2>3
    <3>2. PoolOK' /\ RestOK'
      BY <1>8, <2>0, <2>3, <1>p, <1>r
    <3>. QED  BY <2>1, <3>1, <3>2, NextShapeParts
  <2>4. CASE /\ service = "closed" /\ panicked' = TRUE
             /\ at' = [q \in Calls |-> IF q = p \/ (task[p].op = "set" /\ at[q] = "wait") THEN "idle" ELSE at[q]]
             /\ task' = [task EXCEPT ![p] = Nil]
             /\ UNCHANGED <<queue, setup, breaker>>
    <3>1. at' \in [Calls -> Stages] /\ kind' = kind
      BY <1>0, <2>4 DEF FlowOK, Stages, setup
    <3>2. FlowOK'
      BY <1>0, <1>6, <2>0, <2>4, <3>1, DoneKeepsFlow
    <3>3. PoolOK' /\ BreakerOK'
      BY <2>0, <2>4, <1>p, <1>b
    <3>4. RestOK'
      BY <1>0, <2>0, <2>4 DEF RestOK, setup
    <3>. QED  BY <2>1, <3>2, <3>3, <3>4, NextShapeParts
  <2>. QED  BY <1>10, <2>2, <2>3, <2>4 DEF Send
<1>11. ASSUME NEW p \in Calls, Fallback(p) PROVE CacheShape'
  <2>1. at[p] = "fallback" /\ task[p] \in Carried /\ task[p] # Nil
    BY <1>0, <1>11 DEF Fallback, FlowOK, CallsOK
  <2>2. EntryOK'
    BY <1>0, <1>11, <2>1, PerformKeepsEntry DEF Fallback
  <2>3. FlowOK' /\ BreakerOK'
    BY <1>0, <1>11, <2>1, <1>b, FinishKeepsFlow DEF Fallback, Finish
  <2>4. PoolOK' /\ StoreOK'
    BY <1>11, <1>p, <1>s DEF Fallback, pool, store
  <2>5. owed >= 1
    BY <1>0, <1>11, Owed DEF Fallback, FlowOK, CallsOK
  <2>6. RestOK'
    BY <1>0, <1>11, <2>5 DEF Fallback, Finish, RestOK, setup, pool
  <2>. QED  BY <2>2, <2>3, <2>4, <2>6, NextShapeParts
<1>12. ASSUME NEW w \in Workers, Take(w) PROVE CacheShape'
  <2>1. FlowOK' /\ EntryOK' /\ StoreOK' /\ BreakerOK' /\ RestOK'
    BY <1>12, <1>f, <1>e, <1>s, <1>b, <1>r DEF Take, setup, store, entry, flow, guard
  <2>2. Head(queue) \in Carried /\ Tail(queue) \in Seq(Carried) /\ Len(Tail(queue)) <= QueueSize
    BY <1>0, <1>12 DEF Take, PoolOK
  <2>3. PoolOK'
    BY <1>0, <1>12, <2>2 DEF Take, PoolOK
  <2>. QED  BY <2>1, <2>3, NextShapeParts
<1>13. ASSUME NEW w \in Workers, Write(w) PROVE CacheShape'
  <2>1. FlowOK' /\ StoreOK' /\ BreakerOK'
    BY <1>13, <1>f, <1>s, <1>b DEF Write, setup, store, flow, guard
  <2>2. hand[w] \in Carried
    BY <1>0, <1>13 DEF Write, PoolOK
  <2>3. EntryOK'
    BY <1>0, <1>13, <2>2, PerformKeepsEntry DEF Write
  <2>4. PoolOK'
    BY <1>0, <1>13 DEF Write, PoolOK
  <2>5. hand[w].op = "deduct" => owed >= 1
    BY <2>2, TaskKinds, Owed
  <2>6. RestOK'
    BY <1>0, <1>13, <2>5 DEF Write, RestOK, setup, guard
  <2>. QED  BY <2>1, <2>3, <2>4, <2>6, NextShapeParts
<1>14. CASE TopUp
  <2>1. FlowOK' /\ EntryOK' /\ PoolOK' /\ BreakerOK' /\ RestOK'
    BY <1>14, <1>f, <1>e, <1>p, <1>b, <1>r DEF TopUp, setup, entry, pool, flow, guard
  <2>2. StoreOK'
    BY <1>0, <1>14 DEF TopUp, StoreOK
  <2>. QED  BY <2>1, <2>2, NextShapeParts
<1>15. CASE Invalidate
  <2>1. FlowOK' /\ PoolOK' /\ BreakerOK' /\ RestOK'
    BY <1>15, <1>f, <1>p, <1>b, <1>r DEF Invalidate, setup, pool, flow, guard
  <2>2. StoreOK'
    BY <1>0, <1>15 DEF Invalidate, StoreOK
  <2>3. EntryOK'
    BY <1>15, <1>e DEF Invalidate, EntryOK
  <2>. QED  BY <2>1, <2>2, <2>3, NextShapeParts
<1>16. CASE Tick \/ Expire
  <2>1. FlowOK' /\ PoolOK' /\ StoreOK' /\ BreakerOK' /\ RestOK'
    BY <1>16, <1>f, <1>p, <1>s, <1>b, <1>r DEF Tick, Expire, setup, store, pool, flow, guard
  <2>2. EntryOK'
    BY <1>0, <1>16 DEF Tick, Expire, EntryOK
  <2>. QED  BY <2>1, <2>2, NextShapeParts
<1>17. CASE DbRecovers \/ Stop
  <2>1. FlowOK' /\ EntryOK' /\ PoolOK' /\ StoreOK' /\ BreakerOK'
    BY <1>17, <1>f, <1>e, <1>p, <1>s, <1>b DEF DbRecovers, Stop, setup, store, entry, pool, flow, guard
  <2>2. RestOK'
    <3>1. CASE DbRecovers
      BY <1>0, <3>1 DEF DbRecovers, RestOK, setup, pool
    <3>2. CASE Stop
      BY <1>0, <3>2 DEF Stop, RestOK, setup, guard
    <3>. QED  BY <1>17, <3>1, <3>2
  <2>. QED  BY <2>1, <2>2, NextShapeParts
<1>18. CASE UNCHANGED cacheVars
  BY <1>18, <1>f, <1>e, <1>p, <1>s, <1>b, <1>r, NextShapeParts
  DEF cacheVars, setup, store, entry, pool, flow, guard
<1>. QED
  BY <1>1, <1>2, <1>3, <1>4, <1>5, <1>9, <1>10, <1>11, <1>12, <1>13, <1>14, <1>15, <1>16, <1>17, <1>18
  DEF CacheNext, Proceed

----------------------------------------------------------------------------
(* The billing cache: deductions are carried to the end.                   *)

\* What a step does to the counts, by what it does to the tasks.
LEMMA NoneMoved ==
  ASSUME UNCHANGED <<queue, hand, task>>
  PROVE  Values' = Values /\ Debits' = Debits
BY DEF Values, Debits, OnWay, Num, Marked

LEMMA CallMoved ==
  ASSUME CacheShape, NEW p \in Calls, UNCHANGED <<queue, hand>>,
         NEW v, task' = [task EXCEPT ![p] = v]
  PROVE  /\ Values' = Values - One(task[p], Positives) + One(v, Positives)
         /\ Debits' = Debits - One(task[p], {Deductions}) + One(v, {Deductions})
<1>1. ASSUME NEW T
      PROVE  /\ Num(task, T)' = Num(task, T) - One(task[p], T) + One(v, T)
             /\ Num(queue, T)' = Num(queue, T) /\ Num(hand, T)' = Num(hand, T)
             /\ Num(queue, T) \in Nat /\ Num(hand, T) \in Nat /\ Num(task, T) \in Nat
             /\ One(task[p], T) \in {0, 1} /\ One(v, T) \in {0, 1}
  <2>1. Num(task, T)' = Num([task EXCEPT ![p] = v], T)
    BY DEF Num, Marked
  <2>2. Num(queue, T)' = Num(queue, T) /\ Num(hand, T)' = Num(hand, T)
    BY DEF Num, Marked
  <2>3. Num(queue, T) \in Nat /\ Num(hand, T) \in Nat
    BY Counts, NumIsNat, Places
  <2>4. One(task[p], T) \in {0, 1} /\ One(v, T) \in {0, 1}
    BY DEF One
  <2>. QED  BY <2>1, <2>2, <2>3, <2>4, TaskSwapped
<1>2. Values' = Values - One(task[p], Positives) + One(v, Positives)
  <2>1. /\ Num(task, Positives)' = Num(task, Positives) - One(task[p], Positives) + One(v, Positives)
        /\ Num(queue, Positives)' = Num(queue, Positives) /\ Num(hand, Positives)' = Num(hand, Positives)
        /\ Num(queue, Positives) \in Nat /\ Num(hand, Positives) \in Nat /\ Num(task, Positives) \in Nat
        /\ One(task[p], Positives) \in {0, 1} /\ One(v, Positives) \in {0, 1}
    BY <1>1
  <2>. QED  BY <2>1 DEF Values, OnWay
<1>3. Debits' = Debits - One(task[p], {Deductions}) + One(v, {Deductions})
  <2>. DEFINE D == {Deductions}
  <2>1. /\ Num(task, D)' = Num(task, D) - One(task[p], D) + One(v, D)
        /\ Num(queue, D)' = Num(queue, D) /\ Num(hand, D)' = Num(hand, D)
        /\ Num(queue, D) \in Nat /\ Num(hand, D) \in Nat /\ Num(task, D) \in Nat
        /\ One(task[p], D) \in {0, 1} /\ One(v, D) \in {0, 1}
    BY <1>1
  <2>2. Debits = Num(queue, D) + Num(hand, D) + Num(task, D)
    BY DEF Debits, OnWay
  <2>3. Debits' = Num(queue, D)' + Num(hand, D)' + Num(task, D)'
    BY DEF Debits, OnWay
  <2>4. Debits' = Debits - One(task[p], D) + One(v, D)
    <3>. HIDE DEF D
    <3>. QED  BY <2>1, <2>2, <2>3
  <2>. QED  BY <2>4
<1>. QED  BY <1>2, <1>3

LEMMA WorkerMoved ==
  ASSUME CacheShape, NEW w \in Workers, UNCHANGED <<queue, task>>, hand' = [hand EXCEPT ![w] = Nil]
  PROVE  /\ Values' = Values - One(hand[w], Positives)
         /\ Debits' = Debits - One(hand[w], {Deductions})
<1>1. ASSUME NEW T, Nil \notin T
      PROVE  /\ Num(hand, T)' = Num(hand, T) - One(hand[w], T)
             /\ Num(queue, T)' = Num(queue, T) /\ Num(task, T)' = Num(task, T)
             /\ Num(queue, T) \in Nat /\ Num(hand, T) \in Nat /\ Num(task, T) \in Nat
             /\ One(hand[w], T) \in {0, 1}
  <2>1. Num(hand, T)' = Num([hand EXCEPT ![w] = Nil], T)
    BY DEF Num, Marked
  <2>2. Num(queue, T)' = Num(queue, T) /\ Num(task, T)' = Num(task, T)
    BY DEF Num, Marked
  <2>3. Num(queue, T) \in Nat /\ Num(task, T) \in Nat
    BY Counts, NumIsNat, Places
  <2>4. One(hand[w], T) \in {0, 1} /\ One(Nil, T) = 0
    BY <1>1 DEF One
  <2>5. /\ Num([hand EXCEPT ![w] = Nil], T) = Num(hand, T) - One(hand[w], T) + One(Nil, T)
        /\ Num(hand, T) \in Nat
    BY HandSwapped
  <2>. QED  BY <2>1, <2>2, <2>3, <2>4, <2>5
<1>2. Nil \notin Positives /\ Nil \notin {Deductions}
  BY BillingCacheAssumption, TaskKinds DEF Positives
<1>3. Values' = Values - One(hand[w], Positives)
  <2>1. /\ Num(hand, Positives)' = Num(hand, Positives) - One(hand[w], Positives)
        /\ Num(queue, Positives)' = Num(queue, Positives) /\ Num(task, Positives)' = Num(task, Positives)
        /\ Num(queue, Positives) \in Nat /\ Num(hand, Positives) \in Nat /\ Num(task, Positives) \in Nat
        /\ One(hand[w], Positives) \in {0, 1}
    BY <1>1, <1>2
  <2>. QED  BY <2>1 DEF Values, OnWay
<1>4. Debits' = Debits - One(hand[w], {Deductions})
  <2>. DEFINE D == {Deductions}
  <2>1. /\ Num(hand, D)' = Num(hand, D) - One(hand[w], D)
        /\ Num(queue, D)' = Num(queue, D) /\ Num(task, D)' = Num(task, D)
        /\ Num(queue, D) \in Nat /\ Num(hand, D) \in Nat /\ Num(task, D) \in Nat
        /\ One(hand[w], D) \in {0, 1}
    BY <1>1, <1>2
  <2>2. Debits = Num(queue, D) + Num(hand, D) + Num(task, D)
    BY DEF Debits, OnWay
  <2>3. Debits' = Num(queue, D)' + Num(hand, D)' + Num(task, D)'
    BY DEF Debits, OnWay
  <2>4. Debits' = Debits - One(hand[w], D)
    <3>. HIDE DEF D
    <3>. QED  BY <2>1, <2>2, <2>3
  <2>. QED  BY <2>4
<1>. QED  BY <1>3, <1>4

\* A task that is queued, or taken from the queue, is on its way as before.
LEMMA HandedOn ==
  ASSUME CacheShape, NEW T, Nil \notin T,
         \/ \E p \in Calls : /\ task[p] \in Carried /\ queue' = Append(queue, task[p])
                             /\ task' = [task EXCEPT ![p] = Nil] /\ UNCHANGED hand
         \/ \E w \in Workers : /\ hand[w] = Nil /\ queue # <<>>
                               /\ hand' = [hand EXCEPT ![w] = Head(queue)] /\ queue' = Tail(queue)
                               /\ UNCHANGED task
  PROVE  OnWay(T)' = OnWay(T)
<1>0. queue \in Seq(Carried) /\ One(Nil, T) = 0
  BY ShapeParts DEF PoolOK, One
<1>1. Num(queue, T) \in Nat /\ Num(hand, T) \in Nat /\ Num(task, T) \in Nat
  BY Counts, NumIsNat, Places
<1>2. ASSUME NEW p \in Calls, task[p] \in Carried, queue' = Append(queue, task[p]),
             task' = [task EXCEPT ![p] = Nil], UNCHANGED hand
      PROVE  OnWay(T)' = OnWay(T)
  <2>1. Num(queue, T)' = Num(Append(queue, task[p]), T)
    BY <1>2 DEF Num, Marked
  <2>2. Num(task, T)' = Num([task EXCEPT ![p] = Nil], T)
    BY <1>2 DEF Num, Marked
  <2>3. Num(hand, T)' = Num(hand, T)
    BY <1>2 DEF Num, Marked
  <2>4. Num(Append(queue, task[p]), T) = Num(queue, T) + One(task[p], T)
    BY <1>0, <1>2, NumAppend
  <2>5. Num([task EXCEPT ![p] = Nil], T) = Num(task, T) - One(task[p], T)
    <3>1. One(task[p], T) \in {0, 1}
      BY DEF One
    <3>. QED  BY <1>0, <1>1, <3>1, TaskSwapped
  <2>6. One(task[p], T) \in {0, 1}
    BY DEF One
  <2>. QED  BY <1>1, <2>1, <2>2, <2>3, <2>4, <2>5, <2>6 DEF OnWay
<1>3. ASSUME NEW w \in Workers, hand[w] = Nil, queue # <<>>,
             hand' = [hand EXCEPT ![w] = Head(queue)], queue' = Tail(queue), UNCHANGED task
      PROVE  OnWay(T)' = OnWay(T)
  <2>1. Num(queue, T)' = Num(Tail(queue), T)
    BY <1>3 DEF Num, Marked
  <2>2. Num(hand, T)' = Num([hand EXCEPT ![w] = Head(queue)], T)
    BY <1>3 DEF Num, Marked
  <2>3. Num(task, T)' = Num(task, T)
    BY <1>3 DEF Num, Marked
  <2>4. Num(Tail(queue), T) = Num(queue, T) - One(Head(queue), T)
    BY <1>0, <1>3, NumTail
  <2>5. One(Head(queue), T) \in {0, 1}
    BY DEF One
  <2>6. Num([hand EXCEPT ![w] = Head(queue)], T) = Num(hand, T) - 0 + One(Head(queue), T)
    BY <1>0, <1>3, HandSwapped
  <2>. QED  BY <1>1, <2>1, <2>2, <2>3, <2>4, <2>5, <2>6 DEF OnWay
<1>. QED  BY <1>2, <1>3

LEMMA AllHandedOn ==
  ASSUME CacheShape,
         \/ \E p \in Calls : /\ task[p] \in Carried /\ queue' = Append(queue, task[p])
                             /\ task' = [task EXCEPT ![p] = Nil] /\ UNCHANGED hand
         \/ \E w \in Workers : /\ hand[w] = Nil /\ queue # <<>>
                               /\ hand' = [hand EXCEPT ![w] = Head(queue)] /\ queue' = Tail(queue)
                               /\ UNCHANGED task
  PROVE  Values' = Values /\ Debits' = Debits
<1>1. Nil \notin Positives /\ Nil \notin {Deductions}
  BY BillingCacheAssumption, TaskKinds DEF Positives
<1>2. Values' = OnWay(Positives)' /\ Debits' = OnWay({Deductions})'
  BY DEF Values, Debits
<1>3. OnWay(Positives)' = OnWay(Positives)
  BY <1>1, HandedOn
<1>4. OnWay({Deductions})' = OnWay({Deductions})
  BY <1>1, HandedOn
<1>. QED  BY <1>2, <1>3, <1>4 DEF Values, Debits

\* A load's end takes its value from the tasks, and no deduction.
LEMMA LoadedMoves ==
  ASSUME CacheShape, NEW p \in Calls, at[p] \in {"offer", "send"}, task[p].op = "set", Loaded(p),
         UNCHANGED <<queue, hand>>
  PROVE  Debits' = Debits /\ Values' = Values - One(task[p], Positives)
<1>1. task[p] \in Carried
  BY ShapeParts DEF FlowOK, CallsOK
<1>2. task' = [task EXCEPT ![p] = Nil]
  BY DEF Loaded
<1>3. /\ Values' = Values - One(task[p], Positives) + One(Nil, Positives)
      /\ Debits' = Debits - One(task[p], {Deductions}) + One(Nil, {Deductions})
  BY <1>2, CallMoved
<1>4. One(task[p], {Deductions}) = 0 /\ One(Nil, {Deductions}) = 0 /\ One(Nil, Positives) = 0
  BY <1>1, Counted
<1>5. One(task[p], Positives) \in {0, 1} /\ Values \in Nat /\ Debits \in Nat
  BY Counts DEF One
<1>. QED  BY <1>3, <1>4, <1>5

\* What is refused is a value, or a deduction that goes on to be made at once.
LEMMA RefusedMoves ==
  ASSUME CacheShape, NEW p \in Calls, at[p] \in {"offer", "send"}, Refused(p),
         UNCHANGED <<queue, hand>>
  PROVE  Debits' = Debits
<1>1. CASE task[p].op = "set"
  BY <1>1, LoadedMoves DEF Refused
<1>2. CASE task[p].op # "set"
  BY <1>2, NoneMoved DEF Refused, MoveTo
<1>. QED  BY <1>1, <1>2

\* Every step of a call or a worker keeps what is owed and what is on its way equal; only
\* a panic parts them.
LEMMA OwingStep == CacheShape /\ Owing /\ [CacheNext]_cacheVars => Owing'
<1>. SUFFICES ASSUME CacheShape, Owing, [CacheNext]_cacheVars PROVE Owing'
  OBVIOUS
<1>0. Debits \in Nat /\ owed \in Nat /\ Debits <= owed /\ (panicked \/ owed = Debits)
  BY Counts, ShapeParts DEF RestOK, Owing
<1>q. ASSUME Debits' = Debits, UNCHANGED <<owed, panicked>> PROVE Owing'
  BY <1>q, <1>0 DEF Owing
<1>1. ASSUME NEW p \in Calls, Allow(p) \/ Lookup(p) \/ Fail(p) PROVE Owing'
  <2>1. UNCHANGED <<queue, hand, task, owed, panicked>>
    BY <1>1 DEF Allow, Lookup, Fail, MoveTo, pool
  <2>. QED  BY <2>1, <1>q, NoneMoved
<1>2. ASSUME NEW p \in Calls, Load(p) PROVE Owing'
  <2>1. UNCHANGED <<queue, hand, owed, panicked>> /\ at[p] = "load"
    BY <1>2 DEF Load, pool
  <2>2. CASE UNCHANGED task
    BY <2>1, <2>2, <1>q, NoneMoved
  <2>3. CASE task' = [task EXCEPT ![p] = [op |-> "set", v |-> left]]
    <3>1. task[p] = Nil /\ [op |-> "set", v |-> left] \in Carried
      <4>1. task[p] = Nil
        BY <2>1, ShapeParts DEF FlowOK, CallsOK
      <4>2. [op |-> "set", v |-> left] \in Carried
        BY ShapeParts, BillingCacheAssumption DEF StoreOK, Carried, Tasks, Limit
      <4>. QED  BY <4>1, <4>2
    <3>2. Debits' = Debits - One(Nil, {Deductions}) + One([op |-> "set", v |-> left], {Deductions})
      BY <2>1, <2>3, <3>1, CallMoved
    <3>3. One(Nil, {Deductions}) = 0 /\ One([op |-> "set", v |-> left], {Deductions}) = 0
      BY <3>1, Counted
    <3>. QED  BY <2>1, <3>2, <3>3, <1>0, <1>q
  <2>. QED  BY <1>2, <2>2, <2>3 DEF Load
<1>3. ASSUME NEW p \in Calls, Charge(p) PROVE Owing'
  <2>1. /\ UNCHANGED <<queue, hand, panicked>> /\ at[p] = "serve" /\ owed' = owed + 1
        /\ task' = [task EXCEPT ![p] = Deductions]
    BY <1>3 DEF Charge, pool, Deductions
  <2>2. task[p] = Nil
    BY <2>1, ShapeParts DEF FlowOK, CallsOK
  <2>3. Debits' = Debits - One(Nil, {Deductions}) + One(Deductions, {Deductions})
    BY <2>1, <2>2, CallMoved
  <2>4. Debits' = Debits + 1
    BY <2>3, Counted, <1>0
  <2>. QED  BY <1>0, <2>1, <2>4 DEF Owing
<1>4. ASSUME NEW p \in Calls, Offer(p) PROVE Owing'
  <2>1. UNCHANGED <<queue, hand, owed, panicked>> /\ at[p] = "offer"
    BY <1>4 DEF Offer, pool
  <2>2. CASE service = "running"
    <3>1. UNCHANGED task
      BY <1>4, <2>2 DEF Offer, MoveTo
    <3>. QED  BY <2>1, <3>1, <1>q, NoneMoved
  <2>3. CASE service # "running"
    <3>1. Debits' = Debits
      BY <1>4, <2>1, <2>3, RefusedMoves DEF Offer
    <3>. QED  BY <2>1, <3>1, <1>q
  <2>. QED  BY <2>2, <2>3
<1>5. ASSUME NEW p \in Calls, Send(p) PROVE Owing'
  <2>1. UNCHANGED <<hand, owed>> /\ at[p] = "send" /\ task[p] \in Carried
    BY <1>5, ShapeParts DEF Send, FlowOK, CallsOK
  <2>2. CASE /\ queue' = Append(queue, task[p])
             /\ IF task[p].op = "set" THEN Loaded(p) ELSE Finish(p)
             /\ UNCHANGED panicked
    <3>1. task' = [task EXCEPT ![p] = Nil]
      BY <2>2 DEF Loaded, Finish
    <3>2. Debits' = Debits
      BY <2>1, <2>2, <3>1, AllHandedOn
    <3>. QED  BY <2>1, <2>2, <3>2, <1>q
  <2>3. CASE Refused(p) /\ UNCHANGED <<queue, panicked>>
    <3>1. Debits' = Debits
      BY <2>1, <2>3, RefusedMoves
    <3>. QED  BY <2>1, <2>3, <3>1, <1>q
  <2>4. CASE panicked' = TRUE /\ task' = [task EXCEPT ![p] = Nil] /\ UNCHANGED queue
    <3>1. Debits' = Debits - One(task[p], {Deductions}) + One(Nil, {Deductions})
      BY <2>1, <2>4, CallMoved
    <3>2. One(task[p], {Deductions}) \in {0, 1} /\ One(Nil, {Deductions}) = 0
      BY Counted DEF One
    <3>3. Debits' <= owed
      BY <1>0, <3>1, <3>2
    <3>. QED  BY <2>1, <2>4, <3>3 DEF Owing
  <2>. QED  BY <1>5, <2>2, <2>3, <2>4 DEF Send
<1>6. ASSUME NEW p \in Calls, Fallback(p) PROVE Owing'
  <2>1. /\ UNCHANGED <<queue, hand, panicked>> /\ owed' = owed - 1
        /\ task' = [task EXCEPT ![p] = Nil] /\ at[p] = "fallback"
    BY <1>6 DEF Fallback, Finish, pool
  <2>2. task[p] = Deductions
    BY <2>1, ShapeParts DEF FlowOK, CallsOK
  <2>3. Debits' = Debits - One(Deductions, {Deductions}) + One(Nil, {Deductions})
    BY <2>1, <2>2, CallMoved
  <2>4. Debits' = Debits - 1
    BY <2>3, Counted, <1>0
  <2>. QED  BY <1>0, <2>1, <2>4 DEF Owing
<1>7. ASSUME NEW w \in Workers, Take(w) PROVE Owing'
  <2>1. Debits' = Debits /\ UNCHANGED <<owed, panicked>>
    BY <1>7, AllHandedOn DEF Take, flow
  <2>. QED  BY <2>1, <1>q
<1>8. ASSUME NEW w \in Workers, Write(w) PROVE Owing'
  <2>1. /\ UNCHANGED <<queue, task, panicked>> /\ hand' = [hand EXCEPT ![w] = Nil]
        /\ owed' = IF hand[w].op = "deduct" THEN owed - 1 ELSE owed
        /\ hand[w] \in Carried
    BY <1>8, ShapeParts DEF Write, PoolOK, flow
  <2>2. Debits' = Debits - One(hand[w], {Deductions})
    BY <2>1, WorkerMoved
  <2>3. CASE hand[w] = Deductions
    <3>1. One(hand[w], {Deductions}) = 1 /\ owed' = owed - 1
      BY <2>1, <2>3, Counted DEF Deductions
    <3>. QED  BY <1>0, <2>1, <2>2, <3>1 DEF Owing
  <2>4. CASE hand[w] # Deductions
    <3>1. One(hand[w], {Deductions}) = 0 /\ owed' = owed
      BY <2>1, <2>4, Counted, TaskKinds
    <3>. QED  BY <1>0, <2>1, <2>2, <3>1 DEF Owing
  <2>. QED  BY <2>3, <2>4
<1>9. CASE TopUp \/ Invalidate \/ Tick \/ Expire \/ DbRecovers \/ Stop \/ UNCHANGED cacheVars
  <2>1. UNCHANGED <<queue, hand, task, owed, panicked>>
    BY <1>9 DEF TopUp, Invalidate, Tick, Expire, DbRecovers, Stop, cacheVars, pool, flow
  <2>. QED  BY <2>1, <1>q, NoneMoved
<1>. QED
  BY <1>1, <1>2, <1>3, <1>4, <1>5, <1>6, <1>7, <1>8, <1>9 DEF CacheNext, Proceed

\* Deductions are not dropped: until a sender panics, every deduction made in the database
\* and not yet in Redis is in the queue, with a worker or with its request, whether the
\* queue is full, Redis fails or the service is being stopped (enqueueCacheWrite and the
\* synchronous fallback of QueueDeductBalance).
THEOREM NoDeductionIsDropped == CacheSpec => []NoDeductionDropped
<1>. DEFINE Inv == CacheShape /\ Owing
<1>1. CacheInit => Inv
  BY CacheInitHolds DEF CacheInv
<1>2. Inv /\ [CacheNext]_cacheVars => Inv'
  BY ShapeStep, OwingStep
<1>3. Inv => NoDeductionDropped
  BY SameDebits DEF CacheShape, Owing, NoDeductionDropped
<1>. QED  BY <1>1, <1>2, <1>3, PTL DEF CacheSpec

----------------------------------------------------------------------------
(* The billing cache: the overdraft is bounded.                            *)

Numbers ==
  /\ Values \in Nat /\ Debits \in Nat /\ Shown \in Nat /\ Shown <= Limit
  /\ Cardinality(Serving) \in Nat /\ Cardinality(Hopeful) \in Nat
  /\ Cardinality(Hopeful) <= Cardinality(Calls)
  /\ Cardinality(Serving) + Debits + Values <= OnTheirWay

LEMMA NextCounts ==
  CacheShape' =>
    /\ Values' \in Nat /\ Debits' \in Nat /\ Shown' \in Nat /\ Shown' <= Limit
    /\ Cardinality(Serving)' \in Nat /\ Cardinality(Hopeful)' \in Nat
    /\ Cardinality(Hopeful)' <= Cardinality(Calls)
    /\ Cardinality(Serving)' + Debits' + Values' <= OnTheirWay
<1>1. CacheShape => Numbers
  BY Counts, PlacesSuffice DEF Numbers
<1>2. CacheShape' => Numbers'
  BY <1>1, PTL
<1>. QED  BY <1>2 DEF Numbers

\* The allowance after a step, from the numbers it depends on.
LEMMA NextAllowance ==
  Allowance' = Room(Shown', Values', Debits', Cardinality(Serving)', Cardinality(Hopeful)')
BY DEF Allowance, Room

\* A step that charges nothing and does not raise the allowance keeps to the budget.
LEMMA NoCharge ==
  ASSUME Budget, CacheShape, CacheShape', faults' = faults, left' >= left,
         Allowance' <= Allowance
  PROVE  Budget'
<1>1. left \in Int /\ left' \in Int /\ OnTheirWay * Weight \in Nat
  BY Places, Product, ShapeParts, NextShapeParts DEF StoreOK
<1>2. Allowance \in Int /\ Allowance' \in Int
  <2>1. /\ Values \in Nat /\ Debits \in Nat /\ Shown \in Nat
        /\ Cardinality(Serving) \in Nat /\ Cardinality(Hopeful) \in Nat
    BY Counts
  <2>2. Values * Weight \in Nat
    BY <2>1, Product, Places
  <2>3. Allowance \in Int
    BY <2>1, <2>2, Places DEF Allowance, Room
  <2>4. /\ Values' \in Nat /\ Debits' \in Nat /\ Shown' \in Nat
        /\ Cardinality(Serving)' \in Nat /\ Cardinality(Hopeful)' \in Nat
    BY NextCounts
  <2>5. Values' * Weight \in Nat
    BY <2>4, Product, Places
  <2>6. Allowance' \in Int
    BY <2>4, <2>5, NextAllowance, Places DEF Room
  <2>. QED  BY <2>3, <2>6
<1>3. ASSUME faults' = {}, left' <= 0 PROVE Allowance' <= left' + OnTheirWay * Weight
  <2>1. Allowance <= left + OnTheirWay * Weight
    BY <1>1, <1>3 DEF Budget
  <2>. QED  BY <1>1, <1>2, <2>1
<1>. QED  BY <1>3 DEF Budget

\* Nobody new is served or hopes to be.
LEMMA QuietStep ==
  ASSUME CacheShape, CacheShape', Shown' = Shown, Debits' = Debits,
         Values' = Values \/ (Values' = Values - 1 /\ Weight >= 1),
         Serving' \subseteq Serving, Hopeful' \subseteq Hopeful
  PROVE  Allowance' <= Allowance
<1>1. /\ Values \in Nat /\ Debits \in Nat /\ Shown \in Nat
      /\ Cardinality(Serving) \in Nat /\ Cardinality(Hopeful) \in Nat
      /\ IsFiniteSet(Serving) /\ IsFiniteSet(Hopeful)
  BY Counts
<1>2. /\ Values' \in Nat /\ Cardinality(Serving)' \in Nat /\ Cardinality(Hopeful)' \in Nat
  BY NextCounts
<1>3. Cardinality(Serving)' <= Cardinality(Serving) /\ Cardinality(Hopeful)' <= Cardinality(Hopeful)
  BY <1>1, FS_Subset
<1>4. Cardinality(Serving)' + Cardinality(Hopeful)' <= Cardinality(Serving) + Cardinality(Hopeful)
  BY <1>1, <1>2, <1>3
<1>5. Room(Shown, Values', Debits, Cardinality(Serving)', Cardinality(Hopeful)')
        <= Room(Shown, Values, Debits, Cardinality(Serving), Cardinality(Hopeful))
  BY <1>1, <1>2, <1>3, <1>4, RoomLower
<1>. QED  BY <1>5, NextAllowance DEF Allowance

\* The value of a load lets pass those who hoped for it.
LEMMA LoadedStep ==
  ASSUME CacheShape, CacheShape', NEW p \in Calls, at[p] \in {"offer", "send"},
         task[p].op = "set", Loaded(p), Shown' = Shown, Debits' = Debits,
         Values' = Values \/ Values' = Values - One(task[p], Positives)
  PROVE  Allowance' <= Allowance
<1>0. FlowOK /\ task[p] \in Carried
  BY ShapeParts DEF FlowOK, CallsOK
<1>1. /\ at' = [q \in Calls |-> IF q = p \/ at[q] = "wait" THEN Verdict(task[p].v) ELSE at[q]]
      /\ task' = [task EXCEPT ![p] = Nil] /\ kind' = kind
  BY DEF Loaded, setup
<1>2. task[p] \in Positives <=> task[p].v > 0
  BY <1>0, TaskKinds DEF Positives
<1>3. Nil \notin Positives /\ DOMAIN task = Calls
  BY BillingCacheAssumption, Counts DEF Positives
<1>4. CASE task[p] \notin Positives
  <2>1. One(task[p], Positives) = 0 /\ Values \in Nat
    BY <1>4, Counts DEF One
  <2>2. Serving' \subseteq Serving
    BY <1>0, <1>1, <1>2, <1>4, TaskKinds DEF Serving, Verdict
  <2>3. \A q \in Calls : task'[q] \in Positives => task[q] \in Positives
    BY <1>1, <1>3
  <2>4. Hopeful' \subseteq Hopeful
    BY <1>1, <2>3 DEF Hopeful
  <2>5. Values' = Values
    BY <2>1
  <2>. QED  BY <2>2, <2>4, <2>5, QuietStep
<1>5. CASE task[p] \in Positives
  <2>0. Values' = Values \/ (Values' = Values - 1 /\ Weight >= 1)
    BY <1>5, SomePlace DEF One
  <2>1. Cardinality(Serving)' + Cardinality(Hopeful)' <= Cardinality(Serving) + Cardinality(Hopeful)
    <3>0. /\ IsFiniteSet(Serving) /\ IsFiniteSet(Hopeful) /\ IsFiniteSet(Calls)
          /\ Cardinality(Serving) \in Nat /\ Cardinality(Hopeful) \in Nat
          /\ Cardinality(Calls) \in Nat
      BY Counts, Places
    <3>n. Cardinality(Serving)' \in Nat /\ Cardinality(Hopeful)' \in Nat
      BY NextCounts
    <3>1. CASE kind = "balance"
      <4>1. Hopeful = Calls
        BY <1>5, <3>1 DEF Hopeful
      <4>2. \A q \in Calls : task[q] \in Positives => q = p
        <5>1. ASSUME NEW q \in Calls, task[q] \in Positives PROVE InFlight(q)
          <6>1. task[q] # Nil /\ task[q] # Deductions /\ task[q].op = "set"
            BY <1>3, <5>1 DEF Positives, Deductions
          <6>. QED  BY <1>0, <6>1 DEF FlowOK, CallsOK, InFlight
        <5>. QED  BY <1>0, <1>5, <3>1, <5>1 DEF FlowOK, Alone
      <4>3. \A q \in Calls : task'[q] \notin Positives
        BY <1>1, <1>3, <4>2
      <4>4. Hopeful' = {}
        BY <4>3 DEF Hopeful
      <4>5. Cardinality(Hopeful)' = 0
        BY <4>4, FS_EmptySet
      <4>6. Serving' \subseteq Calls
        BY DEF Serving
      <4>7. Cardinality(Serving)' <= Cardinality(Calls)
        BY <3>0, <4>6, FS_Subset
      <4>8. Cardinality(Hopeful) = Cardinality(Calls)
        BY <4>1
      <4>. QED  BY <3>0, <3>n, <4>5, <4>7, <4>8
    <3>2. CASE kind # "balance"
      <4>1. \A q \in Calls : at[q] # "wait"
        BY <1>0, <3>2 DEF FlowOK, Alone
      <4>2. Serving' \subseteq Serving \cup {p}
        BY <1>1, <4>1 DEF Serving
      <4>3. Hopeful' = Hopeful \ {p} /\ p \in Hopeful
        BY <1>1, <1>3, <1>5, <3>2 DEF Hopeful
      <4>4. p \notin Serving
        BY DEF Serving
      <4>5. IsFiniteSet(Serving \cup {p}) /\ Cardinality(Serving \cup {p}) = Cardinality(Serving) + 1
        BY <3>0, <4>4, FS_AddElement
      <4>6. Cardinality(Serving)' <= Cardinality(Serving) + 1
        BY <4>2, <4>5, FS_Subset
      <4>7. Cardinality(Hopeful \ {p}) = Cardinality(Hopeful) - 1
        BY <3>0, <4>3, FS_RemoveElement
      <4>8. Cardinality(Hopeful)' = Cardinality(Hopeful) - 1
        BY <4>3, <4>7
      <4>. QED  BY <3>0, <3>n, <4>6, <4>8
    <3>. QED  BY <3>1, <3>2
  <2>2. Cardinality(Hopeful)' <= Cardinality(Hopeful)
    <3>1. Hopeful' \subseteq Hopeful
      <4>1. \A q \in Calls : task'[q] \in Positives => task[q] \in Positives
        BY <1>1, <1>3
      <4>. QED  BY <1>1, <4>1 DEF Hopeful
    <3>. QED  BY <3>1, Counts, FS_Subset
  <2>3. /\ Values \in Nat /\ Debits \in Nat /\ Shown \in Nat
        /\ Cardinality(Serving) \in Nat /\ Cardinality(Hopeful) \in Nat
    BY Counts
  <2>4. /\ Values' \in Nat /\ Cardinality(Serving)' \in Nat /\ Cardinality(Hopeful)' \in Nat
    BY NextCounts
  <2>5. Room(Shown, Values', Debits, Cardinality(Serving)', Cardinality(Hopeful)')
          <= Room(Shown, Values, Debits, Cardinality(Serving), Cardinality(Hopeful))
    BY <2>0, <2>1, <2>2, <2>3, <2>4, RoomLower
  <2>. QED  BY <2>5, NextAllowance DEF Allowance
<1>. QED  BY <1>4, <1>5

\* A write is carried out in Redis, which works.
LEMMA PerformStep ==
  ASSUME CacheShape, CacheShape', NEW t \in Carried, Perform(t), ~RedisMayFail,
         Serving' \subseteq Serving, Hopeful' \subseteq Hopeful,
         Values' = Values - One(t, Positives), Debits' = Debits - One(t, {Deductions})
  PROVE  Allowance' <= Allowance
<1>0. cached' = IF t.op = "set" THEN t.v ELSE IF cached = Nil THEN Nil ELSE cached - t.v
  BY DEF Perform
<1>1. /\ Values \in Nat /\ Debits \in Nat /\ Shown \in Nat
      /\ Cardinality(Serving) \in Nat /\ Cardinality(Hopeful) \in Nat
      /\ IsFiniteSet(Serving) /\ IsFiniteSet(Hopeful)
      /\ Cardinality(Serving) + Debits + Values <= OnTheirWay /\ OnTheirWay \in Nat
  BY Counts, PlacesSuffice, Places
<1>2. /\ Values' \in Nat /\ Debits' \in Nat /\ Shown' \in Nat
      /\ Cardinality(Serving)' \in Nat /\ Cardinality(Hopeful)' \in Nat
      /\ Cardinality(Serving)' + Debits' + Values' <= OnTheirWay
  BY NextCounts
<1>3. Cardinality(Serving)' <= Cardinality(Serving) /\ Cardinality(Hopeful)' <= Cardinality(Hopeful)
  BY <1>1, FS_Subset
<1>4. ASSUME NEW c \in Nat, NEW v \in Nat, NEW d \in Nat
      PROVE  Room(c, v, d, Cardinality(Serving)', Cardinality(Hopeful)')
               <= Room(c, v, d, Cardinality(Serving), Cardinality(Hopeful))
  <2>1. Cardinality(Serving)' + Cardinality(Hopeful)' <= Cardinality(Serving) + Cardinality(Hopeful)
    BY <1>1, <1>2, <1>3
  <2>. QED  BY <1>1, <1>2, <1>3, <2>1, RoomLower
<1>5. cached \in Int \cup {Nil} /\ Nil \notin Int
  BY ShapeParts, BillingCacheAssumption DEF EntryOK
<1>r. ASSUME NEW a \in Nat, NEW b \in Nat, NEW c \in Nat PROVE Room(a, b, c, Cardinality(Serving), Cardinality(Hopeful)) \in Int
  <2>1. b * Weight \in Nat
    BY Product, Places
  <2>. QED  BY <1>1, <2>1 DEF Room
<1>6. ASSUME NEW a \in Nat, NEW b \in Nat, NEW c \in Nat, Shown' = a, Values' = b, Debits' = c,
             Room(a, b, c, Cardinality(Serving), Cardinality(Hopeful)) <= Allowance
      PROVE  Allowance' <= Allowance
  <2>1. Allowance' = Room(a, b, c, Cardinality(Serving)', Cardinality(Hopeful)')
    BY <1>6, NextAllowance
  <2>2. Room(a, b, c, Cardinality(Serving)', Cardinality(Hopeful)')
          <= Room(a, b, c, Cardinality(Serving), Cardinality(Hopeful))
    BY <1>4
  <2>3. Allowance \in Int
    BY <1>1, <1>r DEF Allowance
  <2>4. b * Weight \in Nat
    BY Product, Places
  <2>5. Allowance' \in Int
    BY <1>2, <2>1, <2>4 DEF Room
  <2>. QED  BY <1>6, <1>r, <2>1, <2>2, <2>3, <2>5
<1>7. CASE t = Deductions
  <2>1. t.op = "deduct" /\ t.v = 1 /\ One(t, Positives) = 0 /\ One(t, {Deductions}) = 1
    BY <1>7, Counted DEF Deductions
  <2>2. Shown' = IF Shown > 0 THEN Shown - 1 ELSE 0
    BY <1>0, <1>5, <2>1 DEF Shown
  <2>3. Values' = Values /\ Debits' = Debits - 1 /\ Debits >= 1
    BY <1>1, <1>2, <2>1
  <2>4. Room(IF Shown > 0 THEN Shown - 1 ELSE 0, Values, Debits - 1, Cardinality(Serving), Cardinality(Hopeful))
          <= Allowance
    BY <1>1, <2>3, RoomDebit DEF Allowance
  <2>5. (IF Shown > 0 THEN Shown - 1 ELSE 0) \in Nat /\ Debits - 1 \in Nat
    BY <1>1, <2>3
  <2>. QED  BY <1>1, <1>6, <2>2, <2>3, <2>4, <2>5
<1>8. CASE t # Deductions /\ t.v <= 0
  <2>1. t.op = "set" /\ t.v \in Int /\ One(t, Positives) = 0 /\ One(t, {Deductions}) = 0
    <3>1. t.op = "set" /\ t.v \in Int
      BY <1>8, TaskKinds
    <3>2. One(t, {Deductions}) = 0 /\ One(t, Positives) = IF t.v > 0 THEN 1 ELSE 0
      BY <3>1, Counted
    <3>3. ~ (t.v > 0)
      BY <1>8, <3>1
    <3>. QED  BY <3>1, <3>2, <3>3
  <2>2. Shown' = 0 /\ Values' = Values /\ Debits' = Debits
    BY <1>0, <1>1, <1>8, <2>1 DEF Shown
  <2>3. Room(0, Values, Debits, Cardinality(Serving), Cardinality(Hopeful)) <= Allowance
    BY <1>1, RoomGone DEF Allowance
  <2>. QED  BY <1>1, <1>6, <2>2, <2>3
<1>9. CASE t # Deductions /\ t.v > 0
  <2>1. t.op = "set" /\ t.v \in Int /\ t.v <= Limit /\ One(t, Positives) = 1 /\ One(t, {Deductions}) = 0
    BY <1>9, TaskKinds, Counted
  <2>2. Shown' = t.v /\ Values' = Values - 1 /\ Debits' = Debits /\ Values >= 1 /\ t.v \in Nat
    BY <1>0, <1>1, <1>2, <1>5, <1>9, <2>1 DEF Shown
  <2>3. Room(t.v, Values - 1, Debits, Cardinality(Serving), Cardinality(Hopeful)) <= Allowance
    BY <1>1, <1>9, <2>1, <2>2, RoomSet DEF Allowance
  <2>. QED  BY <1>1, <1>2, <1>6, <2>2, <2>3
<1>. QED  BY <1>7, <1>8, <1>9, TaskKinds

\* The entry goes.
LEMMA GoneStep ==
  ASSUME CacheShape, cached' = Nil, UNCHANGED <<setup, queue, hand, flow>>
  PROVE  Allowance' <= Allowance
<1>1. /\ Values \in Nat /\ Debits \in Nat /\ Shown \in Nat
      /\ Cardinality(Serving) \in Nat /\ Cardinality(Hopeful) \in Nat
      /\ Cardinality(Serving) + Debits + Values <= OnTheirWay
  BY Counts, PlacesSuffice
<1>2. Shown' = 0 /\ Values' = Values /\ Debits' = Debits
  BY NoneMoved DEF Shown, flow
<1>3. Serving' = Serving /\ Hopeful' = Hopeful
  BY DEF Serving, Hopeful, flow, setup
<1>4. Room(0, Values, Debits, Cardinality(Serving), Cardinality(Hopeful)) <= Allowance
  BY <1>1, RoomGone DEF Allowance
<1>5. Allowance' = Room(0, Values, Debits, Cardinality(Serving), Cardinality(Hopeful))
  BY <1>2, <1>3, NextAllowance
<1>. QED  BY <1>4, <1>5

\* No step takes the user over the budget.
LEMMA BudgetStep == CacheInv /\ CacheShape' /\ [CacheNext]_cacheVars => Budget'
<1>. SUFFICES ASSUME CacheInv, CacheShape', [CacheNext]_cacheVars, faults' = {}
     PROVE  Budget'
  BY DEF Budget
<1>0. CacheShape /\ Owing /\ Budget
  BY DEF CacheInv
<1>a. FlowOK /\ EntryOK /\ PoolOK /\ StoreOK /\ RestOK
  BY <1>0, ShapeParts
<1>b. faults = {} /\ UNCHANGED setup
  <2>1. UNCHANGED setup
    BY DEF CacheNext, Proceed, Allow, Lookup, Load, Fail, Charge, Offer, Send, Refused, Loaded, Finish,
           Fallback, Take, Write, TopUp, Invalidate, Tick, Expire, DbRecovers, Stop, MoveTo, cacheVars
  <2>. QED  BY <2>1 DEF setup
<1>c. ~RedisMayFail /\ service = "running"
  BY <1>a, <1>b DEF RedisMayFail, RestOK
<1>d. /\ Values \in Nat /\ Debits \in Nat /\ Shown \in Nat
      /\ Cardinality(Serving) \in Nat /\ Cardinality(Hopeful) \in Nat
      /\ IsFiniteSet(Serving) /\ IsFiniteSet(Hopeful)
      /\ Cardinality(Serving) + Debits + Values <= OnTheirWay /\ OnTheirWay \in Nat
      /\ left \in Int
  BY <1>0, <1>a, Counts, PlacesSuffice, Places DEF StoreOK
<1>n. /\ Values' \in Nat /\ Debits' \in Nat /\ Shown' \in Nat /\ Shown' <= Limit
      /\ Cardinality(Serving)' \in Nat /\ Cardinality(Hopeful)' \in Nat
      /\ Cardinality(Hopeful)' <= Cardinality(Calls)
      /\ Cardinality(Serving)' + Debits' + Values' <= OnTheirWay
  BY NextCounts
<1>k. ASSUME left' = left, Allowance' <= Allowance PROVE Budget'
  BY <1>0, <1>b, <1>d, <1>k, NoCharge DEF setup
<1>h. ASSUME UNCHANGED task PROVE Hopeful' = Hopeful
  BY <1>b, <1>h DEF Hopeful, setup
<1>s. ASSUME cached' = cached PROVE Shown' = Shown
  BY <1>s DEF Shown
<1>1. ASSUME NEW p \in Calls, Allow(p) \/ Fail(p) PROVE Budget'
  <2>1. UNCHANGED <<queue, hand, task, left, cached>>
    BY <1>1 DEF Allow, Fail, MoveTo, pool, store, entry
  <2>2. Serving' \subseteq Serving
    BY <1>1, <1>a DEF Allow, Fail, MoveTo, Serving, FlowOK
  <2>. QED  BY <2>1, <2>2, <1>0, <1>k, <1>h, <1>s, NoneMoved, QuietStep
<1>2. ASSUME NEW p \in Calls, Lookup(p) PROVE Budget'
  <2>1. UNCHANGED <<queue, hand, task, left, cached>>
    BY <1>2 DEF Lookup, MoveTo, pool, store, entry
  <2>2. CASE cached # Nil /\ MoveTo(p, Verdict(cached)) /\ cached > 0
    <3>1. Shown > 0 /\ Shown' = Shown /\ Values' = Values /\ Debits' = Debits
      BY <2>1, <2>2, <1>s, NoneMoved DEF Shown
    <3>2. Cardinality(Hopeful)' = Cardinality(Hopeful)
      BY <2>1, <1>h
    <3>3. Room(Shown, Values, Debits, Cardinality(Serving)', Cardinality(Hopeful)) <= Allowance
      <4>1. Values = Values /\ Cardinality(Hopeful) <= Cardinality(Hopeful) /\ Shown # 0
        BY <1>d, <3>1
      <4>2. Room(Shown, Values, Debits, Cardinality(Serving)', Cardinality(Hopeful))
              <= Room(Shown, Values, Debits, Cardinality(Serving), Cardinality(Hopeful))
        BY <1>d, <1>n, <4>1, RoomLower
      <4>. QED  BY <4>2 DEF Allowance
    <3>. QED  BY <2>1, <3>1, <3>2, <3>3, <1>k, NextAllowance
  <2>3. CASE \E x \in {"idle", "wait", "load"} : MoveTo(p, x)
    <3>1. Serving' \subseteq Serving
      BY <2>3, <1>a DEF MoveTo, Serving, FlowOK
    <3>. QED  BY <2>1, <3>1, <1>0, <1>k, <1>h, <1>s, NoneMoved, QuietStep
  <2>4. CASE cached # Nil /\ MoveTo(p, Verdict(cached)) /\ ~(cached > 0)
    BY <2>3, <2>4 DEF Verdict
  <2>5. CASE MoveTo(p, IF kind = "balance" /\ \E q \in Calls : InFlight(q) THEN "wait" ELSE "load")
    BY <2>3, <2>5
  <2>. QED  BY <1>2, <2>2, <2>4, <2>5 DEF Lookup
<1>3. ASSUME NEW p \in Calls, Load(p) PROVE Budget'
  <2>1. UNCHANGED <<queue, hand, left, cached>> /\ at[p] = "load" /\ task[p] = Nil
    BY <1>3, <1>a DEF Load, pool, store, entry, FlowOK, CallsOK
  <2>2. Serving' \subseteq Serving
    BY <1>3, <1>a DEF Load, Serving, FlowOK
  <2>3. CASE UNCHANGED task
    BY <2>1, <2>2, <2>3, <1>0, <1>k, <1>h, <1>s, NoneMoved, QuietStep
  <2>4. CASE task' = [task EXCEPT ![p] = [op |-> "set", v |-> left]]
    <3>. DEFINE t == [op |-> "set", v |-> left]
    <3>1. CASE left <= 0
      <4>0. t \in Carried /\ t.op = "set" /\ t.v = left
        BY <1>a, BillingCacheAssumption DEF StoreOK, Carried, Tasks, Limit
      <4>1. /\ Values' = Values - One(Nil, Positives) + One(t, Positives)
            /\ Debits' = Debits - One(Nil, {Deductions}) + One(t, {Deductions})
        BY <1>0, <2>1, <2>4, CallMoved
      <4>2. One(Nil, Positives) = 0 /\ One(Nil, {Deductions}) = 0 /\ One(t, {Deductions}) = 0
        BY <4>0, Counted
      <4>3. t \notin Positives
        BY <1>d, <3>1, <4>0 DEF Positives
      <4>4. One(t, Positives) = 0
        BY <4>3 DEF One
      <4>5. Values' = Values /\ Debits' = Debits
        BY <1>d, <4>1, <4>2, <4>4
      <4>6. \A q \in Calls : task'[q] \in Positives => task[q] \in Positives
        <5>. HIDE DEF t
        <5>1. task' = [task EXCEPT ![p] = t]
          BY <2>4 DEF t
        <5>. QED  BY <1>a, <4>3, <5>1 DEF FlowOK
      <4>7. Hopeful' \subseteq Hopeful
        BY <1>b, <4>6 DEF Hopeful, setup
      <4>. QED  BY <2>1, <2>2, <4>5, <4>7, <1>0, <1>k, <1>s, QuietStep
    <3>2. CASE ~(left <= 0)
      BY <2>1, <3>2 DEF Budget
    <3>. QED  BY <3>1, <3>2
  <2>. QED  BY <1>3, <2>3, <2>4 DEF Load
<1>4. ASSUME NEW p \in Calls, Charge(p) PROVE Budget'
  <2>1. /\ UNCHANGED <<queue, hand, cached>> /\ at[p] = "serve" /\ task[p] = Nil
        /\ left' = left - 1 /\ task' = [task EXCEPT ![p] = Deductions]
        /\ at' = [at EXCEPT ![p] = "offer"]
    BY <1>4, <1>a DEF Charge, pool, entry, Deductions, FlowOK, CallsOK
  <2>2. Values' = Values /\ Debits' = Debits + 1
    <3>1. /\ Values' = Values - One(Nil, Positives) + One(Deductions, Positives)
          /\ Debits' = Debits - One(Nil, {Deductions}) + One(Deductions, {Deductions})
      BY <1>0, <2>1, CallMoved
    <3>2. One(Nil, Positives) = 0 /\ One(Nil, {Deductions}) = 0
          /\ One(Deductions, Positives) = 0 /\ One(Deductions, {Deductions}) = 1
      BY Counted
    <3>. QED  BY <1>d, <3>1, <3>2
  <2>3. Serving' = Serving \ {p} /\ p \in Serving
    BY <2>1, <1>a DEF Serving, FlowOK
  <2>4. Cardinality(Serving)' = Cardinality(Serving) - 1 /\ Cardinality(Serving) >= 1
    <3>1. Cardinality(Serving \ {p}) = Cardinality(Serving) - 1
      BY <2>3, <1>d, FS_RemoveElement
    <3>2. Cardinality(Serving)' = Cardinality(Serving \ {p})
      BY <2>3
    <3>. QED  BY <1>d, <1>n, <3>1, <3>2
  <2>5. Hopeful' \subseteq Hopeful
    <3>1. \A q \in Calls : task'[q] \in Positives => task[q] \in Positives
      BY <1>a, <2>1, BillingCacheAssumption DEF FlowOK, Positives, Deductions
    <3>. QED  BY <1>b, <3>1 DEF Hopeful, setup
  <2>6. Cardinality(Hopeful)' <= Cardinality(Hopeful)
    BY <2>5, <1>d, FS_Subset
  <2>7. OnTheirWay * Weight \in Nat /\ Cardinality(Calls) <= OnTheirWay /\ Cardinality(Calls) \in Nat
    BY Places, Product
  <2>8. CASE left <= 0
    <3>. DEFINE r == Room(Shown, Values, Debits + 1, Cardinality(Serving) - 1, Cardinality(Hopeful)')
                u == Room(Shown, Values, Debits + 1, Cardinality(Serving) - 1, Cardinality(Hopeful))
    <3>1. Allowance <= left + OnTheirWay * Weight
      BY <1>0, <1>b, <2>8 DEF Budget
    <3>2. u <= Allowance - 1
      BY <1>d, <2>4, RoomCharge DEF Allowance
    <3>3. Allowance' = r
      BY <2>1, <2>2, <2>4, <1>s, NextAllowance
    <3>4. Values * Weight \in Nat
      BY <1>d, Product, Places
    <3>5. r <= u /\ r \in Int /\ u \in Int /\ Allowance \in Int
      BY <1>d, <1>n, <2>4, <2>6, <3>4 DEF Room, Allowance
    <3>. HIDE DEF r, u
    <3>6. Allowance' <= left' + OnTheirWay * Weight
      BY <1>d, <2>1, <2>7, <3>1, <3>2, <3>3, <3>5
    <3>. QED  BY <3>6 DEF Budget
  <2>9. CASE left >= 1
    <3>1. Allowance' <= OnTheirWay * Weight
      <4>1. Debits' >= 1 /\ Cardinality(Hopeful)' <= OnTheirWay
        BY <1>d, <1>n, <2>2, <2>7
      <4>2. Room(Shown', Values', Debits', Cardinality(Serving)', Cardinality(Hopeful)') <= OnTheirWay * Weight
        BY <1>n, <4>1, RoomFits
      <4>. QED  BY <4>2, NextAllowance
    <3>2. left' >= 0 /\ left' \in Int
      BY <1>d, <2>1, <2>9
    <3>3. left' <= 0 => Allowance' <= left' + OnTheirWay * Weight
      <4>1. left' <= 0 => left' = 0
        BY <3>2
      <4>. QED  BY <2>7, <3>1, <4>1
    <3>. QED  BY <3>3 DEF Budget
  <2>. QED  BY <1>d, <2>8, <2>9
<1>5. ASSUME NEW p \in Calls, at[p] \in {"offer", "send"}, Refused(p),
             UNCHANGED <<queue, hand, left, cached>>
      PROVE  Budget'
  <2>1. CASE task[p].op = "set"
    <3>1. Loaded(p)
      BY <1>5, <2>1 DEF Refused
    <3>2. Debits' = Debits /\ Values' = Values - One(task[p], Positives)
      BY <1>0, <1>5, <2>1, <3>1, LoadedMoves
    <3>. QED  BY <1>0, <1>5, <2>1, <3>1, <3>2, <1>k, <1>s, LoadedStep
  <2>2. CASE task[p].op # "set"
    <3>1. at' = [at EXCEPT ![p] = "fallback"] /\ UNCHANGED task
      BY <1>5, <2>2 DEF Refused, MoveTo
    <3>2. Serving' \subseteq Serving
      BY <3>1, <1>a DEF Serving, FlowOK
    <3>. QED  BY <1>5, <3>1, <3>2, <1>0, <1>k, <1>h, <1>s, NoneMoved, QuietStep
  <2>. QED  BY <2>1, <2>2
<1>6. ASSUME NEW p \in Calls, Offer(p) PROVE Budget'
  <2>1. UNCHANGED <<queue, hand, left, cached, task>> /\ at' = [at EXCEPT ![p] = "send"]
    BY <1>6, <1>c DEF Offer, pool, store, entry, MoveTo
  <2>2. Serving' \subseteq Serving
    BY <2>1, <1>a DEF Serving, FlowOK
  <2>. QED  BY <2>1, <2>2, <1>0, <1>k, <1>h, <1>s, NoneMoved, QuietStep
<1>7. ASSUME NEW p \in Calls, Send(p) PROVE Budget'
  <2>1. UNCHANGED <<hand, left, cached>> /\ at[p] = "send" /\ task[p] \in Carried
    BY <1>7, <1>a DEF Send, store, entry, FlowOK, CallsOK
  <2>2. CASE /\ queue' = Append(queue, task[p])
             /\ IF task[p].op = "set" THEN Loaded(p) ELSE Finish(p)
    <3>1. task' = [task EXCEPT ![p] = Nil]
      BY <2>2 DEF Loaded, Finish
    <3>2. Values' = Values /\ Debits' = Debits
      BY <1>0, <2>1, <2>2, <3>1, AllHandedOn
    <3>3. CASE task[p].op = "set"
      <4>1. Loaded(p)
        BY <2>2, <3>3
      <4>. QED  BY <1>0, <2>1, <3>2, <3>3, <4>1, <1>k, <1>s, LoadedStep
    <3>4. CASE task[p].op # "set"
      <4>1. at' = [at EXCEPT ![p] = "idle"]
        BY <2>2, <3>4 DEF Finish
      <4>2. Serving' \subseteq Serving
        BY <1>a, <4>1 DEF Serving, FlowOK
      <4>3. \A q \in Calls : task'[q] \in Positives => task[q] \in Positives
        BY <1>a, <3>1, BillingCacheAssumption DEF FlowOK, Positives
      <4>4. Hopeful' \subseteq Hopeful
        BY <1>b, <4>3 DEF Hopeful, setup
      <4>. QED  BY <1>0, <2>1, <3>2, <4>2, <4>4, <1>k, <1>s, QuietStep
    <3>. QED  BY <3>3, <3>4
  <2>3. CASE Refused(p) /\ UNCHANGED queue
    BY <2>1, <2>3, <1>5
  <2>. QED  BY <1>7, <1>c, <2>2, <2>3 DEF Send
<1>8. ASSUME NEW p \in Calls, Fallback(p) PROVE Budget'
  <2>1. /\ UNCHANGED <<queue, hand, left>> /\ Perform(task[p]) /\ at[p] = "fallback"
        /\ task' = [task EXCEPT ![p] = Nil] /\ at' = [at EXCEPT ![p] = "idle"]
    BY <1>8 DEF Fallback, Finish, pool, store
  <2>2. task[p] = Deductions /\ Deductions \in Carried
    BY <1>a, <2>1, TaskKinds DEF FlowOK, CallsOK
  <2>3. Values' = Values - One(Deductions, Positives) /\ Debits' = Debits - One(Deductions, {Deductions})
    <3>1. /\ Values' = Values - One(Deductions, Positives) + One(Nil, Positives)
          /\ Debits' = Debits - One(Deductions, {Deductions}) + One(Nil, {Deductions})
      BY <1>0, <2>1, <2>2, CallMoved
    <3>2. /\ One(Nil, Positives) = 0 /\ One(Nil, {Deductions}) = 0
          /\ One(Deductions, Positives) = 0 /\ One(Deductions, {Deductions}) = 1
      BY Counted
    <3>. QED  BY <1>d, <3>1, <3>2
  <2>4. Serving' \subseteq Serving
    BY <1>a, <2>1 DEF Serving, FlowOK
  <2>5. \A q \in Calls : task'[q] \in Positives => task[q] \in Positives
    BY <1>a, <2>1, BillingCacheAssumption DEF FlowOK, Positives
  <2>6. Hopeful' \subseteq Hopeful
    BY <1>b, <2>5 DEF Hopeful, setup
  <2>7. Allowance' <= Allowance
    BY <1>0, <1>c, <2>1, <2>2, <2>3, <2>4, <2>6, PerformStep
  <2>. QED  BY <1>k, <2>1, <2>7
<1>9. ASSUME NEW w \in Workers, Take(w) PROVE Budget'
  <2>1. UNCHANGED <<left, cached, task, at>> /\ Values' = Values /\ Debits' = Debits
    BY <1>0, <1>9, AllHandedOn DEF Take, flow, store, entry
  <2>2. Serving' = Serving
    BY <2>1 DEF Serving
  <2>. QED  BY <2>1, <2>2, <1>0, <1>k, <1>h, <1>s, QuietStep
<1>10. ASSUME NEW w \in Workers, Write(w) PROVE Budget'
  <2>1. /\ UNCHANGED <<left, queue, task, at>> /\ Perform(hand[w]) /\ hand[w] \in Carried
        /\ hand' = [hand EXCEPT ![w] = Nil]
    BY <1>10, <1>a DEF Write, flow, store, PoolOK
  <2>2. Values' = Values - One(hand[w], Positives) /\ Debits' = Debits - One(hand[w], {Deductions})
    BY <1>0, <2>1, WorkerMoved
  <2>3. Serving' = Serving /\ Hopeful' = Hopeful
    BY <2>1, <1>h DEF Serving
  <2>4. Allowance' <= Allowance
    BY <1>0, <1>c, <2>1, <2>2, <2>3, PerformStep
  <2>. QED  BY <1>k, <2>1, <2>4
<1>11. CASE TopUp \/ Tick \/ DbRecovers \/ Stop \/ UNCHANGED cacheVars
  <2>1. UNCHANGED <<queue, hand, task, at, cached>> /\ left' >= left
    BY <1>11, <1>d
    DEF TopUp, Tick, DbRecovers, Stop, cacheVars, pool, flow, store, entry
  <2>2. Serving' = Serving
    BY <2>1 DEF Serving
  <2>3. Allowance' <= Allowance
    BY <2>1, <2>2, <1>0, <1>h, <1>s, NoneMoved, QuietStep
  <2>. QED  BY <2>1, <2>3, <1>0, <1>b, NoCharge DEF setup
<1>12. CASE Invalidate \/ Expire
  <2>1. cached' = Nil /\ UNCHANGED <<setup, queue, hand, flow>> /\ left' = left
    BY <1>12, <1>c DEF Invalidate, Expire, pool, store
  <2>. QED  BY <2>1, <1>0, <1>k, GoneStep
<1>. QED
  BY <1>1, <1>2, <1>3, <1>4, <1>6, <1>7, <1>8, <1>9, <1>10, <1>11, <1>12 DEF CacheNext, Proceed

\* As long as Redis works the overdraft is bounded: what the requests may still charge once
\* the credit is gone is what the cache shows, what is on its way to it and what is being
\* served, and each of these is bounded by the places there are (QueueDeductBalance,
\* GetUserBalance and the workers that write what they read).
THEOREM OverdraftIsBounded == CacheSpec => []OverdraftBounded
<1>1. CacheInit => CacheInv
  BY CacheInitHolds
<1>2. CacheInv /\ [CacheNext]_cacheVars => CacheInv'
  BY ShapeStep, OwingStep, BudgetStep DEF CacheInv
<1>3. CacheInv => OverdraftBounded
  <2>. SUFFICES ASSUME CacheInv, faults = {} PROVE left >= -(OnTheirWay * Weight)
    <3>1. Weight = Credit + MaxTopUps + OnTheirWay
      BY DEF Weight, Limit
    <3>. QED  BY <3>1 DEF OverdraftBounded
  <2>1. /\ Values \in Nat /\ Debits \in Nat /\ Shown \in Nat
        /\ Cardinality(Serving) \in Nat /\ Cardinality(Hopeful) \in Nat
        /\ Cardinality(Serving) + Debits + Values <= OnTheirWay
        /\ left \in Int
    BY Counts, PlacesSuffice, ShapeParts DEF CacheInv, StoreOK
  <2>2. Values * Weight \in Nat /\ OnTheirWay * Weight \in Nat
    BY <2>1, Product, Places
  <2>3. Allowance \in Nat
    BY <2>1, <2>2, Places DEF Allowance, Room
  <2>4. left <= 0 => Allowance <= left + OnTheirWay * Weight
    BY DEF CacheInv, Budget
  <2>. QED  BY <2>1, <2>2, <2>3, <2>4
<1>. QED  BY <1>1, <1>2, <1>3, PTL DEF CacheSpec
=============================================================================
