------------------------- MODULE OAuthRefresh_proofs -------------------------
(* Proofs about OAuthRefresh: types, what the lock and the comparison of      *)
(* Grok's credentials give, and where the working refresh token is.           *)
EXTENDS OAuthRefresh, TLAPS

Statuses == {"active", "error"}
Rows == [token : Token, status : Statuses, due : BOOLEAN]
Operations == [op : {"idle", "reauth", "edit", "manual"},
               at : {"start", "refresh", "read", "write", "clear"},
               new : Token, seen : Token, status : Statuses]
Steps == {"idle", "mutex", "quarantine", "cool"} \cup InMutex

(* TypeOK by its parts.                                                      *)
LEMMA TypeParts ==
  TypeOK <=> /\ platform \in Platforms /\ faults \in FaultSets
             /\ hits \in 0..MaxFaults /\ requests \in 0..MaxRequests
             /\ row \in Rows /\ cooling \in BOOLEAN /\ lock \in BOOLEAN
             /\ valid \subseteq Token /\ issued \in Nat /\ grants \in Nat
             /\ pc \in [Workers -> Steps]
             /\ used \in [Workers -> Token] /\ got \in [Workers -> Token]
             /\ locked \in [Workers -> BOOLEAN]
             /\ admin \in Operations
BY DEF TypeOK, Rows, Statuses, Operations, Steps

LEMMA NoneToken == None \in Token
BY DEF None, Token

LEMMA NextToken == ASSUME NEW t \in Token, issued \in Nat PROVE Next1(t) \in Token
BY DEF Next1, Token

LEMMA InitType == Init => TypeOK
<1> SUFFICES ASSUME Init PROVE TypeOK
  OBVIOUS
<1>1. [g |-> 1, n |-> 1] \in Token
  BY DEF Token
<1>2. row \in Rows
  BY <1>1 DEF Init, Rows, Statuses
<1>3. admin \in Operations
  BY NoneToken DEF Init, Idle, Operations, Statuses
<1>4. hits \in 0..MaxFaults /\ requests \in 0..MaxRequests
  BY BoundsAssumption DEF Init
<1> QED
  BY <1>1, <1>2, <1>3, <1>4, NoneToken, TypeParts DEF Init, Steps

(* The administrator's operation is one that may happen, at one of its steps. *)
AdminSteps ==
  /\ admin.op = "idle" => admin.at = "start"
  /\ admin.op = "reauth" => admin.at \in {"read", "write", "clear"} /\ "reauth" \in faults
  /\ admin.op = "edit" => admin.at \in {"read", "write"} /\ "edit" \in faults /\ admin.new = None
  /\ admin.op = "manual" => admin.at \in {"refresh", "read", "write"} /\ "manual" \in faults

(* No token has a number that was not issued, and those accepted have one.    *)
Issued ==
  /\ issued >= 1
  /\ \A t \in valid : t.n >= 1 /\ t.n <= issued
  /\ row.token.n <= issued /\ admin.new.n <= issued /\ admin.seen.n <= issued
  /\ \A w \in Workers : used[w].n <= issued /\ got[w].n <= issued

(* A token that was answered and not yet saved works, and nobody else has it. *)
Private ==
  /\ \A w \in Workers : pc[w] = "save" =>
       /\ got[w] \in valid
       /\ got[w] # row.token /\ got[w] # admin.seen /\ got[w] # admin.new
       /\ \A v \in Workers : used[v] # got[w] /\ (v # w => got[v] # got[w])
  /\ admin.at \in {"read", "write"} /\ admin.op # "edit" =>
       /\ admin.new \in valid /\ admin.new # row.token /\ admin.new # admin.seen
       /\ \A v \in Workers : used[v] # admin.new

(* What was refused stays refused.                                           *)
Refused == \A w \in Workers : pc[w] \in {"recover", "quarantine"} => used[w] \notin valid

Inv1 == TypeOK /\ AdminSteps /\ Issued /\ Private /\ Refused /\ StoredTokenWorks

LEMMA LeaveType ==
  ASSUME TypeOK, NEW w \in Workers, NEW next \in Steps, Leave(w, next)
  PROVE  /\ hits' \in 0..MaxFaults /\ lock' \in BOOLEAN /\ locked' \in [Workers -> BOOLEAN]
         /\ pc' \in [Workers -> Steps] /\ UNCHANGED <<platform, faults, requests>>
<1>1. hits \in 0..MaxFaults /\ lock \in BOOLEAN /\ locked \in [Workers -> BOOLEAN]
      /\ pc \in [Workers -> Steps]
  BY TypeParts
<1>2. hits' \in 0..MaxFaults
  BY <1>1, BoundsAssumption DEF Leave, Hit
<1>3. lock' \in BOOLEAN
  BY <1>1 DEF Leave
<1>4. locked' \in [Workers -> BOOLEAN] /\ pc' \in [Workers -> Steps]
  BY <1>1 DEF Leave
<1>5. UNCHANGED <<platform, faults, requests>>
  BY DEF Leave, rigid
<1> QED
  BY <1>2, <1>3, <1>4, <1>5

LEMMA NextType == TypeOK /\ [Next]_vars => TypeOK'
<1> SUFFICES ASSUME TypeOK, [Next]_vars PROVE TypeOK'
  OBVIOUS
<1> USE BoundsAssumption DEF TypeOK, rigid, account, provider
<1>1. ASSUME NEW w \in Workers, Start(w) PROVE TypeOK'
  BY <1>1 DEF Start, InMutex
<1>2. ASSUME NEW w \in Workers, EnterMutex(w) PROVE TypeOK'
  BY <1>2 DEF EnterMutex, InMutex
<1>3. ASSUME NEW w \in Workers, TakeLock(w) PROVE TypeOK'
  BY <1>3 DEF TakeLock, InMutex
<1>4. ASSUME NEW w \in Workers, LockHeld(w) PROVE TypeOK'
  BY <1>4 DEF LockHeld, InMutex
<1>5. ASSUME NEW w \in Workers, WithoutLock(w) PROVE TypeOK'
  BY <1>5 DEF WithoutLock, Hit, InMutex
<1>6. ASSUME NEW w \in Workers, Reread(w) PROVE TypeOK'
  <2>1. CASE row.status = "active" /\ row.due
    BY <1>6, <2>1 DEF Reread, InMutex
  <2>2. CASE ~(row.status = "active" /\ row.due)
    <3>1. Leave(w, "idle") /\ UNCHANGED <<used, got, row, cooling, valid, issued, grants, admin>>
      BY <1>6, <2>2 DEF Reread
    <3> QED
      BY <3>1, LeaveType DEF Steps
  <2> QED
    BY <2>1, <2>2
<1>7. ASSUME NEW w \in Workers, Refreshed(w) PROVE TypeOK'
  <2>1. Next1(used[w]) \in Token
    BY NextToken
  <2> QED
    BY <1>7, <2>1 DEF Refreshed, Rotate, InMutex
<1>8. ASSUME NEW w \in Workers, InvalidGrant(w) PROVE TypeOK'
  BY <1>8 DEF InvalidGrant, InMutex
<1>9. ASSUME NEW w \in Workers, RefreshFails(w) PROVE TypeOK'
  <2>1. Next1(used[w]) \in Token
    BY NextToken
  <2>2. valid' \subseteq Token /\ issued' \in Nat /\ grants' = grants
    BY <1>9, <2>1 DEF RefreshFails, Rotate
  <2>3. hits' \in 0..MaxFaults
    BY <1>9 DEF RefreshFails, Hit
  <2>4. /\ pc' \in [Workers -> Steps] /\ used' \in [Workers -> Token] /\ got' \in [Workers -> Token]
        /\ lock' \in BOOLEAN /\ locked' \in [Workers -> BOOLEAN]
    BY <1>9, NoneToken DEF RefreshFails, AfterFailure, GiveUp, Steps, InMutex
  <2> QED
    BY <1>9, <2>2, <2>3, <2>4 DEF RefreshFails, Steps
<1>10. ASSUME NEW w \in Workers, Recover(w) PROVE TypeOK'
  <2>1. \E next \in Steps : Leave(w, next)
    BY <1>10 DEF Recover, Steps
  <2>2. used' \in [Workers -> Token] /\ got' \in [Workers -> Token]
    BY <1>10, NoneToken DEF Recover, Forget
  <2>3. UNCHANGED <<row, cooling, valid, issued, grants, admin>>
    BY <1>10 DEF Recover
  <2> QED
    BY <2>1, <2>2, <2>3, LeaveType DEF Steps
<1>11. ASSUME NEW w \in Workers, Save(w) PROVE TypeOK'
  <2>0. got[w] \in Token /\ row \in Rows
    BY TypeParts
  <2>1. row' \in Rows
    <3>1. [row EXCEPT !.token = got[w], !.due = FALSE] \in Rows
      BY <2>0 DEF Rows
    <3> QED
      BY <1>11, <2>0, <3>1 DEF Save
  <2>2. Leave(w, "idle") /\ cooling' \in BOOLEAN /\ UNCHANGED <<valid, issued, grants, admin>>
    BY <1>11 DEF Save
  <2>3. used' \in [Workers -> Token] /\ got' \in [Workers -> Token]
    BY <1>11, NoneToken DEF Save, Forget
  <2> QED
    BY <2>1, <2>2, <2>3, LeaveType DEF Rows, Statuses, Steps
<1>12. ASSUME NEW w \in Workers, SaveFails(w) PROVE TypeOK'
  <2>1. hits' \in 0..MaxFaults
    BY <1>12 DEF SaveFails, Hit
  <2>2. /\ pc' \in [Workers -> Steps] /\ used' \in [Workers -> Token] /\ got' \in [Workers -> Token]
        /\ lock' \in BOOLEAN /\ locked' \in [Workers -> BOOLEAN]
    BY <1>12, NoneToken DEF SaveFails, AfterFailure, GiveUp, Steps, InMutex
  <2> QED
    BY <1>12, <2>1, <2>2 DEF SaveFails, Steps
<1>13. ASSUME NEW w \in Workers, Quarantine(w) PROVE TypeOK'
  BY <1>13, NoneToken DEF Quarantine, Forget, InMutex
<1>14. ASSUME NEW w \in Workers, Cool(w) PROVE TypeOK'
  BY <1>14, NoneToken DEF Cool, Forget, InMutex
<1>15. ASSUME NEW w \in Workers, Crash(w) PROVE TypeOK'
  BY <1>15, NoneToken DEF Crash, Hit, InMutex
<1>16. CASE Expire
  BY <1>16 DEF Expire
<1>17. CASE CoolEnds
  BY <1>17 DEF CoolEnds
<1>18. CASE LockExpires
  <2>1. hits' \in 0..MaxFaults
    BY <1>18 DEF LockExpires, Hit
  <2>2. lock' \in BOOLEAN
    BY <1>18 DEF LockExpires
  <2> QED
    BY <1>18, <2>1, <2>2 DEF LockExpires
<1>19. CASE Reauthorize \/ EditAccount \/ RefreshByHand
  <2>1. [g |-> grants + 1, n |-> issued + 1] \in Token /\ row.token \in Token
    BY DEF Token
  <2>2. Idle \in Operations
    BY NoneToken DEF Idle, Operations, Statuses
  <2>3. admin' \in Operations
    BY <1>19, <2>1, <2>2 DEF Reauthorize, EditAccount, RefreshByHand, Operations
  <2>4. valid' \subseteq Token /\ issued' \in Nat /\ grants' \in Nat
    BY <1>19, <2>1 DEF Reauthorize, EditAccount, RefreshByHand
  <2>5. hits' \in 0..MaxFaults
    BY <1>19 DEF Reauthorize, EditAccount, RefreshByHand, Hit
  <2> QED
    BY <1>19, <2>3, <2>4, <2>5
    DEF Reauthorize, EditAccount, RefreshByHand, Operations, Statuses
<1>20. CASE AdminRefresh
  <2>1. Next1(admin.seen) \in Token
    BY NextToken
  <2>2. valid' \subseteq Token /\ issued' \in Nat /\ grants' \in Nat
    BY <1>20, <2>1 DEF AdminRefresh, Rotate
  <2>3. Idle \in Operations
    BY NoneToken DEF Idle, Operations, Statuses
  <2>4. [admin EXCEPT !.at = "read", !.new = Next1(admin.seen)] \in Operations
    BY <2>1 DEF Operations, Statuses
  <2>5. admin' \in Operations
    BY <1>20, <2>3, <2>4 DEF AdminRefresh
  <2> QED
    BY <1>20, <2>2, <2>5 DEF AdminRefresh, Operations, Statuses
<1>21. CASE UpdateRead
  BY <1>21 DEF UpdateRead
<1>22. CASE UpdateWrite
  <2>1. admin' \in Operations
    BY <1>22, NoneToken DEF UpdateWrite, Operations, Statuses, Idle
  <2>0. row \in Rows /\ admin \in Operations
    BY TypeParts
  <2>2. row' \in Rows
    <3>1. CASE admin.new = None
      BY <1>22, <2>0, <3>1 DEF UpdateWrite, Operations, Rows, Statuses
    <3>2. CASE admin.new # None
      BY <1>22, <2>0, <3>2 DEF UpdateWrite, Operations, Rows, Statuses
    <3> QED
      BY <3>1, <3>2
  <2> QED
    BY <1>22, <2>1, <2>2 DEF UpdateWrite, Operations, Rows, Statuses
<1>23. CASE ClearError
  BY <1>23, NoneToken DEF ClearError, Idle
<1>24. CASE UNCHANGED vars
  BY <1>24 DEF vars
<1> QED
  BY <1>1, <1>2, <1>3, <1>4, <1>5, <1>6, <1>7, <1>8, <1>9, <1>10, <1>11, <1>12, <1>13,
     <1>14, <1>15, <1>16, <1>17, <1>18, <1>19, <1>20, <1>21, <1>22, <1>23, <1>24
  DEF Next, Work, Administer

(* Every variable keeps to its type.                                         *)
THEOREM TypeCorrect == Spec => []TypeOK
BY InitType, NextType, PTL DEF Spec

-----------------------------------------------------------------------------
(* The steps that bring no token into anybody's hands.                        *)
Quiet ==
  /\ row'.token = row.token /\ UNCHANGED <<valid, issued, grants, admin, faults>>
  /\ \A w \in Workers :
       /\ used'[w] \in {used[w], None} /\ got'[w] \in {got[w], None}
       /\ pc'[w] = "save" => pc[w] = "save" /\ got'[w] = got[w] /\ used'[w] = used[w]
       /\ pc'[w] \in {"recover", "quarantine"} => used'[w] = used[w] /\ used[w] \notin valid
       /\ \/ pc[w] # "save"
          \/ pc'[w] = "save" /\ used'[w] = used[w] /\ got'[w] = got[w]
          \/ "db" \in faults
          \/ "crash" \in faults

LEMMA TokenFacts ==
  ASSUME TypeOK
  PROVE  /\ row.token \in Token /\ valid \subseteq Token /\ issued \in Nat
         /\ admin.new \in Token /\ admin.seen \in Token
         /\ \A w \in Workers : used[w] \in Token /\ got[w] \in Token
         /\ None \in Token /\ None.n = 0
         /\ \A t \in Token : t.n \in Nat /\ Next1(t) \in Token /\ Next1(t).n = issued + 1
BY NoneToken, NextToken DEF TypeOK, Token, None, Next1

LEMMA QuietWork ==
  ASSUME TypeOK, Refused, NEW w \in Workers,
         \/ Start(w) \/ EnterMutex(w) \/ TakeLock(w) \/ LockHeld(w) \/ WithoutLock(w)
         \/ InvalidGrant(w) \/ Recover(w) \/ SaveFails(w) \/ Quarantine(w) \/ Cool(w) \/ Crash(w)
  PROVE  Quiet
<1> USE DEF TypeOK, Quiet, Refused, rigid, account, provider
<1>1. CASE Start(w) \/ EnterMutex(w) \/ TakeLock(w) \/ LockHeld(w) \/ WithoutLock(w)
  BY <1>1 DEF Start, EnterMutex, TakeLock, LockHeld, WithoutLock
<1>2. CASE InvalidGrant(w)
  BY <1>2 DEF InvalidGrant
<1>3. CASE Recover(w)
  <2>1. pc[w] = "recover" /\ used[w] \notin valid
    BY <1>3 DEF Recover
  <2>2. /\ \A v \in Workers : v # w => used'[v] = used[v] /\ got'[v] = got[v] /\ pc'[v] = pc[v]
        /\ pc'[w] \in {"idle", "quarantine"}
        /\ used'[w] \in {used[w], None} /\ got'[w] \in {got[w], None}
        /\ pc'[w] = "quarantine" => used'[w] = used[w]
    BY <1>3 DEF Recover, Leave, Forget
  <2>3. UNCHANGED <<row, valid, issued, grants, admin, faults>>
    BY <1>3 DEF Recover, Leave
  <2> QED
    BY <2>1, <2>2, <2>3
<1>4. CASE SaveFails(w)
  <2>1. "db" \in faults
    BY <1>4 DEF SaveFails, Hit
  <2>2. /\ \A v \in Workers : v # w => used'[v] = used[v] /\ got'[v] = got[v] /\ pc'[v] = pc[v]
        /\ pc'[w] \in {"idle", "cool", "mutex"}
        /\ used'[w] \in {used[w], None} /\ got'[w] \in {got[w], None}
    BY <1>4 DEF SaveFails, AfterFailure, GiveUp
  <2>3. UNCHANGED <<row, valid, issued, grants, admin, faults>>
    BY <1>4 DEF SaveFails
  <2> QED
    BY <2>1, <2>2, <2>3
<1>5. CASE Quarantine(w)
  <2>1. pc[w] = "quarantine" /\ pc'[w] = "idle" /\ row'.token = row.token
    BY <1>5 DEF Quarantine
  <2>2. /\ \A v \in Workers : v # w => used'[v] = used[v] /\ got'[v] = got[v] /\ pc'[v] = pc[v]
        /\ used'[w] \in {used[w], None} /\ got'[w] \in {got[w], None}
    BY <1>5 DEF Quarantine, Forget
  <2>3. UNCHANGED <<valid, issued, grants, admin, faults>>
    BY <1>5 DEF Quarantine
  <2> QED
    BY <2>1, <2>2, <2>3
<1>6. CASE Cool(w)
  BY <1>6 DEF Cool, Forget
<1>7. CASE Crash(w)
  <2>1. "crash" \in faults /\ UNCHANGED <<row, valid, issued, grants, admin, faults>>
    BY <1>7 DEF Crash, Hit
  <2>2. \A v \in Workers : \/ used'[v] = used[v] /\ got'[v] = got[v] /\ pc'[v] = pc[v]
                           \/ used'[v] = None /\ got'[v] = None /\ pc'[v] = "idle"
    BY <1>7 DEF Crash
  <2> QED
    BY <2>1, <2>2
<1> QED
  BY <1>1, <1>2, <1>3, <1>4, <1>5, <1>6, <1>7

LEMMA QuietKeeps ==
  ASSUME Inv1, TypeOK', Quiet
  PROVE  Issued' /\ Private' /\ Refused' /\ StoredTokenWorks' /\ AdminSteps'
<1> USE DEF Inv1, Quiet
<1>1. AdminSteps'
  BY DEF AdminSteps
<1>2. Issued'
  BY TokenFacts DEF Issued
<1>3. Refused'
  BY DEF Refused
<1>4. Private'
  <2>1. \A t \in valid : t # None
    BY TokenFacts DEF Issued
  <2>2. ASSUME NEW w \in Workers, pc'[w] = "save"
        PROVE  /\ got'[w] \in valid'
               /\ got'[w] # row'.token /\ got'[w] # admin'.seen /\ got'[w] # admin'.new
               /\ \A v \in Workers : used'[v] # got'[w] /\ (v # w => got'[v] # got'[w])
    <3>1. pc[w] = "save" /\ got'[w] = got[w] /\ got[w] \in valid /\ got[w] # None
      BY <2>1, <2>2 DEF Private
    <3> QED
      BY <3>1 DEF Private
  <2>3. ASSUME admin'.at \in {"read", "write"}, admin'.op # "edit"
        PROVE  /\ admin'.new \in valid' /\ admin'.new # row'.token /\ admin'.new # admin'.seen
               /\ \A v \in Workers : used'[v] # admin'.new
    BY <2>1, <2>3 DEF Private
  <2> QED
    BY <2>2, <2>3 DEF Private
<1>5. StoredTokenWorks'
  BY DEF StoredTokenWorks
<1> QED
  BY <1>1, <1>2, <1>3, <1>4, <1>5

LEMMA QuietTime ==
  ASSUME TypeOK, Refused, Expire \/ CoolEnds \/ LockExpires \/ UNCHANGED vars
  PROVE  Quiet
BY DEF TypeOK, Quiet, Refused, Expire, CoolEnds, LockExpires, vars, rigid, account, provider

(* What Inv1 says besides the types.                                         *)
Rest1 == Issued /\ Private /\ Refused /\ StoredTokenWorks /\ AdminSteps

LEMMA Reread1 ==
  ASSUME Inv1, TypeOK', NEW w \in Workers, Reread(w)
  PROVE  Rest1'
<1>1. CASE row.status = "active" /\ row.due
  <2>1. /\ used' = [used EXCEPT ![w] = row.token] /\ pc' = [pc EXCEPT ![w] = "refresh"]
        /\ pc[w] = "reread"
        /\ UNCHANGED <<row, valid, issued, got, admin, faults>>
    BY <1>1 DEF Reread, rigid, account, provider
  <2>2. Issued' /\ Refused' /\ AdminSteps'
    BY <2>1 DEF Inv1, Issued, Refused, AdminSteps, TypeOK
  <2>3. Private'
    BY <2>1 DEF Inv1, Private, TypeOK
  <2>4. StoredTokenWorks'
    BY <2>1 DEF Inv1, StoredTokenWorks, TypeOK
  <2> QED
    BY <2>2, <2>3, <2>4 DEF Rest1
<1>2. CASE ~(row.status = "active" /\ row.due)
  <2>1. Leave(w, "idle") /\ UNCHANGED <<row, valid, issued, grants, used, got, admin>> /\ pc[w] = "reread"
    BY <1>2 DEF Reread, account, provider
  <2>2. Quiet
    BY <2>1 DEF Inv1, TypeOK, Refused, Quiet, Leave, rigid
  <2> QED
    BY <2>2, QuietKeeps DEF Rest1
<1> QED
  BY <1>1, <1>2

(* A rotation of a token that is nobody's private one.                        *)
LEMMA RotateFacts ==
  ASSUME Inv1, NEW t \in Token, Rotate(t)
  PROVE  /\ t \in valid /\ valid' = (valid \ {t}) \cup {Next1(t)} /\ issued' = issued + 1
         /\ Next1(t) \in Token /\ Next1(t).n = issued + 1 /\ Next1(t) \notin valid /\ Next1(t) # None
         /\ Next1(t) # row.token /\ Next1(t) # admin.new /\ Next1(t) # admin.seen
         /\ Next1(t) # t
         /\ \A v \in Workers : Next1(t) # used[v] /\ Next1(t) # got[v]
<1>1. t \in valid /\ valid' = (valid \ {t}) \cup {Next1(t)} /\ issued' = issued + 1
  BY DEF Rotate
<1>2. Next1(t) \in Token /\ Next1(t).n = issued + 1 /\ issued \in Nat
  BY TokenFacts DEF Inv1
<1>3. \A u \in Token : u.n <= issued => u # Next1(t)
  BY <1>2, TokenFacts DEF Inv1
<1>4. Next1(t) \notin valid /\ Next1(t) # t
  BY <1>1, <1>3, TokenFacts DEF Inv1, Issued
<1>5. Next1(t) # row.token /\ Next1(t) # admin.new /\ Next1(t) # admin.seen
      /\ \A v \in Workers : Next1(t) # used[v] /\ Next1(t) # got[v]
  <2>1. row.token.n <= issued /\ admin.new.n <= issued /\ admin.seen.n <= issued
        /\ \A v \in Workers : used[v].n <= issued /\ got[v].n <= issued
    BY DEF Inv1, Issued
  <2>2. row.token \in Token /\ admin.new \in Token /\ admin.seen \in Token
        /\ \A v \in Workers : used[v] \in Token /\ got[v] \in Token
    BY TokenFacts DEF Inv1
  <2> QED
    BY <1>3, <2>1, <2>2
<1>6. Next1(t) # None
  BY <1>2 DEF None
<1> QED
  BY <1>1, <1>2, <1>4, <1>5, <1>6

LEMMA Refreshed1 ==
  ASSUME Inv1, TypeOK', NEW w \in Workers, Refreshed(w)
  PROVE  Rest1'
<1> DEFINE t == used[w]
           new == Next1(t)
<1>1. /\ pc[w] = "refresh" /\ Rotate(t) /\ got' = [got EXCEPT ![w] = new]
      /\ pc' = [pc EXCEPT ![w] = "save"] /\ UNCHANGED <<row, used, admin, faults>>
  BY DEF Refreshed, rigid, account
<1>2. t \in Token /\ got \in [Workers -> Token] /\ pc \in [Workers -> Steps]
  BY TypeParts DEF Inv1
<1>3. /\ t \in valid /\ valid' = (valid \ {t}) \cup {new} /\ issued' = issued + 1
      /\ new \in Token /\ new.n = issued + 1 /\ new \notin valid /\ new # None
      /\ new # row.token /\ new # admin.new /\ new # admin.seen /\ new # t
      /\ \A v \in Workers : new # used[v] /\ new # got[v]
  BY <1>1, <1>2, RotateFacts
<1> HIDE DEF t, new
<1>4. Issued'
  BY <1>1, <1>2, <1>3, TokenFacts DEF Inv1, Issued
<1>5. Refused' /\ AdminSteps'
  BY <1>1, <1>2, <1>3 DEF Inv1, Refused, AdminSteps
<1>6. \A v \in Workers : pc[v] = "save" => got[v] # t
  BY DEF Inv1, Private, t
<1>7. admin.at \in {"read", "write"} /\ admin.op # "edit" => admin.new # t
  BY DEF Inv1, Private, t
<1>8. Private'
  <2>1. ASSUME NEW v \in Workers, pc'[v] = "save"
        PROVE  /\ got'[v] \in valid'
               /\ got'[v] # row'.token /\ got'[v] # admin'.seen /\ got'[v] # admin'.new
               /\ \A u \in Workers : used'[u] # got'[v] /\ (u # v => got'[u] # got'[v])
    <3>1. CASE v = w
      BY <1>1, <1>2, <1>3, <3>1
    <3>2. CASE v # w
      <4>1. pc[v] = "save" /\ got'[v] = got[v]
        BY <1>1, <1>2, <2>1, <3>2
      <4> QED
        BY <1>1, <1>2, <1>3, <1>6, <4>1 DEF Inv1, Private
    <3> QED
      BY <3>1, <3>2
  <2>2. ASSUME admin'.at \in {"read", "write"}, admin'.op # "edit"
        PROVE  /\ admin'.new \in valid' /\ admin'.new # row'.token /\ admin'.new # admin'.seen
               /\ \A v \in Workers : used'[v] # admin'.new
    BY <1>1, <1>3, <1>7, <2>2 DEF Inv1, Private
  <2> QED
    BY <2>1, <2>2 DEF Private
<1>9. StoredTokenWorks'
  <2>1. SUFFICES ASSUME faults \cap {"lost", "db", "crash", "edit"} = {}
                 PROVE  \/ row'.token \in valid'
                        \/ \E v \in Workers : pc'[v] = "save" /\ used'[v] = row'.token /\ got'[v] \in valid'
                        \/ admin'.at \in {"read", "write"} /\ admin'.new \in valid'
    BY <1>1 DEF StoredTokenWorks
  <2>2. CASE row.token = t
    BY <1>1, <1>2, <1>3, <2>2 DEF t
  <2>3. CASE row.token # t /\ row.token \in valid
    BY <1>1, <1>3, <2>3
  <2>4. CASE \E v \in Workers : pc[v] = "save" /\ used[v] = row.token /\ got[v] \in valid
    <3>1. PICK v \in Workers : pc[v] = "save" /\ used[v] = row.token /\ got[v] \in valid
      BY <2>4
    <3>2. v # w
      BY <1>1, <3>1
    <3> QED
      BY <1>1, <1>2, <1>3, <1>6, <3>1, <3>2
  <2>5. CASE admin.at \in {"read", "write"} /\ admin.new \in valid
    <3>1. admin.op # "edit"
      BY <2>1, <2>5 DEF Inv1, AdminSteps
    <3> QED
      BY <1>1, <1>3, <1>7, <2>5, <3>1
  <2> QED
    BY <2>1, <2>2, <2>3, <2>4, <2>5 DEF Inv1, StoredTokenWorks
<1> QED
  BY <1>4, <1>5, <1>8, <1>9 DEF Rest1

LEMMA RefreshFails1 ==
  ASSUME Inv1, TypeOK', NEW w \in Workers, RefreshFails(w)
  PROVE  Rest1'
<1> DEFINE t == used[w]
           new == Next1(t)
<1>1. /\ pc[w] = "refresh" /\ UNCHANGED <<row, admin, faults>>
      /\ \A v \in Workers : v # w => pc'[v] = pc[v] /\ used'[v] = used[v] /\ got'[v] = got[v]
      /\ pc'[w] \in {"mutex", "cool", "idle"} /\ used'[w] \in {t, None} /\ got'[w] \in {got[w], None}
  BY DEF Inv1, TypeOK, RefreshFails, GiveUp, AfterFailure, rigid, account
<1>2. CASE UNCHANGED provider
  <2>1. Quiet
    BY <1>1, <1>2 DEF Quiet, provider, Inv1, Refused
  <2> QED
    BY <2>1, QuietKeeps DEF Rest1
<1>3. CASE Hit("lost") /\ Rotate(t)
  <2>1. t \in Token
    BY TypeParts DEF Inv1
  <2>2. /\ t \in valid /\ valid' = (valid \ {t}) \cup {new} /\ issued' = issued + 1
        /\ new \in Token /\ new.n = issued + 1 /\ new \notin valid /\ new # None
        /\ new # row.token /\ new # admin.new /\ new # admin.seen /\ new # t
        /\ \A v \in Workers : new # used[v] /\ new # got[v]
    BY <1>3, <2>1, RotateFacts
  <2>3. "lost" \in faults
    BY <1>3 DEF Hit
  <2> HIDE DEF t, new
  <2>4. StoredTokenWorks' /\ AdminSteps'
    BY <1>1, <2>3 DEF StoredTokenWorks, Inv1, AdminSteps
  <2>5. Issued'
    BY <1>1, <2>2, TokenFacts DEF Inv1, Issued
  <2>6. Refused'
    BY <1>1, <2>2 DEF Inv1, Refused
  <2>7. \A v \in Workers : pc[v] = "save" => got[v] # t
    BY DEF Inv1, Private, t
  <2>8. admin.at \in {"read", "write"} /\ admin.op # "edit" => admin.new # t
    BY DEF Inv1, Private, t
  <2>9. \A u \in valid : u # None
    BY TokenFacts DEF Inv1, Issued
  <2>10. Private'
    <3>1. ASSUME NEW v \in Workers, pc'[v] = "save"
          PROVE  /\ got'[v] \in valid'
                 /\ got'[v] # row'.token /\ got'[v] # admin'.seen /\ got'[v] # admin'.new
                 /\ \A u \in Workers : used'[u] # got'[v] /\ (u # v => got'[u] # got'[v])
      <4>1. v # w /\ pc[v] = "save" /\ got'[v] = got[v]
        BY <1>1, <3>1
      <4>2. got[v] # None
        BY <2>9, <4>1 DEF Inv1, Private
      <4> QED
        BY <1>1, <2>2, <2>7, <4>1, <4>2 DEF Inv1, Private, t
    <3>2. ASSUME admin'.at \in {"read", "write"}, admin'.op # "edit"
          PROVE  /\ admin'.new \in valid' /\ admin'.new # row'.token /\ admin'.new # admin'.seen
                 /\ \A v \in Workers : used'[v] # admin'.new
      <4>1. admin.new \in valid /\ admin.new # None
        BY <1>1, <2>9, <3>2 DEF Inv1, Private
      <4> QED
        BY <1>1, <2>2, <2>8, <3>2, <4>1 DEF Inv1, Private, t
    <3> QED
      BY <3>1, <3>2 DEF Private
  <2> QED
    BY <2>4, <2>5, <2>6, <2>10 DEF Rest1
<1> QED
  BY <1>2, <1>3 DEF RefreshFails

LEMMA Save1 ==
  ASSUME Inv1, TypeOK', NEW w \in Workers, Save(w)
  PROVE  Rest1'
<1>1. /\ pc[w] = "save" /\ UNCHANGED <<valid, issued, admin, faults>>
      /\ \A v \in Workers : v # w => pc'[v] = pc[v] /\ used'[v] = used[v] /\ got'[v] = got[v]
      /\ pc'[w] = "idle" /\ used'[w] = None /\ got'[w] = None
  BY DEF Inv1, TypeOK, Save, Leave, Forget, rigid, provider
<1>2. \/ row'.token = got[w]
      \/ row'.token = row.token /\ row.token # used[w]
  BY TypeParts DEF Inv1, Save, Rows
<1>3. /\ got[w] \in valid /\ got[w] # admin.new
      /\ \A v \in Workers : used[v] # got[w] /\ (v # w => got[v] # got[w])
  BY <1>1 DEF Inv1, Private
<1>4. \A u \in valid : u # None
  BY TokenFacts DEF Inv1, Issued
<1>5. Issued'
  BY <1>1, <1>2, TokenFacts DEF Inv1, Issued
<1>6. Refused' /\ AdminSteps'
  BY <1>1 DEF Inv1, Refused, AdminSteps
<1>7. Private'
  <2>1. ASSUME NEW v \in Workers, pc'[v] = "save"
        PROVE  /\ got'[v] \in valid'
               /\ got'[v] # row'.token /\ got'[v] # admin'.seen /\ got'[v] # admin'.new
               /\ \A u \in Workers : used'[u] # got'[v] /\ (u # v => got'[u] # got'[v])
    <3>1. v # w /\ pc[v] = "save" /\ got'[v] = got[v]
      BY <1>1, <2>1
    <3>2. got[v] # None
      BY <1>4, <3>1 DEF Inv1, Private
    <3> QED
      BY <1>1, <1>2, <1>3, <3>1, <3>2 DEF Inv1, Private
  <2>2. ASSUME admin'.at \in {"read", "write"}, admin'.op # "edit"
        PROVE  /\ admin'.new \in valid' /\ admin'.new # row'.token /\ admin'.new # admin'.seen
               /\ \A v \in Workers : used'[v] # admin'.new
    <3>1. admin.new # None
      BY <1>1, <1>4, <2>2 DEF Inv1, Private
    <3> QED
      BY <1>1, <1>2, <1>3, <2>2, <3>1 DEF Inv1, Private
  <2> QED
    BY <2>1, <2>2 DEF Private
<1>8. StoredTokenWorks'
  <2>1. CASE row'.token = got[w]
    BY <1>1, <1>3, <2>1 DEF StoredTokenWorks
  <2>2. CASE row'.token = row.token /\ row.token # used[w]
    BY <1>1, <2>2 DEF Inv1, StoredTokenWorks
  <2> QED
    BY <1>2, <2>1, <2>2
<1> QED
  BY <1>5, <1>6, <1>7, <1>8 DEF Rest1

(* Steps of the administrator that leave the provider alone.                  *)
LEMMA AdminQuiet1 ==
  ASSUME Inv1, TypeOK',
         \/ EditAccount \/ RefreshByHand \/ UpdateRead \/ ClearError
         \/ AdminRefresh /\ UNCHANGED provider
  PROVE  Rest1'
<1>1. UNCHANGED <<valid, issued, used, got, pc, faults>> /\ row'.token = row.token
  BY TypeParts DEF Inv1, EditAccount, RefreshByHand, UpdateRead, ClearError, AdminRefresh,
     rigid, account, provider, Rows
<1>2. \/ admin' = Idle
      \/ "edit" \in faults /\ admin' = [Idle EXCEPT !.op = "edit", !.at = "read"]
      \/ "manual" \in faults
         /\ admin' = [Idle EXCEPT !.op = "manual", !.at = "refresh", !.seen = row.token]
      \/ /\ admin.at = "read"
         /\ admin' = [admin EXCEPT !.at = "write", !.seen = row.token, !.status = row.status]
  <2>1. CASE EditAccount \/ RefreshByHand
    BY <2>1 DEF EditAccount, RefreshByHand, Hit
  <2>2. CASE UpdateRead \/ ClearError
    BY <2>2 DEF UpdateRead, ClearError
  <2>3. CASE AdminRefresh /\ UNCHANGED provider
    <3>1. valid' = valid /\ issued' = issued /\ issued \in Nat
      BY <2>3 DEF provider, Inv1, TypeOK
    <3>2. ~Rotate(admin.seen)
      BY <3>1 DEF Rotate
    <3> QED
      BY <2>3, <3>2 DEF AdminRefresh
  <2> QED
    BY <2>1, <2>2, <2>3
<1>3. admin \in Operations /\ Idle \in Operations /\ row.token \in Token
  BY TypeParts, NoneToken, TokenFacts DEF Inv1, Idle, Operations, Statuses
<1>4. /\ admin'.new \in {admin.new, None} /\ admin'.seen \in {row.token, None}
      /\ admin'.at \in {"read", "write"} /\ admin'.op # "edit" =>
           admin.at = "read" /\ admin'.at = "write" /\ admin'.op = admin.op /\ admin'.new = admin.new
      /\ admin'.op = "idle" => admin'.at = "start"
      /\ admin'.op = "reauth" => admin'.at = "write" /\ "reauth" \in faults
      /\ admin'.op = "edit" => admin'.at \in {"read", "write"} /\ "edit" \in faults /\ admin'.new = None
      /\ admin'.op = "manual" => admin'.at \in {"refresh", "read", "write"} /\ "manual" \in faults
  <2>1. CASE admin' = Idle
    BY <2>1 DEF Idle
  <2>2. CASE "edit" \in faults /\ admin' = [Idle EXCEPT !.op = "edit", !.at = "read"]
    BY <1>3, <2>2 DEF Idle
  <2>3. CASE /\ "manual" \in faults
             /\ admin' = [Idle EXCEPT !.op = "manual", !.at = "refresh", !.seen = row.token]
    BY <1>3, <2>3 DEF Idle
  <2>4. CASE /\ admin.at = "read"
             /\ admin' = [admin EXCEPT !.at = "write", !.seen = row.token, !.status = row.status]
    BY <1>3, <2>4 DEF Inv1, AdminSteps, Operations
  <2> QED
    BY <1>2, <2>1, <2>2, <2>3, <2>4
<1>5. AdminSteps'
  BY <1>1, <1>4 DEF AdminSteps
<1>6. Issued'
  BY <1>1, <1>4, TokenFacts DEF Inv1, Issued
<1>7. Refused'
  BY <1>1 DEF Inv1, Refused
<1>8. Private'
  <2>1. \A u \in valid : u # None
    BY TokenFacts DEF Inv1, Issued
  <2>2. ASSUME NEW w \in Workers, pc'[w] = "save"
        PROVE  /\ got'[w] \in valid'
               /\ got'[w] # row'.token /\ got'[w] # admin'.seen /\ got'[w] # admin'.new
               /\ \A v \in Workers : used'[v] # got'[w] /\ (v # w => got'[v] # got'[w])
    BY <1>1, <1>4, <2>1, <2>2 DEF Inv1, Private
  <2>3. ASSUME admin'.at \in {"read", "write"}, admin'.op # "edit"
        PROVE  /\ admin'.new \in valid' /\ admin'.new # row'.token /\ admin'.new # admin'.seen
               /\ \A v \in Workers : used'[v] # admin'.new
    <3>1. admin.at = "read" /\ admin.op # "edit" /\ admin'.new = admin.new
      BY <1>4, <2>3
    <3> QED
      BY <1>1, <1>4, <2>1, <3>1 DEF Inv1, Private
  <2> QED
    BY <2>2, <2>3 DEF Private
<1>9. StoredTokenWorks'
  <2>1. SUFFICES ASSUME faults \cap {"lost", "db", "crash", "edit"} = {}
                 PROVE  \/ row'.token \in valid'
                        \/ \E v \in Workers : pc'[v] = "save" /\ used'[v] = row'.token /\ got'[v] \in valid'
                        \/ admin'.at \in {"read", "write"} /\ admin'.new \in valid'
    BY <1>1 DEF StoredTokenWorks
  <2>2. CASE ~(admin.at \in {"read", "write"} /\ admin.new \in valid)
    BY <1>1, <2>1, <2>2 DEF Inv1, StoredTokenWorks
  <2>3. CASE admin.at \in {"read", "write"} /\ admin.new \in valid
    <3>1. UpdateRead
      BY <1>3, <2>3 DEF EditAccount, RefreshByHand, ClearError, AdminRefresh, Inv1, AdminSteps, UpdateRead
    <3> QED
      BY <1>1, <1>3, <2>3, <3>1 DEF UpdateRead, Operations
  <2> QED
    BY <2>2, <2>3
<1> QED
  BY <1>5, <1>6, <1>7, <1>8, <1>9 DEF Rest1

(* The administrator brings a token nobody has had.                           *)
LEMMA AdminBrings1 ==
  ASSUME Inv1, TypeOK',
         Reauthorize \/ (AdminRefresh /\ Rotate(admin.seen))
  PROVE  Rest1'
<1>1. /\ UNCHANGED <<row, used, got, pc, faults>> /\ issued' = issued + 1 /\ issued \in Nat
      /\ admin \in Operations /\ Idle \in Operations
  BY TypeParts, NoneToken DEF Inv1, Reauthorize, AdminRefresh, Rotate, rigid, account, Idle,
     Operations, Statuses
<1>2. /\ admin'.at = "read" /\ admin'.op \in {"reauth", "manual"}
      /\ admin'.op = "reauth" => "reauth" \in faults
      /\ admin'.op = "manual" => "manual" \in faults
      /\ admin'.seen \in {admin.seen, None}
      /\ admin'.new \in Token /\ admin'.new.n = issued + 1 /\ admin'.new \in valid'
  <2>1. CASE Reauthorize
    <3> DEFINE new == [g |-> grants + 1, n |-> issued + 1]
    <3>1. new \in Token /\ new.n = issued + 1
      BY DEF Inv1, TypeOK, Token
    <3>2. "reauth" \in faults /\ valid' = valid \cup {new}
      BY <2>1 DEF Reauthorize, Hit
    <3>3. admin' = [Idle EXCEPT !.op = "reauth", !.at = "read", !.new = new]
      BY <2>1 DEF Reauthorize
    <3> HIDE DEF new
    <3>4. admin' = [op |-> "reauth", at |-> "read", new |-> new, seen |-> None, status |-> "active"]
      BY <3>3 DEF Idle
    <3> QED
      BY <3>1, <3>2, <3>4
  <2>2. CASE AdminRefresh /\ Rotate(admin.seen)
    <3> DEFINE new == Next1(admin.seen)
    <3>1. admin.at = "refresh" /\ new \in Token /\ new.n = issued + 1 /\ new \in valid'
      BY <2>2, TokenFacts DEF Inv1, AdminRefresh, Rotate
    <3>2. admin' = [admin EXCEPT !.at = "read", !.new = new]
      BY <2>2 DEF AdminRefresh, Rotate
    <3> HIDE DEF new
    <3>3. admin.op = "manual" /\ "manual" \in faults
      BY <1>1, <3>1 DEF Inv1, AdminSteps, Operations
    <3> QED
      BY <1>1, <3>1, <3>2, <3>3 DEF Operations
  <2> QED
    BY <2>1, <2>2
<1> DEFINE new == admin'.new
<1>3. \A u \in Token : u.n <= issued => u # new
  BY <1>1, <1>2
<1>4. /\ new # row.token /\ new # admin.seen /\ new # None
      /\ \A v \in Workers : used[v] # new /\ got[v] # new
  <2>1. row.token.n <= issued /\ admin.seen.n <= issued
        /\ \A v \in Workers : used[v].n <= issued /\ got[v].n <= issued
    BY DEF Inv1, Issued
  <2>2. row.token \in Token /\ admin.seen \in Token /\ None \in Token /\ None.n <= issued
        /\ \A v \in Workers : used[v] \in Token /\ got[v] \in Token
    BY <1>1, TokenFacts DEF Inv1
  <2> QED
    BY <1>3, <2>1, <2>2
<1>5. \A u \in valid' : u \in valid \/ u.n = issued + 1
  <2>1. CASE Reauthorize
    BY <2>1 DEF Reauthorize
  <2>2. CASE Rotate(admin.seen)
    BY <2>2, TokenFacts DEF Rotate, Inv1
  <2> QED
    BY <2>1, <2>2
<1>6. \A u \in valid : u \in valid' \/ (u = admin.seen /\ AdminRefresh)
  BY DEF Reauthorize, Rotate
<1> HIDE DEF new
<1>7. AdminSteps'
  BY <1>1, <1>2 DEF AdminSteps
<1>8. Issued'
  BY <1>1, <1>2, <1>5, TokenFacts DEF Inv1, Issued
<1>9. Refused'
  <2>1. \A w \in Workers : used[w] \notin valid => used[w] \notin valid'
    BY <1>1, <1>5, TokenFacts DEF Inv1, Issued
  <2> QED
    BY <1>1, <2>1 DEF Inv1, Refused
<1>10. Private'
  <2>1. \A u \in valid : u # None
    BY TokenFacts DEF Inv1, Issued
  <2>2. ASSUME NEW w \in Workers, pc'[w] = "save"
        PROVE  /\ got'[w] \in valid'
               /\ got'[w] # row'.token /\ got'[w] # admin'.seen /\ got'[w] # admin'.new
               /\ \A v \in Workers : used'[v] # got'[w] /\ (v # w => got'[v] # got'[w])
    BY <1>1, <1>2, <1>4, <1>6, <2>1, <2>2 DEF Inv1, Private, new
  <2>3. admin'.new \in valid' /\ admin'.new # row'.token /\ admin'.new # admin'.seen
        /\ \A v \in Workers : used'[v] # admin'.new
    BY <1>1, <1>2, <1>4 DEF new
  <2> QED
    BY <2>2, <2>3 DEF Private
<1>11. StoredTokenWorks'
  BY <1>1, <1>2 DEF StoredTokenWorks
<1> QED
  BY <1>7, <1>8, <1>9, <1>10, <1>11 DEF Rest1

LEMMA UpdateWrite1 ==
  ASSUME Inv1, TypeOK', UpdateWrite
  PROVE  Rest1'
<1>1. /\ UNCHANGED <<valid, issued, used, got, pc, faults>> /\ admin.at = "write"
      /\ admin \in Operations /\ row \in Rows
  BY TypeParts DEF Inv1, UpdateWrite, rigid, provider
<1>2. row'.token = IF admin.new = None THEN admin.seen ELSE admin.new
  BY <1>1 DEF UpdateWrite, Rows
<1>3. \/ admin' = Idle
      \/ admin.op = "reauth" /\ admin' = [admin EXCEPT !.at = "clear"]
  BY DEF UpdateWrite
<1>4. \A u \in valid : u # None
  BY TokenFacts DEF Inv1, Issued
<1>5. /\ admin.new = None <=> admin.op = "edit"
      /\ admin.op = "edit" => "edit" \in faults
  BY <1>1, <1>4 DEF Inv1, AdminSteps, Private
<1>6. /\ admin'.at \notin {"read", "write"} /\ admin'.new \in {admin.new, None}
      /\ admin'.seen \in {admin.seen, None}
      /\ admin'.op = "idle" => admin'.at = "start"
      /\ admin'.op = "reauth" => admin'.at = "clear" /\ "reauth" \in faults
      /\ admin'.op \in {"idle", "reauth"}
  BY <1>1, <1>3 DEF Idle, Operations, Inv1, AdminSteps
<1>7. AdminSteps'
  BY <1>1, <1>6 DEF AdminSteps
<1>8. Issued'
  BY <1>1, <1>2, <1>6, TokenFacts DEF Inv1, Issued
<1>9. Refused'
  BY <1>1 DEF Inv1, Refused
<1>10. Private'
  <2>1. ASSUME NEW w \in Workers, pc'[w] = "save"
        PROVE  /\ got'[w] \in valid'
               /\ got'[w] # row'.token /\ got'[w] # admin'.seen /\ got'[w] # admin'.new
               /\ \A v \in Workers : used'[v] # got'[w] /\ (v # w => got'[v] # got'[w])
    BY <1>1, <1>2, <1>4, <1>6, <2>1 DEF Inv1, Private
  <2> QED
    BY <1>6, <2>1 DEF Private
<1>11. StoredTokenWorks'
  <2>1. SUFFICES ASSUME "edit" \notin faults PROVE row'.token \in valid'
    BY <1>1 DEF StoredTokenWorks
  <2> QED
    BY <1>1, <1>2, <1>5, <2>1 DEF Inv1, Private
<1> QED
  BY <1>7, <1>8, <1>9, <1>10, <1>11 DEF Rest1

LEMMA Init1 == Init => Inv1
<1> SUFFICES ASSUME Init PROVE Inv1
  OBVIOUS
<1>1. TypeOK
  BY InitType
<1>2. AdminSteps /\ Private /\ Refused /\ StoredTokenWorks
  BY DEF Init, Idle, AdminSteps, Private, Refused, StoredTokenWorks
<1>3. Issued
  BY DEF Init, Idle, None, Issued
<1> QED
  BY <1>1, <1>2, <1>3 DEF Inv1

LEMMA Step1 == Inv1 /\ [Next]_vars => Inv1'
<1> SUFFICES ASSUME Inv1, [Next]_vars PROVE Inv1'
  OBVIOUS
<1>1. TypeOK'
  BY NextType DEF Inv1
<1>2. TypeOK /\ Refused
  BY DEF Inv1
<1> SUFFICES Rest1'
  BY <1>1 DEF Rest1, Inv1
<1>3. ASSUME NEW w \in Workers,
             Start(w) \/ Crash(w) \/ Work(w)
      PROVE  Rest1'
  <2>1. CASE \/ Start(w) \/ EnterMutex(w) \/ TakeLock(w) \/ LockHeld(w) \/ WithoutLock(w)
             \/ InvalidGrant(w) \/ Recover(w) \/ SaveFails(w) \/ Quarantine(w) \/ Cool(w) \/ Crash(w)
    BY <1>1, <1>2, <2>1, QuietWork, QuietKeeps DEF Rest1
  <2>2. CASE Reread(w) \/ Refreshed(w) \/ RefreshFails(w) \/ Save(w)
    BY <1>1, <2>2, Reread1, Refreshed1, RefreshFails1, Save1
  <2> QED
    BY <1>3, <2>1, <2>2 DEF Work
<1>4. CASE Expire \/ CoolEnds \/ LockExpires \/ UNCHANGED vars
  <2>1. Quiet
    BY <1>2, <1>4, QuietTime
  <2> QED
    BY <1>1, <2>1, QuietKeeps DEF Rest1
<1>5. CASE Administer
  <2>1. CASE \/ EditAccount \/ RefreshByHand \/ UpdateRead \/ ClearError
             \/ AdminRefresh /\ UNCHANGED provider
    BY <1>1, <2>1, AdminQuiet1
  <2>2. CASE Reauthorize \/ (AdminRefresh /\ Rotate(admin.seen))
    BY <1>1, <2>2, AdminBrings1
  <2>3. CASE UpdateWrite
    BY <1>1, <2>3, UpdateWrite1
  <2>4. AdminRefresh => Rotate(admin.seen) \/ UNCHANGED provider
    BY DEF AdminRefresh
  <2> QED
    BY <1>5, <2>1, <2>2, <2>3, <2>4 DEF Administer
<1> QED
  BY <1>3, <1>4, <1>5 DEF Next

(* While no answer, save or process is lost and nobody edits the account, the *)
(* working refresh token is in the row or with the one about to write it.     *)
THEOREM TokenIsKept == Spec => []StoredTokenWorks
<1>1. Inv1 => StoredTokenWorks
  BY DEF Inv1
<1> QED
  BY Init1, Step1, <1>1, PTL DEF Spec

-----------------------------------------------------------------------------
(* For Grok a refresh saves a token of the grant the row has.                 *)
Grants ==
  platform = "grok" /\ "edit" \notin faults =>
    /\ row.token.g <= grants
    /\ \A w \in Workers : pc[w] = "save" => got[w].g = used[w].g
    /\ admin.op = "reauth" /\ admin.at \in {"read", "write"} => admin.new.g = grants
    /\ admin.op = "manual" /\ admin.at = "refresh" => admin.seen.g = row.token.g
    /\ admin.op = "manual" /\ admin.at \in {"read", "write"} => admin.new.g = row.token.g

LEMMA GrantFacts ==
  ASSUME TypeOK
  PROVE  row.token.g \in Nat /\ grants \in Nat /\ admin \in Operations /\ Idle \in Operations
         /\ Idle.op = "idle"
BY TypeParts, TokenFacts, NoneToken DEF TypeOK, Token, Idle, Operations, Statuses

LEMMA GrantStep ==
  ASSUME Inv1, Grants, [Next]_vars
  PROVE  /\ Grants'
         /\ platform = "grok" /\ "edit" \notin faults => row'.token.g >= row.token.g
<1>1. platform' = platform /\ faults' = faults
  BY DEF Next, Work, Administer, Start, EnterMutex, TakeLock, LockHeld, WithoutLock, Reread,
     Leave, Refreshed, InvalidGrant, RefreshFails, Recover, Save, SaveFails, Quarantine, Cool, Crash,
     Expire, CoolEnds, LockExpires, Reauthorize, EditAccount, RefreshByHand, AdminRefresh,
     UpdateRead, UpdateWrite, ClearError, vars, rigid
<1> SUFFICES ASSUME platform = "grok", "edit" \notin faults
             PROVE  Grants' /\ row'.token.g >= row.token.g
  BY <1>1 DEF Grants
<1>2. TypeOK /\ Refused /\ row.token.g \in Nat /\ grants \in Nat
      /\ admin \in Operations /\ Idle \in Operations /\ Idle.op = "idle"
  BY GrantFacts DEF Inv1
<1>3. ASSUME Quiet PROVE Grants' /\ row'.token.g >= row.token.g
  BY <1>1, <1>2, <1>3 DEF Quiet, Grants
<1>4. ASSUME NEW w \in Workers, Reread(w) PROVE Grants' /\ row'.token.g >= row.token.g
  <2>1. /\ UNCHANGED <<row, grants, admin, got>>
        /\ \A v \in Workers : pc'[v] = "save" => pc[v] = "save" /\ used'[v] = used[v]
    BY <1>2, <1>4 DEF Reread, Leave, TypeOK, account, provider
  <2> QED
    BY <1>1, <1>2, <2>1 DEF Grants
<1>5. ASSUME NEW w \in Workers, Refreshed(w) PROVE Grants' /\ row'.token.g >= row.token.g
  <2>1. /\ UNCHANGED <<row, grants, admin, used>> /\ Next1(used[w]).g = used[w].g
        /\ got' = [got EXCEPT ![w] = Next1(used[w])] /\ pc' = [pc EXCEPT ![w] = "save"]
    BY <1>5 DEF Refreshed, Rotate, account, Next1
  <2> QED
    BY <1>1, <1>2, <2>1 DEF Grants, TypeOK
<1>6. ASSUME NEW w \in Workers, RefreshFails(w) PROVE Grants' /\ row'.token.g >= row.token.g
  <2>1. /\ UNCHANGED <<row, grants, admin>>
        /\ \A v \in Workers : pc'[v] = "save" =>
             pc[v] = "save" /\ used'[v] = used[v] /\ got'[v] = got[v]
    BY <1>2, <1>6 DEF RefreshFails, GiveUp, AfterFailure, Rotate, TypeOK, account, provider
  <2> QED
    BY <1>1, <1>2, <2>1 DEF Grants
<1>7. ASSUME NEW w \in Workers, Save(w) PROVE Grants' /\ row'.token.g >= row.token.g
  <2>1. /\ pc[w] = "save" /\ UNCHANGED <<grants, admin>>
        /\ \A v \in Workers : pc'[v] = "save" =>
             pc[v] = "save" /\ used'[v] = used[v] /\ got'[v] = got[v]
    BY <1>2, <1>7 DEF Save, Leave, Forget, TypeOK, provider
  <2>2. row'.token = row.token \/ (row.token = used[w] /\ row'.token = got[w])
    BY <1>2, <1>7, TypeParts DEF Save, Rows
  <2>3. row'.token.g = row.token.g
    BY <2>1, <2>2 DEF Grants
  <2> QED
    BY <1>1, <1>2, <2>1, <2>3 DEF Grants
<1>8. ASSUME Administer PROVE Grants' /\ row'.token.g >= row.token.g
  <2>1. UNCHANGED <<pc, used, got>>
    BY <1>8 DEF Administer, Reauthorize, EditAccount, RefreshByHand, AdminRefresh,
       UpdateRead, UpdateWrite, ClearError
  <2>2. CASE Reauthorize
    <3>1. row' = row /\ grants' = grants + 1 /\ admin'.op = "reauth" /\ admin'.new.g = grants + 1
      BY <1>2, <2>2 DEF Reauthorize, account, Operations
    <3> QED
      BY <1>1, <1>2, <2>1, <3>1 DEF Grants
  <2>3. CASE EditAccount
    BY <1>2, <2>3 DEF EditAccount, Hit
  <2>4. CASE RefreshByHand
    <3>1. row' = row /\ grants' = grants /\ admin'.op = "manual" /\ admin'.at = "refresh"
          /\ admin'.seen = row.token
      BY <1>2, <2>4 DEF RefreshByHand, account, provider, Operations
    <3> QED
      BY <1>1, <1>2, <2>1, <3>1 DEF Grants
  <2>5. CASE AdminRefresh
    <3>1. row' = row /\ grants' = grants /\ admin.op = "manual" /\ admin.at = "refresh"
      BY <1>2, <2>5 DEF AdminRefresh, Rotate, account, provider, Inv1, AdminSteps, Operations
    <3>2. \/ admin' = Idle
          \/ admin'.op = "manual" /\ admin'.at = "read" /\ admin'.new.g = admin.seen.g
      <4>1. \/ admin' = [admin EXCEPT !.at = "read", !.new = Next1(admin.seen)]
            \/ admin' = Idle
        BY <2>5 DEF AdminRefresh
      <4>2. Next1(admin.seen).g = admin.seen.g
        BY DEF Next1
      <4> QED
        BY <1>2, <3>1, <4>1, <4>2 DEF Operations
    <3> QED
      BY <1>1, <1>2, <2>1, <3>1, <3>2 DEF Grants
  <2>6. CASE UpdateRead
    <3>1. row' = row /\ grants' = grants /\ admin.at = "read"
          /\ admin'.op = admin.op /\ admin'.at = "write" /\ admin'.new = admin.new
      BY <1>2, <2>6 DEF UpdateRead, account, provider, Operations
    <3> QED
      BY <1>1, <1>2, <2>1, <3>1 DEF Grants
  <2>7. CASE UpdateWrite
    <3>1. admin.new # None /\ admin.op \in {"reauth", "manual"} /\ admin.at = "write"
      <4>1. admin.at = "write" /\ admin.op \in {"reauth", "manual"}
        BY <1>2, <2>7 DEF UpdateWrite, Inv1, AdminSteps, Operations
      <4>2. admin.new \in valid
        BY <4>1 DEF Inv1, Private
      <4> QED
        BY <4>1, <4>2, <1>2, TokenFacts DEF Inv1, Issued
    <3>2. row'.token = admin.new /\ grants' = grants
          /\ (admin' = Idle \/ (admin.op = "reauth" /\ admin'.op = "reauth" /\ admin'.at = "clear"))
      BY <1>2, <2>7, <3>1 DEF UpdateWrite, provider, Operations
    <3> QED
      BY <1>1, <1>2, <2>1, <3>1, <3>2 DEF Grants
  <2>8. CASE ClearError
    <3>1. row'.token = row.token /\ grants' = grants /\ admin' = Idle
      BY <1>2, <2>8, TypeParts DEF ClearError, provider, Rows
    <3> QED
      BY <1>1, <1>2, <2>1, <3>1 DEF Grants
  <2> QED
    BY <1>8, <2>2, <2>3, <2>4, <2>5, <2>6, <2>7, <2>8 DEF Administer
<1>9. ASSUME NEW w \in Workers,
             \/ Start(w) \/ EnterMutex(w) \/ TakeLock(w) \/ LockHeld(w) \/ WithoutLock(w)
             \/ InvalidGrant(w) \/ Recover(w) \/ SaveFails(w) \/ Quarantine(w) \/ Cool(w) \/ Crash(w)
      PROVE  Quiet
  BY <1>2, <1>9, QuietWork
<1>10. ASSUME Expire \/ CoolEnds \/ LockExpires \/ UNCHANGED vars PROVE Quiet
  BY <1>2, <1>10, QuietTime
<1> QED
  BY <1>3, <1>4, <1>5, <1>6, <1>7, <1>8, <1>9, <1>10 DEF Next, Work

LEMMA GrantsInit == Init => Grants
BY DEF Init, Idle, Grants

(* For Grok no refresh puts credentials of an older grant over newer ones.    *)
THEOREM ReauthorizationStands == Spec => ReauthorizationKept
<1>1. Init => Inv1 /\ Grants
  BY Init1, GrantsInit
<1>2. Inv1 /\ Grants /\ [Next]_vars => Inv1' /\ Grants'
  BY Step1, GrantStep
<1>3. Inv1 /\ Grants /\ [Next]_vars
      => [platform = "grok" /\ "edit" \notin faults => row'.token.g >= row.token.g]_vars
  BY GrantStep
<1> QED
  BY <1>1, <1>2, <1>3, PTL DEF Spec, ReauthorizationKept

-----------------------------------------------------------------------------
(* While the lock does not fail, one worker at a time is between taking it    *)
(* and the end of RefreshIfNeeded.                                           *)
Inside == {"reread", "refresh", "recover", "save"}
LockWorks == faults \cap {"redis", "slow"} = {}
OneInside ==
  LockWorks =>
    /\ \A w \in Workers : pc[w] \in Inside => locked[w]
    /\ \A w \in Workers : locked[w] => lock
    /\ \A v, w \in Workers : locked[v] /\ locked[w] => v = w

LEMMA OneInsideStep ==
  ASSUME TypeOK, OneInside, [Next]_vars
  PROVE  OneInside'
<1>1. faults' = faults
  BY DEF Next, Work, Administer, Start, EnterMutex, TakeLock, LockHeld, WithoutLock, Reread,
     Leave, Refreshed, InvalidGrant, RefreshFails, Recover, Save, SaveFails, Quarantine, Cool, Crash,
     Expire, CoolEnds, LockExpires, Reauthorize, EditAccount, RefreshByHand, AdminRefresh,
     UpdateRead, UpdateWrite, ClearError, vars, rigid
<1> SUFFICES ASSUME LockWorks PROVE OneInside'
  BY <1>1 DEF OneInside, LockWorks
<1>2. /\ \A w \in Workers : pc[w] \in Inside => locked[w]
      /\ \A w \in Workers : locked[w] => lock
      /\ \A v, w \in Workers : locked[v] /\ locked[w] => v = w
      /\ pc \in [Workers -> Steps] /\ locked \in [Workers -> BOOLEAN]
      /\ lock \in BOOLEAN /\ faults \cap {"redis", "slow"} = {}
  BY TypeParts DEF OneInside, LockWorks
<1>3. ASSUME NEW w \in Workers, Start(w) \/ EnterMutex(w) \/ LockHeld(w) \/ Quarantine(w) \/ Cool(w)
      PROVE  OneInside'
  <2>1. UNCHANGED <<lock, locked>> /\ \A v \in Workers : pc'[v] \in Inside => pc[v] \in Inside
    BY <1>2, <1>3 DEF Start, EnterMutex, LockHeld, Quarantine, Cool, Inside
  <2> QED
    BY <1>2, <2>1 DEF OneInside
<1>4. ASSUME NEW w \in Workers, TakeLock(w) PROVE OneInside'
  BY <1>2, <1>4 DEF TakeLock, OneInside, Inside
<1>5. ASSUME NEW w \in Workers, WithoutLock(w) PROVE OneInside'
  BY <1>2, <1>5 DEF WithoutLock, Hit
<1>6. ASSUME NEW w \in Workers, Refreshed(w) \/ InvalidGrant(w) PROVE OneInside'
  <2>1. UNCHANGED <<lock, locked>> /\ \A v \in Workers : pc'[v] \in Inside => pc[v] \in Inside
    BY <1>2, <1>6 DEF Refreshed, InvalidGrant, Inside
  <2> QED
    BY <1>2, <2>1 DEF OneInside
<1>7. ASSUME NEW w \in Workers, NEW next, next \notin Inside,
             lock' = (lock /\ ~locked[w]), locked' = [locked EXCEPT ![w] = FALSE],
             pc' = [pc EXCEPT ![w] = next]
      PROVE  OneInside'
  <2>1. \A v \in Workers : locked'[v] => locked[v] /\ v # w
    BY <1>2, <1>7
  <2>2. \A v \in Workers : pc'[v] \in Inside => pc[v] \in Inside /\ v # w
    BY <1>2, <1>7
  <2>3. \A v \in Workers : v # w => locked'[v] = locked[v]
    BY <1>2, <1>7
  <2>4. \A v \in Workers : locked'[v] => lock'
    BY <1>2, <1>7, <2>1
  <2> QED
    BY <1>2, <2>1, <2>2, <2>3, <2>4 DEF OneInside
<1>8. ASSUME NEW w \in Workers, NEW next, next \notin Inside, Leave(w, next) PROVE OneInside'
  BY <1>2, <1>7, <1>8 DEF Leave, Hit
<1>9. ASSUME NEW w \in Workers, Reread(w) PROVE OneInside'
  <2>1. CASE row.status = "active" /\ row.due
    <3>1. UNCHANGED <<lock, locked>> /\ pc[w] = "reread"
          /\ \A v \in Workers : pc'[v] \in Inside => pc[v] \in Inside
      BY <1>2, <1>9, <2>1 DEF Reread, Inside
    <3> QED
      BY <1>2, <3>1 DEF OneInside
  <2>2. CASE ~(row.status = "active" /\ row.due)
    BY <1>8, <1>9, <2>2 DEF Reread, Inside
  <2> QED
    BY <2>1, <2>2
<1>10. ASSUME NEW w \in Workers, Recover(w) \/ Save(w) PROVE OneInside'
  BY <1>8, <1>10 DEF Recover, Save, Inside
<1>11. ASSUME NEW w \in Workers, RefreshFails(w) \/ SaveFails(w) PROVE OneInside'
  BY <1>7, <1>11 DEF RefreshFails, SaveFails, GiveUp, AfterFailure, Inside
<1>12. ASSUME NEW w \in Workers, Crash(w) PROVE OneInside'
  <2>1. /\ lock' = lock
        /\ \A v \in Workers : \/ pc'[v] = pc[v] /\ locked'[v] = locked[v]
                              \/ pc'[v] = "idle" /\ ~locked'[v]
    BY <1>2, <1>12 DEF Crash
  <2> QED
    BY <1>2, <2>1 DEF OneInside, Inside
<1>13. CASE LockExpires
  BY <1>2, <1>13 DEF LockExpires, Hit, OneInside
<1>14. CASE Expire \/ CoolEnds \/ Administer \/ UNCHANGED vars
  <2>1. UNCHANGED <<pc, lock, locked>>
    BY <1>14 DEF Expire, CoolEnds, vars, Administer, Reauthorize, EditAccount, RefreshByHand,
       AdminRefresh, UpdateRead, UpdateWrite, ClearError
  <2> QED
    BY <1>2, <2>1 DEF OneInside
<1> QED
  BY <1>3, <1>4, <1>5, <1>6, <1>9, <1>10, <1>11, <1>12, <1>13, <1>14 DEF Next, Work

LEMMA OneInsideInit == Init => OneInside
BY DEF Init, OneInside, Inside

(* If moreover nobody works beside the lock, the one inside has what the row  *)
(* holds.                                                                    *)
Undisturbed == faults \cap {"redis", "slow", "edit", "manual", "reauth"} = {}
Current ==
  Undisturbed => \A w \in Workers : pc[w] \in {"refresh", "recover", "save"} => used[w] = row.token

LEMMA CurrentStep ==
  ASSUME Inv1, OneInside, Current, [Next]_vars
  PROVE  Current'
<1>1. faults' = faults
  BY DEF Next, Work, Administer, Start, EnterMutex, TakeLock, LockHeld, WithoutLock, Reread,
     Leave, Refreshed, InvalidGrant, RefreshFails, Recover, Save, SaveFails, Quarantine, Cool, Crash,
     Expire, CoolEnds, LockExpires, Reauthorize, EditAccount, RefreshByHand, AdminRefresh,
     UpdateRead, UpdateWrite, ClearError, vars, rigid
<1> DEFINE busy == {"refresh", "recover", "save"}
<1> SUFFICES ASSUME Undisturbed PROVE Current'
  BY <1>1 DEF Current, Undisturbed
<1>2. /\ \A w \in Workers : pc[w] \in busy => used[w] = row.token
      /\ \A w \in Workers : pc[w] \in Inside => locked[w]
      /\ \A v, w \in Workers : locked[v] /\ locked[w] => v = w
      /\ pc \in [Workers -> Steps] /\ used \in [Workers -> Token] /\ row \in Rows
  BY TypeParts DEF Current, Inv1, OneInside, LockWorks, Undisturbed
<1>3. ASSUME row'.token = row.token,
             \A w \in Workers : pc'[w] \in busy => pc[w] \in busy /\ used'[w] = used[w]
      PROVE  Current'
  BY <1>2, <1>3 DEF Current
<1>4. ASSUME NEW w \in Workers,
             \/ Start(w) \/ EnterMutex(w) \/ TakeLock(w) \/ LockHeld(w) \/ WithoutLock(w)
             \/ Refreshed(w) \/ InvalidGrant(w)
      PROVE  Current'
  <2>1. UNCHANGED <<row, used>> /\ \A v \in Workers : pc'[v] \in busy => pc[v] \in busy
    BY <1>2, <1>4 DEF Start, EnterMutex, TakeLock, LockHeld, WithoutLock, Refreshed,
       InvalidGrant, account
  <2> QED
    BY <1>3, <2>1
<1>5. ASSUME NEW w \in Workers, Reread(w) PROVE Current'
  <2>1. CASE row.status = "active" /\ row.due
    BY <1>2, <1>5, <2>1 DEF Reread, Current, account
  <2>2. CASE ~(row.status = "active" /\ row.due)
    BY <1>2, <1>3, <1>5, <2>2 DEF Reread, Leave, account
  <2> QED
    BY <2>1, <2>2
<1>6. ASSUME NEW w \in Workers, RefreshFails(w) \/ SaveFails(w) PROVE Current'
  <2>1. row' = row /\ \A v \in Workers : pc'[v] \in busy => pc[v] \in busy /\ used'[v] = used[v]
    BY <1>2, <1>6 DEF RefreshFails, SaveFails, GiveUp, AfterFailure, account
  <2> QED
    BY <1>3, <2>1
<1>7. ASSUME NEW w \in Workers, Recover(w) PROVE Current'
  <2>1. row' = row /\ \A v \in Workers : pc'[v] \in busy => pc[v] \in busy /\ used'[v] = used[v]
    BY <1>2, <1>7 DEF Recover, Leave, Forget, account
  <2> QED
    BY <1>3, <2>1
<1>8. ASSUME NEW w \in Workers, Save(w) PROVE Current'
  <2>1. pc[w] = "save" /\ pc' = [pc EXCEPT ![w] = "idle"]
    BY <1>8 DEF Save, Leave
  <2>2. \A v \in Workers : pc'[v] \notin busy
    BY <1>2, <2>1 DEF Inside
  <2> QED
    BY <2>2 DEF Current
<1>9. ASSUME NEW w \in Workers, Quarantine(w) \/ Cool(w) PROVE Current'
  <2>1. row'.token = row.token
    BY <1>2, <1>9 DEF Quarantine, Cool, Rows
  <2>2. \A v \in Workers : pc'[v] \in busy => pc[v] \in busy /\ used'[v] = used[v]
    BY <1>2, <1>9 DEF Quarantine, Cool, Forget
  <2> QED
    BY <1>3, <2>1, <2>2
<1>10. ASSUME NEW w \in Workers, Crash(w) PROVE Current'
  <2>1. row' = row /\ \A v \in Workers : pc'[v] \in busy => pc[v] \in busy /\ used'[v] = used[v]
    BY <1>2, <1>10 DEF Crash, account
  <2> QED
    BY <1>3, <2>1
<1>11. CASE Expire \/ CoolEnds \/ LockExpires \/ UNCHANGED vars
  <2>1. row'.token = row.token /\ UNCHANGED <<pc, used>>
    BY <1>2, <1>11 DEF Expire, CoolEnds, LockExpires, vars, account, Rows
  <2> QED
    BY <1>3, <2>1
<1>12. ASSUME Administer PROVE FALSE
  <2>1. admin.op = "idle" /\ admin.at = "start"
    BY TypeParts DEF Inv1, AdminSteps, Undisturbed, Operations
  <2> QED
    BY <1>12, <2>1 DEF Administer, Reauthorize, EditAccount, RefreshByHand, AdminRefresh,
       UpdateRead, UpdateWrite, ClearError, Hit, Undisturbed
<1> QED
  BY <1>4, <1>5, <1>6, <1>7, <1>8, <1>9, <1>10, <1>11, <1>12 DEF Next, Work

(* As long as the lock works and nobody works beside it, a token the provider *)
(* no longer accepts is sent only when it is the one the row still holds.     *)
THEOREM NoRefreshRace == Spec => []LockPreventsReuse
<1>1. Init => Inv1 /\ OneInside /\ Current
  BY Init1, OneInsideInit DEF Init, Current
<1>2. Inv1 /\ OneInside /\ Current /\ [Next]_vars => Inv1' /\ OneInside' /\ Current'
  BY Step1, OneInsideStep, CurrentStep DEF Inv1
<1>3. Current => LockPreventsReuse
  BY DEF Current, Undisturbed, LockPreventsReuse
<1> QED
  BY <1>1, <1>2, <1>3, PTL DEF Spec

-----------------------------------------------------------------------------
(* What makes an error final: the quarantined token is the one in the row, no *)
(* worker has rotated it, and none is about to save the token it rotated to.  *)
Trusted ==
  /\ faults \cap {"redis", "slow", "edit", "manual"} = {}
  /\ platform = "grok" \/ "reauth" \notin faults
Dead ==
  Trusted =>
    /\ row.status = "error" /\ admin.at # "clear" =>
         row.token \notin valid /\ \A w \in Workers : pc[w] = "save" => used[w] # row.token
    /\ \A v, w \in Workers : pc[v] = "quarantine" /\ pc[w] = "save" => used[v] # used[w]
    /\ platform = "other" => \A w \in Workers : pc[w] = "quarantine" => used[w] = row.token

LEMMA DeadInit == Init => Dead
BY DEF Init, Dead

LEMMA DeadStep ==
  ASSUME Inv1, TypeOK', OneInside, Current, Dead, [Next]_vars
  PROVE  Dead'
<1>1. faults' = faults /\ platform' = platform
  BY DEF Next, Work, Administer, Start, EnterMutex, TakeLock, LockHeld, WithoutLock, Reread,
     Leave, Refreshed, InvalidGrant, RefreshFails, Recover, Save, SaveFails, Quarantine, Cool, Crash,
     Expire, CoolEnds, LockExpires, Reauthorize, EditAccount, RefreshByHand, AdminRefresh,
     UpdateRead, UpdateWrite, ClearError, vars, rigid
<1> SUFFICES ASSUME Trusted PROVE Dead'
  BY <1>1 DEF Dead, Trusted
<1>2. /\ row.status = "error" /\ admin.at # "clear" =>
           row.token \notin valid /\ \A w \in Workers : pc[w] = "save" => used[w] # row.token
      /\ \A v, w \in Workers : pc[v] = "quarantine" /\ pc[w] = "save" => used[v] # used[w]
      /\ platform = "other" => \A w \in Workers : pc[w] = "quarantine" => used[w] = row.token
  BY DEF Dead
<1>3. /\ \A w \in Workers : pc[w] \in Inside => locked[w]
      /\ \A v, w \in Workers : locked[v] /\ locked[w] => v = w
  BY DEF OneInside, LockWorks, Trusted
<1>4. platform = "other" =>
        \A w \in Workers : pc[w] \in {"refresh", "recover", "save"} => used[w] = row.token
  BY DEF Current, Undisturbed, Trusted
<1>5. /\ pc \in [Workers -> Steps] /\ used \in [Workers -> Token] /\ row \in Rows
      /\ admin \in Operations /\ platform \in {"grok", "other"} /\ Refused /\ TypeOK
      /\ \A w \in Workers : pc[w] \in {"recover", "quarantine"} => used[w] \notin valid
  BY TypeParts, PlatformsAssumption DEF Inv1, Refused
<1>6. admin.op \in {"idle", "reauth"}
  BY <1>5 DEF Inv1, AdminSteps, Trusted, Operations
<1>7. ASSUME row'.token = row.token, row'.status = row.status, UNCHANGED admin,
             row.token \in valid' => row.token \in valid,
             \A w \in Workers : pc'[w] \in {"save", "quarantine"} => pc'[w] = pc[w] /\ used'[w] = used[w]
      PROVE  Dead'
  BY <1>1, <1>2, <1>7 DEF Dead
<1>8. ASSUME NEW w \in Workers,
             Start(w) \/ EnterMutex(w) \/ TakeLock(w) \/ LockHeld(w) \/ WithoutLock(w) \/ InvalidGrant(w)
      PROVE  Dead'
  <2>1. UNCHANGED <<row, used, admin, valid>>
        /\ \A v \in Workers : pc'[v] \in {"save", "quarantine"} => pc'[v] = pc[v]
    BY <1>5, <1>8 DEF Start, EnterMutex, TakeLock, LockHeld, WithoutLock, InvalidGrant,
       account, provider
  <2> QED
    BY <1>7, <2>1
<1>9. ASSUME NEW w \in Workers, Reread(w) PROVE Dead'
  <2>1. UNCHANGED <<row, admin, valid>>
        /\ \A v \in Workers : pc'[v] \in {"save", "quarantine"} => pc'[v] = pc[v] /\ used'[v] = used[v]
    BY <1>5, <1>9 DEF Reread, Leave, account, provider
  <2> QED
    BY <1>7, <2>1
<1>10. ASSUME NEW t \in Token, Rotate(t) PROVE row.token \in valid' => row.token \in valid
  BY <1>10, TokenFacts DEF Rotate, Inv1, Issued
<1>11. ASSUME NEW w \in Workers, RefreshFails(w) \/ SaveFails(w) PROVE Dead'
  <2>1. UNCHANGED <<row, admin>> /\ (Rotate(used[w]) \/ valid' = valid)
        /\ \A v \in Workers : pc'[v] \in {"save", "quarantine"} => pc'[v] = pc[v] /\ used'[v] = used[v]
    BY <1>5, <1>11 DEF RefreshFails, SaveFails, GiveUp, AfterFailure, account, provider
  <2> QED
    BY <1>5, <1>7, <1>10, <2>1
<1>12. ASSUME NEW w \in Workers, Refreshed(w) PROVE Dead'
  <2>1. /\ UNCHANGED <<row, admin, used>> /\ used[w] \in valid /\ pc[w] = "refresh"
        /\ pc' = [pc EXCEPT ![w] = "save"]
        /\ row.token \in valid' => row.token \in valid
    BY <1>5, <1>10, <1>12 DEF Refreshed, Rotate, account
  <2>2. row.status = "error" /\ admin.at # "clear" => used[w] # row.token
    BY <1>2, <2>1
  <2>3. \A v \in Workers : pc[v] = "quarantine" => used[v] # used[w]
    BY <1>5, <2>1
  <2>4. \A v \in Workers : pc'[v] = "save" => v = w \/ pc[v] = "save"
    BY <1>5, <2>1
  <2>5. \A v \in Workers : pc'[v] = "quarantine" => pc[v] = "quarantine"
    BY <1>5, <2>1
  <2> QED
    BY <1>1, <1>2, <2>1, <2>2, <2>3, <2>4, <2>5 DEF Dead
<1>13. ASSUME NEW w \in Workers, Recover(w) PROVE Dead'
  <2>1. /\ UNCHANGED <<row, admin, valid>> /\ pc[w] = "recover"
        /\ \A v \in Workers : v # w => pc'[v] = pc[v] /\ used'[v] = used[v]
        /\ pc'[w] # "save"
        /\ pc'[w] = "quarantine" => used'[w] = used[w] /\ used[w] = row.token
    BY <1>5, <1>13 DEF Recover, Leave, Forget, account, provider
  <2>2. \A v \in Workers : pc[v] # "save"
    BY <1>3, <2>1 DEF Inside
  <2>3. \A v \in Workers : pc'[v] # "save"
    BY <2>1, <2>2
  <2> QED
    BY <1>1, <1>2, <2>1, <2>3 DEF Dead
<1>14. ASSUME NEW w \in Workers, Save(w) PROVE Dead'
  <2>1. /\ pc[w] = "save" /\ pc' = [pc EXCEPT ![w] = "idle"] /\ UNCHANGED <<admin, valid>>
        /\ \A v \in Workers : v # w => used'[v] = used[v]
    BY <1>5, <1>14 DEF Save, Leave, Forget, provider
  <2>2. \A v \in Workers : pc'[v] # "save"
    BY <1>3, <1>5, <2>1 DEF Inside
  <2>3. row'.status = row.status
    BY <1>5, <1>14 DEF Save, Rows
  <2>4. row' = row \/ row.token = used[w]
    BY <1>4, <1>5, <1>14, <2>1 DEF Save
  <2>5. row.status = "error" /\ admin.at # "clear" => row' = row
    BY <1>2, <2>1, <2>4
  <2>6. platform = "other" => \A v \in Workers : pc[v] # "quarantine"
    BY <1>2, <1>4, <2>1
  <2>7. \A v \in Workers : pc'[v] = "quarantine" => pc[v] = "quarantine" /\ v # w
    BY <1>5, <2>1
  <2> QED
    BY <1>1, <1>2, <2>1, <2>2, <2>3, <2>5, <2>6, <2>7 DEF Dead
<1>15. ASSUME NEW w \in Workers, Quarantine(w) PROVE Dead'
  <2>1. /\ pc[w] = "quarantine" /\ pc' = [pc EXCEPT ![w] = "idle"] /\ UNCHANGED <<admin, valid>>
        /\ \A v \in Workers : v # w => used'[v] = used[v]
        /\ row'.token = row.token
    BY <1>5, <1>15 DEF Quarantine, Forget, provider, Rows
  <2>2. row' = row \/ used[w] = row.token
    BY <1>2, <1>5, <1>15, <2>1 DEF Quarantine
  <2>3. used[w] = row.token =>
          row.token \notin valid /\ \A v \in Workers : pc[v] = "save" => used[v] # row.token
    BY <1>2, <1>5, <2>1
  <2>4. \A v \in Workers : pc'[v] \in {"save", "quarantine"} => pc'[v] = pc[v] /\ used'[v] = used[v]
    BY <1>5, <2>1
  <2> QED
    BY <1>1, <1>2, <2>1, <2>2, <2>3, <2>4 DEF Dead
<1>16. ASSUME NEW w \in Workers, Cool(w) \/ Crash(w) PROVE Dead'
  <2>1. UNCHANGED <<row, admin, valid>>
        /\ \A v \in Workers : pc'[v] \in {"save", "quarantine"} => pc'[v] = pc[v] /\ used'[v] = used[v]
    BY <1>5, <1>16 DEF Cool, Crash, Forget, account, provider
  <2> QED
    BY <1>7, <2>1
<1>17. CASE Expire \/ CoolEnds \/ LockExpires \/ UNCHANGED vars
  <2>1. row'.token = row.token /\ row'.status = row.status /\ UNCHANGED <<pc, used, admin, valid>>
    BY <1>5, <1>17 DEF Expire, CoolEnds, LockExpires, vars, account, provider, Rows
  <2> QED
    BY <1>7, <2>1
<1>18. CASE Administer
  <2>1. UNCHANGED <<pc, used>>
    BY <1>18 DEF Administer, Reauthorize, EditAccount, RefreshByHand, AdminRefresh,
       UpdateRead, UpdateWrite, ClearError
  <2>2. ~EditAccount /\ ~RefreshByHand /\ ~AdminRefresh
    BY <1>5, <1>6 DEF EditAccount, RefreshByHand, AdminRefresh, Hit, Trusted, Inv1, AdminSteps
  <2>3. CASE Reauthorize
    <3>1. admin.at = "start" /\ admin'.at = "read" /\ row' = row
          /\ (row.token \in valid' => row.token \in valid)
      BY <1>5, <2>3, TokenFacts DEF Reauthorize, Inv1, AdminSteps, Issued, account, Idle
    <3> QED
      BY <1>1, <1>2, <2>1, <3>1 DEF Dead
  <2>4. CASE UpdateRead
    <3>1. admin.at = "read" /\ row' = row /\ valid' = valid
      BY <2>4 DEF UpdateRead, account, provider
    <3> QED
      BY <1>1, <1>2, <2>1, <3>1 DEF Dead
  <2>5. CASE UpdateWrite
    <3>1. admin.op = "reauth" /\ platform = "grok" /\ admin'.at = "clear"
      BY <1>5, <1>6, <2>5 DEF UpdateWrite, Inv1, AdminSteps, Trusted, Operations
    <3> QED
      BY <1>1, <1>2, <2>1, <3>1 DEF Dead
  <2>6. CASE ClearError
    <3>1. row'.status = "active" /\ row'.token = row.token
      BY <1>5, <2>6 DEF ClearError, Rows
    <3> QED
      BY <1>1, <1>2, <2>1, <3>1 DEF Dead
  <2> QED
    BY <1>18, <2>2, <2>3, <2>4, <2>5, <2>6 DEF Administer
<1> QED
  BY <1>8, <1>9, <1>11, <1>12, <1>13, <1>14, <1>15, <1>16, <1>17, <1>18 DEF Next, Work

(* An account put in error has no refresh token left that works, unless the   *)
(* lock failed or somebody worked beside it.                                 *)
THEOREM ErrorIsFinal == Spec => []ErrorMeansDead
<1>1. Init => Inv1 /\ OneInside /\ Current /\ Dead
  BY Init1, OneInsideInit, DeadInit DEF Init, Current
<1>2. Inv1 /\ OneInside /\ Current /\ Dead /\ [Next]_vars
      => Inv1' /\ OneInside' /\ Current' /\ Dead'
  BY Step1, OneInsideStep, CurrentStep, DeadStep DEF Inv1
<1>3. Inv1 /\ Dead => ErrorMeansDead
  BY DEF Inv1, AdminSteps, Dead, Trusted, ErrorMeansDead
<1> QED
  BY <1>1, <1>2, <1>3, PTL DEF Spec
=============================================================================
