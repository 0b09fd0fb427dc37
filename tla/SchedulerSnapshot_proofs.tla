---------------------- MODULE SchedulerSnapshot_proofs ----------------------
(* Proofs about SchedulerSnapshot: types, that no event is passed over, and   *)
(* that what requests are served is current once every event is handled.      *)
EXTENDS SchedulerSnapshot, SequenceTheorems, WellFoundedInduction, TLAPS

Types == {"account", "bulk"}
Events == [acct : Accounts, type : Types \cup {"used"}, groups : BOOLEAN, visible : BOOLEAN]
Tasks == [pc : {"idle", "get", "set", "lock", "next", "mark"} \cup Building, todo : SUBSET Nat,
          last : Nat, seen : BOOLEAN, hand : Rows \cup {"none"}, rows : [Accounts -> Rows]]
Edits == [pc : {"idle", "enqueue", "read", "write", "forget", "commit"}, acct : Accounts,
          type : Types, groups : BOOLEAN, sync : BOOLEAN, hand : Rows \cup {"none"}, id : Nat]
Copies == (Rows \ {"gone"}) \cup {"none"}

(* TypeOK by its parts.                                                      *)
LEMMA TypeParts ==
  TypeOK <=> /\ platform \in {"grok", "other"} /\ team \subseteq Workers \cup Editors
             /\ faults \subseteq Faults /\ changes \in Nat /\ failures \in 0 .. MaxFailures
             /\ db \in [Accounts -> Rows] /\ outbox \in Seq(Events)
             /\ acc \in [Accounts -> Copies] /\ active \subseteq Accounts
             /\ drawn \in Seq(Workers) /\ lock \in BOOLEAN
             /\ watermark \in Nat /\ handled \subseteq Nat
             /\ work \in [Workers -> Tasks] /\ edit \in [Editors -> Edits]
BY DEF TypeOK, Types, Events, Tasks, Edits, Copies

(* Sets of naturals have a least element, and bounded ones a greatest.       *)
LEMMA LeastExists ==
  ASSUME NEW T, T \subseteq Nat, T # {}
  PROVE  \E x \in T : \A y \in T : x <= y
<1>1. PICK x \in T : \A y \in T : ~ (<<y, x>> \in OpToRel(<, Nat))
  BY WFMin, NatLessThanWellFounded
<1>2. \A y \in T : <<y, x>> \in Nat \X Nat
  OBVIOUS
<1>3. \A y \in T : ~ (y < x)
  BY <1>1, <1>2 DEF OpToRel
<1> QED
  BY <1>3

LEMMA GreatestExists ==
  ASSUME NEW n \in Nat, NEW T, T \subseteq 0 .. n, T # {}
  PROVE  \E x \in T : \A y \in T : y <= x
<1> DEFINE D == {k \in Nat : n - k \in T}
<1>1. PICK t \in T : TRUE
  OBVIOUS
<1>2. n - t \in D
  BY <1>1
<1>3. PICK k \in D : \A j \in D : k <= j
  <2> HIDE DEF D
  <2>1. D \subseteq Nat
    BY DEF D
  <2> QED
    BY <1>2, <2>1, LeastExists
<1>4. \A y \in T : n - y \in D
  OBVIOUS
<1>5. \A y \in T : k <= n - y
  BY <1>3, <1>4
<1>6. \A y \in T : y <= n - k
  BY <1>5
<1> QED
  BY <1>6

(* A task's next event is one of those that it has left.                     *)
LEMMA LeastLeft ==
  ASSUME NEW w \in Workers, TypeOK, work[w].todo # {}
  PROVE  Least(w) \in work[w].todo
<1>1. work[w].todo \subseteq Nat
  BY TypeParts DEF Tasks
<1> QED
  BY <1>1, LeastExists DEF Least

LEMMA NewestBeyond ==
  ASSUME TypeOK, Beyond # {}
  PROVE  Newest \in Beyond /\ \A i \in Beyond : i <= Newest
<1>1. Beyond \subseteq 0 .. Len(outbox) /\ Len(outbox) \in Nat
  BY TypeParts DEF Beyond
<1> QED
  BY <1>1, GreatestExists DEF Newest

LEMMA InitType == Init => TypeOK
<1> SUFFICES ASSUME Init PROVE TypeOK
  OBVIOUS
<1>1. PICK s \in Settings : platform = s.platform /\ team = s.team /\ faults = s.faults /\ changes = s.changes
  BY DEF Init
<1>2. /\ platform \in {"grok", "other"} /\ team \subseteq Workers \cup Editors
      /\ faults \subseteq Faults /\ changes \in Nat
  BY <1>1, SchedulerSnapshotAssumption
<1>3. Resting \in Tasks
  BY DEF Resting, Tasks, Rows
<1>4. Still \in Edits
  BY SchedulerSnapshotAssumption DEF Still, Start, Edits, Types
<1>5. db \in [Accounts -> Rows] /\ failures \in 0 .. MaxFailures
  BY SchedulerSnapshotAssumption DEF Init, Rows
<1>6. <<>> \in Seq(Events) /\ <<>> \in Seq(Workers)
  OBVIOUS
<1>7. acc \in [Accounts -> Copies] /\ work \in [Workers -> Tasks] /\ edit \in [Editors -> Edits]
  BY <1>3, <1>4 DEF Init, Copies
<1> QED
  BY <1>2, <1>5, <1>6, <1>7, TypeParts DEF Init

-----------------------------------------------------------------------------

(* What an editor is about to write is no deleted account.                   *)
Hands == \A e \in Editors : edit[e].pc = "write" => edit[e].hand # "gone"

(* Only pollers have events to handle, and have some until they are done.    *)
Turns ==
  \A w \in Workers :
     /\ w \notin Pollers => work[w].todo = {} /\ work[w].pc \in {"idle", "lock"} \cup Building
     /\ w \in Pollers /\ work[w].pc \notin {"idle", "mark"} => work[w].todo # {}
     /\ work[w].pc \in {"idle", "mark"} => work[w].todo = {}
     /\ work[w].todo \subseteq DOMAIN outbox

IInv == TypeOK /\ Hands /\ Turns

(* An event is appended, and nothing else changes in the outbox.             *)
LEMMA InsertOutbox ==
  ASSUME TypeOK, NEW a \in Accounts, NEW type \in Types \cup {"used"}, NEW groups \in BOOLEAN,
         NEW visible \in BOOLEAN, Insert(a, type, groups, visible)
  PROVE  /\ outbox' \in Seq(Events)
         /\ DOMAIN outbox = 1 .. Len(outbox) /\ DOMAIN outbox' = 1 .. Len(outbox) + 1
         /\ Len(outbox') = Len(outbox) + 1 /\ Len(outbox) \in Nat
         /\ \A i \in DOMAIN outbox : outbox'[i] = outbox[i]
         /\ outbox'[Len(outbox) + 1].visible = visible
<1> DEFINE ev == [acct |-> a, type |-> type, groups |-> groups, visible |-> visible]
<1>1. ev \in Events
  BY DEF Events
<1>2. ev.visible = visible
  OBVIOUS
<1>3. outbox \in Seq(Events) /\ outbox' = Append(outbox, ev)
  BY TypeParts DEF Insert
<1> HIDE DEF ev
<1>4. /\ Append(outbox, ev) \in Seq(Events) /\ Len(Append(outbox, ev)) = Len(outbox) + 1
      /\ \A i \in 1 .. Len(outbox) : Append(outbox, ev)[i] = outbox[i]
      /\ Append(outbox, ev)[Len(outbox) + 1] = ev
  BY <1>1, <1>3, AppendProperties
<1>5. DOMAIN outbox = 1 .. Len(outbox) /\ DOMAIN outbox' = 1 .. Len(outbox') /\ Len(outbox) \in Nat
  BY <1>3, <1>4
<1> QED
  BY <1>2, <1>3, <1>4, <1>5

(* A commit makes its transaction's event visible, or changes no event.      *)
LEMMA CommitOutbox ==
  ASSUME TypeOK, NEW e \in Editors, Commit(e)
  PROVE  \/ outbox' = outbox
         \/ /\ edit[e].id # 0 /\ outbox' \in Seq(Events)
            /\ DOMAIN outbox' = DOMAIN outbox
            /\ \A i \in DOMAIN outbox : i # edit[e].id => outbox'[i] = outbox[i]
            /\ \A i \in DOMAIN outbox : i = edit[e].id => outbox'[i].visible
<1> DEFINE id == edit[e].id
           new == [outbox EXCEPT ![id].visible = TRUE]
<1>1. outbox \in Seq(Events) /\ id \in Nat
  BY TypeParts DEF Edits
<1>2. outbox \in [1 .. Len(outbox) -> Events] /\ Len(outbox) \in Nat
  BY <1>1
<1>3. new \in [1 .. Len(outbox) -> Events]
  <2>1. \A v \in Events : [v EXCEPT !.visible = TRUE] \in Events
    BY DEF Events
  <2> QED
    BY <1>2, <2>1
<1>4. new \in Seq(Events)
  BY <1>2, <1>3, SeqDef
<1>5. DOMAIN new = DOMAIN outbox /\ \A i \in DOMAIN outbox : i # id => new[i] = outbox[i]
  BY <1>2
<1>7. \A i \in DOMAIN outbox : i = id => new[i].visible
  BY <1>2 DEF Events
<1>6. outbox' = outbox \/ (id # 0 /\ outbox' = new)
  BY DEF Commit
<1> QED
  BY <1>4, <1>5, <1>6, <1>7

(* The types and the hands after an editor's step.                           *)
LEMMA EditType ==
  ASSUME IInv, UNCHANGED setup, NEW e \in Editors, Edit(e)
  PROVE  TypeOK' /\ Hands'
<1>1. /\ platform' \in {"grok", "other"} /\ team' \subseteq Workers \cup Editors
      /\ faults' \subseteq Faults /\ failures' \in 0 .. MaxFailures
      /\ active' \subseteq Accounts /\ drawn' \in Seq(Workers) /\ lock' \in BOOLEAN
      /\ watermark' \in Nat /\ handled' \subseteq Nat /\ work' \in [Workers -> Tasks]
  BY TypeParts DEF IInv, setup, Edit, bucket
<1> DEFINE Parts == /\ changes' \in Nat /\ db' \in [Accounts -> Rows] /\ outbox' \in Seq(Events)
                   /\ acc' \in [Accounts -> Copies] /\ edit' \in [Editors -> Edits] /\ Hands'
<1> SUFFICES Parts
  BY <1>1 DEF TypeOK, Types, Events, Tasks, Edits, Copies
<1>2. /\ changes \in Nat /\ db \in [Accounts -> Rows] /\ outbox \in Seq(Events)
      /\ acc \in [Accounts -> Copies] /\ edit \in [Editors -> Edits] /\ Hands
  BY TypeParts DEF IInv
<1>3. ASSUME Begin(e) PROVE changes' \in Nat
  BY <1>2, <1>3 DEF Begin
<1>4. ASSUME NEW a \in Accounts, NEW pc \in {"idle", "enqueue", "read", "write", "forget", "commit"}
      PROVE  Start(a, pc) \in Edits
  BY DEF Start, Edits, Types
<1>5. Still \in Edits /\ Still.pc = "idle"
  BY SchedulerSnapshotAssumption DEF Still, Start, Edits, Types
<1>6. edit[e].acct \in Accounts /\ edit[e].type \in Types /\ edit[e].groups \in BOOLEAN
  BY <1>2 DEF Edits
<1>7. CASE Change(e)
  <2>1. PICK a \in Accounts, row \in {"on", "off"}, type \in {"account", "bulk"}, groups \in BOOLEAN, sync \in BOOLEAN :
           /\ db' = [db EXCEPT ![a] = row]
           /\ edit' = [edit EXCEPT ![e] = [Start(a, "enqueue") EXCEPT !.type = type, !.groups = groups, !.sync = sync]]
    BY <1>7, ZenonT(20) DEF Change
  <2>2. [Start(a, "enqueue") EXCEPT !.type = type, !.groups = groups, !.sync = sync] \in Edits
    <3> DEFINE s == Start(a, "enqueue")
               st == [s EXCEPT !.type = type]
               sg == [st EXCEPT !.groups = groups]
    <3>1. s \in Edits
      BY <1>4
    <3>2. st \in Edits
      BY <3>1 DEF Edits, Types
    <3>3. sg \in Edits
      <4> HIDE DEF st
      <4> QED
        BY <3>2 DEF Edits
    <3>4. [sg EXCEPT !.sync = sync] \in Edits
      <4> HIDE DEF sg
      <4> QED
        BY <3>3 DEF Edits
    <3>5. [s EXCEPT !.type = type, !.groups = groups, !.sync = sync] = [sg EXCEPT !.sync = sync]
      BY Zenon
    <3> QED
      BY <3>4, <3>5
  <2>3. [Start(a, "enqueue") EXCEPT !.type = type, !.groups = groups, !.sync = sync].pc = "enqueue"
    BY DEF Start
  <2>4. edit' \in [Editors -> Edits] /\ Hands'
    BY <1>2, <2>1, <2>2, <2>3 DEF Hands
  <2>5. db' \in [Accounts -> Rows]
    BY <1>2, <2>1 DEF Rows
  <2> QED
    BY <1>2, <1>3, <1>7, <2>4, <2>5 DEF Change
<1>8. CASE Delete(e)
  <2>1. PICK a \in Accounts :
           /\ db' = [db EXCEPT ![a] = "gone"]
           /\ edit' = [edit EXCEPT ![e] = [Start(a, "forget") EXCEPT !.groups = TRUE]]
    BY <1>8 DEF Delete
  <2>2. [Start(a, "forget") EXCEPT !.groups = TRUE] \in Edits
    BY DEF Start, Edits, Types
  <2>3. [Start(a, "forget") EXCEPT !.groups = TRUE].pc = "forget"
    BY DEF Start
  <2>4. edit' \in [Editors -> Edits] /\ Hands'
    BY <1>2, <2>1, <2>2, <2>3 DEF Hands
  <2>5. db' \in [Accounts -> Rows]
    BY <1>2, <2>1 DEF Rows
  <2> QED
    BY <1>2, <1>3, <1>8, <2>4, <2>5 DEF Delete
<1>9. CASE Forget(e)
  <2>1. acc' \in [Accounts -> Copies]
    BY <1>2, <1>9 DEF Forget, Copies
  <2>2. edit' = [edit EXCEPT ![e].pc = "enqueue"]
    BY <1>9 DEF Forget
  <2>3. edit' \in [Editors -> Edits] /\ Hands'
    <3> DEFINE new == [edit[e] EXCEPT !.pc = "enqueue"]
    <3>1. edit[e] \in Edits
      BY <1>2
    <3>2. new \in Edits /\ new.pc = "enqueue"
      BY <3>1 DEF Edits
    <3>3. edit' = [edit EXCEPT ![e] = new]
      BY <1>2, <2>2 DEF Edits
    <3> HIDE DEF new
    <3> QED
      BY <1>2, <3>2, <3>3 DEF Hands
  <2> QED
    BY <1>2, <1>9, <2>1, <2>3 DEF Forget
<1>10. CASE Charge(e)
  <2>1. PICK a \in Accounts :
           \/ /\ Insert(a, "account", FALSE, FALSE)
              /\ edit' = [edit EXCEPT ![e] = [Start(a, "commit") EXCEPT !.id = Len(outbox) + 1]]
           \/ edit' = [edit EXCEPT ![e] = Start(a, "commit")] /\ UNCHANGED outbox
    BY <1>10 DEF Charge
  <2>2. Start(a, "commit") \in Edits /\ Start(a, "commit").pc = "commit"
    BY <1>4 DEF Start
  <2>3. [Start(a, "commit") EXCEPT !.id = Len(outbox) + 1] \in Edits
    <3> DEFINE s == Start(a, "commit")
    <3>1. s \in Edits /\ Len(outbox) + 1 \in Nat
      BY <1>2, <2>2
    <3> HIDE DEF s
    <3>2. [s EXCEPT !.id = Len(outbox) + 1] \in Edits
      BY <3>1 DEF Edits
    <3> QED
      BY <3>2 DEF s
  <2>4. [Start(a, "commit") EXCEPT !.id = Len(outbox) + 1].pc = "commit"
    BY DEF Start
  <2>5. edit' \in [Editors -> Edits] /\ Hands'
    BY <1>2, <2>1, <2>2, <2>3, <2>4 DEF Hands
  <2>6. outbox' \in Seq(Events)
    BY <1>2, <2>1, InsertOutbox DEF IInv, Types
  <2> QED
    BY <1>2, <1>3, <1>10, <2>5, <2>6 DEF Charge
<1>11. CASE Commit(e)
  <2>1. edit' \in [Editors -> Edits] /\ Hands'
    BY <1>2, <1>5, <1>11 DEF Commit, Hands
  <2>2. db' \in [Accounts -> Rows]
    BY <1>2, <1>11 DEF Commit, Rows
  <2>3. outbox' \in Seq(Events)
    BY <1>2, <1>11, CommitOutbox DEF IInv
  <2> QED
    BY <1>2, <1>11, <2>1, <2>2, <2>3 DEF Commit
<1>12. CASE Use(e)
  <2>1. outbox' \in Seq(Events)
    BY <1>12, InsertOutbox DEF Use, IInv
  <2>2. Hands'
    BY <1>2, <1>12 DEF Use, Hands
  <2> QED
    BY <1>2, <1>3, <1>12, <2>1, <2>2 DEF Use
<1>13. CASE Enqueue(e)
  <2>1. outbox' \in Seq(Events)
    BY <1>2, <1>6, <1>13, InsertOutbox DEF Enqueue, IInv
  <2>2. Start(edit[e].acct, "read") \in Edits /\ Start(edit[e].acct, "read").pc = "read"
    BY <1>4, <1>6 DEF Start
  <2>3. edit' = [edit EXCEPT ![e] = IF edit[e].sync THEN Start(edit[e].acct, "read") ELSE Still]
    BY <1>13 DEF Enqueue
  <2>4. edit' \in [Editors -> Edits] /\ Hands'
    BY <1>2, <1>5, <2>2, <2>3 DEF Hands
  <2> QED
    BY <1>2, <1>13, <2>1, <2>4 DEF Enqueue
<1>14. CASE SyncRead(e)
  <2> DEFINE a == edit[e].acct
             new == [Start(a, "write") EXCEPT !.hand = db[a]]
  <2>1. db[a] \in Rows
    BY <1>2, <1>6
  <2>2. new \in Edits /\ new.hand = db[a]
    BY <1>6, <2>1 DEF Start, Edits, Types
  <2>3. edit' = [edit EXCEPT ![e] = IF db[a] = "gone" THEN Still ELSE new]
    BY <1>14 DEF SyncRead
  <2> HIDE DEF new
  <2>4. edit' \in [Editors -> Edits] /\ Hands'
    BY <1>2, <1>5, <2>2, <2>3 DEF Hands
  <2> QED
    BY <1>2, <1>14, <2>4 DEF SyncRead
<1>15. CASE SyncWrite(e)
  <2>1. edit[e].hand \in Copies
    BY <1>2, <1>15 DEF SyncWrite, Hands, Edits, Copies
  <2>2. edit' \in [Editors -> Edits] /\ Hands'
    BY <1>2, <1>5, <1>15 DEF SyncWrite, Hands
  <2>3. acc' \in [Accounts -> Copies]
    BY <1>2, <1>6, <1>15, <2>1 DEF SyncWrite
  <2> QED
    BY <1>2, <1>15, <2>2, <2>3 DEF SyncWrite
<1> QED
  BY <1>7, <1>8, <1>9, <1>10, <1>11, <1>12, <1>13, <1>14, <1>15 DEF Edit

-----------------------------------------------------------------------------

Positions == {"idle", "get", "set", "lock", "next", "mark"} \cup Building

(* A task goes on at another position with the same events, or ends.         *)
LEMMA GoTurns ==
  ASSUME IInv, NEW w \in Workers, NEW pc \in Positions \ {"idle", "mark"}, Go(w, pc), UNCHANGED outbox,
         w \in Pollers => work[w].todo # {}, w \notin Pollers => pc \in {"lock"} \cup Building
  PROVE  work' \in [Workers -> Tasks] /\ Turns'
<1>1. work \in [Workers -> Tasks] /\ Turns
  BY TypeParts DEF IInv
<1>2. work' = [work EXCEPT ![w].pc = pc]
  BY DEF Go
<1>3. work' \in [Workers -> Tasks]
  BY <1>1, <1>2 DEF Tasks, Positions
<1>4. /\ work'[w].pc = pc /\ work'[w].todo = work[w].todo
      /\ \A v \in Workers \ {w} : work'[v] = work[v]
  BY <1>1, <1>2 DEF Tasks
<1> QED
  BY <1>1, <1>3, <1>4 DEF Turns

LEMMA RestTurns ==
  ASSUME IInv, NEW w \in Workers, Rest(w), UNCHANGED outbox
  PROVE  work' \in [Workers -> Tasks] /\ Turns'
<1>1. work \in [Workers -> Tasks] /\ Turns
  BY TypeParts DEF IInv
<1>2. Resting \in Tasks /\ Resting.pc = "idle" /\ Resting.todo = {}
  BY DEF Resting, Tasks, Rows
<1>3. work' = [work EXCEPT ![w] = Resting]
  BY DEF Rest
<1> QED
  BY <1>1, <1>2, <1>3 DEF Turns

LEMMA DoneTurns ==
  ASSUME IInv, NEW w \in Workers, work[w].pc \notin {"idle", "mark"}, Done(w), UNCHANGED outbox
  PROVE  work' \in [Workers -> Tasks] /\ Turns'
<1>1. CASE w \in Pollers
  <2>1. work[w].todo # {}
    BY <1>1 DEF IInv, Turns
  <2>2. Go(w, "next")
    BY <1>1 DEF Done
  <2> QED
    BY <1>1, <2>1, <2>2, GoTurns DEF Positions
<1>2. CASE w \notin Pollers
  BY <1>2, RestTurns DEF Done
<1> QED
  BY <1>1, <1>2

(* The types and the turns after a worker's step.                            *)
LEMMA WorkType ==
  ASSUME IInv, UNCHANGED setup, NEW w \in Workers, Work(w)
  PROVE  TypeOK' /\ Turns'
<1>1. /\ platform' \in {"grok", "other"} /\ team' \subseteq Workers \cup Editors
      /\ faults' \subseteq Faults /\ changes' \in Nat /\ failures' \in 0 .. MaxFailures
      /\ db' \in [Accounts -> Rows] /\ outbox' \in Seq(Events) /\ edit' \in [Editors -> Edits]
      /\ outbox' = outbox
  BY TypeParts DEF IInv, setup, Work
<1> DEFINE Bucket == /\ active' \subseteq Accounts /\ drawn' \in Seq(Workers) /\ lock' \in BOOLEAN
           Progress == acc' \in [Accounts -> Copies] /\ watermark' \in Nat /\ handled' \subseteq Nat
           Tasked == work' \in [Workers -> Tasks] /\ Turns'
<1> SUFFICES Bucket /\ Progress /\ Tasked
  BY <1>1 DEF TypeOK, Types, Events, Tasks, Edits, Copies
<1>2. /\ acc \in [Accounts -> Copies] /\ active \subseteq Accounts /\ drawn \in Seq(Workers)
      /\ lock \in BOOLEAN /\ watermark \in Nat /\ handled \subseteq Nat
      /\ work \in [Workers -> Tasks] /\ outbox \in Seq(Events) /\ db \in [Accounts -> Rows] /\ Turns
  BY TypeParts DEF IInv
<1>3. work[w].pc \in {"get", "set", "next", "mark"} => w \in Pollers
  BY DEF IInv, Turns, Building
<1>4. w \in Pollers /\ work[w].pc \notin {"idle", "mark"} => work[w].todo # {}
  BY DEF IInv, Turns
<1>5. UNCHANGED bucket => Bucket
  BY <1>2 DEF bucket
<1>6. UNCHANGED <<acc, watermark, handled>> => Progress
  BY <1>2
<1>7. ASSUME work[w].pc \in {"get", "set", "next"}
      PROVE  Least(w) \in DOMAIN outbox /\ Least(w) \in Nat /\ Event(w) \in Events
  <2>1. Least(w) \in work[w].todo /\ work[w].todo \subseteq DOMAIN outbox
    BY <1>3, <1>4, <1>7, LeastLeft DEF IInv, Turns
  <2> QED
    BY <1>2, <2>1 DEF Event
<1>8. CASE Poll(w)
  <2>1. Newest \in Nat /\ Beyond \in SUBSET Nat /\ Beyond # {} /\ Beyond \subseteq DOMAIN outbox
    <3>1. Beyond # {} /\ Newest \in Beyond
      BY <1>8, NewestBeyond DEF IInv, Poll
    <3>2. Beyond \subseteq DOMAIN outbox /\ DOMAIN outbox \subseteq Nat
      BY <1>2 DEF Beyond
    <3> QED
      BY <3>1, <3>2
  <2>2. work' = [work EXCEPT ![w].pc = "get", ![w].todo = Beyond, ![w].last = Newest, ![w].seen = FALSE]
    BY <1>8 DEF Poll
  <2> HIDE DEF Bucket, Progress
  <2>3. work' \in [Workers -> Tasks]
    <3> DEFINE new == [work[w] EXCEPT !.pc = "get", !.todo = Beyond, !.last = Newest, !.seen = FALSE]
    <3>1. work[w] \in Tasks
      BY <1>2
    <3>2. new \in Tasks
      BY <2>1, <3>1 DEF Tasks, Building
    <3>3. work' = [work EXCEPT ![w] = new]
      BY <1>2, <2>2 DEF Tasks
    <3> HIDE DEF new
    <3> QED
      BY <1>2, <3>2, <3>3
  <2>4. work'[w].pc = "get" /\ work'[w].todo = Beyond /\ \A v \in Workers \ {w} : work'[v] = work[v]
    BY <1>2, <2>2 DEF Tasks
  <2>5. Turns'
    BY <1>1, <1>2, <1>8, <2>1, <2>4 DEF Turns, Poll
  <2> QED
    BY <1>5, <1>6, <1>8, <2>3, <2>5 DEF Poll
<1>9. CASE GetAccount(w)
  <2> DEFINE h == IF Event(w).type = "used" THEN acc[Event(w).acct] ELSE db[Event(w).acct]
  <2>1. h \in Rows \cup {"none"}
    BY <1>2, <1>7, <1>9 DEF GetAccount, Events, Copies
  <2>2. work' = [work EXCEPT ![w].pc = "set", ![w].hand = h]
    BY <1>9 DEF GetAccount
  <2> HIDE DEF h, Bucket, Progress
  <2>3. work' \in [Workers -> Tasks]
    <3> DEFINE new == [work[w] EXCEPT !.pc = "set", !.hand = h]
    <3>1. work[w] \in Tasks
      BY <1>2
    <3>2. new \in Tasks
      BY <2>1, <3>1 DEF Tasks, Building
    <3>3. work' = [work EXCEPT ![w] = new]
      BY <1>2, <2>2 DEF Tasks
    <3> HIDE DEF new
    <3> QED
      BY <1>2, <3>2, <3>3
  <2>4. /\ work'[w].pc = "set" /\ work'[w].todo = work[w].todo
        /\ \A v \in Workers \ {w} : work'[v] = work[v]
    BY <1>2, <2>2 DEF Tasks
  <2>5. Turns'
    BY <1>1, <1>2, <1>3, <1>4, <1>9, <2>4 DEF Turns, GetAccount
  <2> QED
    BY <1>5, <1>6, <1>9, <2>3, <2>5 DEF GetAccount
<1>10. CASE SetAccount(w)
  <2> DEFINE pc == IF Concerns(w) THEN "lock" ELSE "next"
             seen == work[w].seen \/ Concerns(w)
             h == IF work[w].hand = "gone" THEN "none" ELSE work[w].hand
  <2>1. h \in Copies /\ Event(w).acct \in Accounts
    BY <1>2, <1>7, <1>10 DEF SetAccount, Events, Copies, Tasks
  <2>2. acc' \in [Accounts -> Copies]
    BY <1>2, <1>10, <2>1 DEF SetAccount
  <2>3. work' = [work EXCEPT ![w].pc = pc, ![w].seen = seen]
    BY <1>2, <1>10 DEF SetAccount
  <2>4. pc \in {"lock", "next"} /\ seen \in BOOLEAN
    OBVIOUS
  <2> HIDE DEF pc, seen, h, Bucket
  <2>5. work' \in [Workers -> Tasks]
    <3> DEFINE new == [work[w] EXCEPT !.pc = pc, !.seen = seen]
    <3>1. work[w] \in Tasks
      BY <1>2
    <3>2. new \in Tasks
      BY <2>4, <3>1 DEF Tasks, Building
    <3>3. work' = [work EXCEPT ![w] = new]
      BY <1>2, <2>3 DEF Tasks
    <3> HIDE DEF new
    <3> QED
      BY <1>2, <3>2, <3>3
  <2>6. /\ work'[w].pc \in {"lock", "next"} /\ work'[w].todo = work[w].todo
        /\ \A v \in Workers \ {w} : work'[v] = work[v]
    BY <1>2, <2>3, <2>4 DEF Tasks
  <2>7. Turns'
    BY <1>1, <1>2, <1>3, <1>4, <1>10, <2>6 DEF Turns, SetAccount
  <2> QED
    BY <1>2, <1>5, <1>10, <2>2, <2>5, <2>7 DEF SetAccount
<1>11. CASE NextEvent(w)
  <2> DEFINE rest == work[w].todo \ {Least(w)}
             pc == IF rest = {} THEN "mark" ELSE "get"
  <2>1. rest \in SUBSET Nat /\ rest \subseteq DOMAIN outbox
    BY <1>2 DEF Tasks, Turns
  <2>2. work' = [work EXCEPT ![w].todo = rest, ![w].hand = "none", ![w].pc = pc]
    BY <1>11 DEF NextEvent
  <2>3. pc \in {"mark", "get"} /\ (pc = "mark" <=> rest = {})
    OBVIOUS
  <2> HIDE DEF rest, pc, Bucket, Progress
  <2>4. work' \in [Workers -> Tasks]
    <3> DEFINE new == [work[w] EXCEPT !.todo = rest, !.hand = "none", !.pc = pc]
    <3>1. work[w] \in Tasks
      BY <1>2
    <3>2. new \in Tasks
      BY <2>1, <2>3, <3>1 DEF Tasks, Building
    <3>3. work' = [work EXCEPT ![w] = new]
      BY <1>2, <2>2 DEF Tasks
    <3> HIDE DEF new
    <3> QED
      BY <1>2, <3>2, <3>3
  <2>5. /\ work'[w].pc = pc /\ work'[w].todo = rest
        /\ \A v \in Workers \ {w} : work'[v] = work[v]
    BY <1>2, <2>2 DEF Tasks
  <2>6. Turns'
    BY <1>1, <1>2, <1>3, <1>11, <2>1, <2>3, <2>5 DEF Turns, NextEvent
  <2>7. Progress
    BY <1>2, <1>7, <1>11 DEF NextEvent, Progress
  <2> QED
    BY <1>5, <1>11, <2>4, <2>6, <2>7 DEF NextEvent
<1>12. CASE SetWatermark(w)
  <2>1. Tasked
    BY <1>1, <1>12, RestTurns DEF SetWatermark
  <2>2. Progress
    BY <1>2, <1>12 DEF SetWatermark, Tasks
  <2> QED
    BY <1>5, <1>12, <2>1, <2>2 DEF SetWatermark
<1>13. CASE StartPeriodic(w)
  <2>1. w \notin Pollers
    BY <1>13, SchedulerSnapshotAssumption DEF StartPeriodic
  <2>2. Tasked
    BY <1>1, <1>13, <2>1, GoTurns DEF StartPeriodic, Positions
  <2> QED
    BY <1>5, <1>6, <1>13, <2>2 DEF StartPeriodic
<1>14. CASE Fallback(w)
  <2>1. w \notin Pollers
    BY <1>14, SchedulerSnapshotAssumption DEF Fallback
  <2>2. Tasked
    BY <1>1, <1>14, <2>1, GoTurns DEF Fallback, Positions, Building
  <2> QED
    BY <1>5, <1>6, <1>14, <2>2 DEF Fallback
<1>15. CASE TryLock(w)
  <2>1. IF lock THEN Done(w) ELSE Go(w, "load")
    BY <1>15 DEF TryLock
  <2>2. Tasked
    BY <1>1, <1>4, <1>15, <2>1, GoTurns, DoneTurns DEF TryLock, Positions, Building
  <2> QED
    BY <1>2, <1>6, <1>15, <2>2 DEF TryLock
<1>16. CASE Load(w)
  <2>1. work' = [work EXCEPT ![w].pc = "number", ![w].rows = db]
    BY <1>16 DEF Load
  <2> HIDE DEF Bucket, Progress
  <2>2. work' \in [Workers -> Tasks]
    <3> DEFINE new == [work[w] EXCEPT !.pc = "number", !.rows = db]
    <3>1. work[w] \in Tasks
      BY <1>2
    <3>2. new \in Tasks
      BY <1>2, <3>1 DEF Tasks, Building
    <3>3. work' = [work EXCEPT ![w] = new]
      BY <1>2, <2>1 DEF Tasks
    <3> HIDE DEF new
    <3> QED
      BY <1>2, <3>2, <3>3
  <2>3. /\ work'[w].pc = "number" /\ work'[w].todo = work[w].todo
        /\ \A v \in Workers \ {w} : work'[v] = work[v]
    BY <1>2, <2>1 DEF Tasks
  <2>4. Turns'
    BY <1>1, <1>2, <1>4, <1>16, <2>3 DEF Turns, Load, Building
  <2> QED
    BY <1>5, <1>6, <1>16, <2>2, <2>4 DEF Load
<1>17. CASE Number(w)
  <2>1. Tasked
    BY <1>1, <1>4, <1>17, GoTurns DEF Number, Positions, Building
  <2>2. drawn' \in Seq(Workers)
    BY <1>2, <1>17 DEF Number
  <2> QED
    BY <1>2, <1>6, <1>17, <2>1, <2>2 DEF Number
<1>18. CASE WriteAccounts(w)
  <2>1. Tasked
    BY <1>1, <1>4, <1>18, GoTurns DEF WriteAccounts, Positions, Building
  <2>2. work[w].rows \in [Accounts -> Rows]
    BY <1>2 DEF Tasks
  <2>3. \A a \in Accounts : (IF a \in Listed(work[w].rows) THEN work[w].rows[a] ELSE acc[a]) \in Copies
    BY <1>2, <2>2 DEF Listed, Copies
  <2>4. acc' \in [Accounts -> Copies]
    BY <1>18, <2>3 DEF WriteAccounts
  <2> QED
    BY <1>2, <1>5, <1>18, <2>1, <2>4 DEF WriteAccounts
<1>19. CASE Activate(w)
  <2>1. work[w].rows \in [Accounts -> Rows] /\ work[w].pc = "activate"
    BY <1>2, <1>19 DEF Tasks, Activate
  <2>2. Tasked
    <3>1. CASE w \in Requests
      BY <1>1, <1>19, <3>1, RestTurns DEF Activate
    <3>2. CASE w \notin Requests
      <4>1. work' = [work EXCEPT ![w].pc = "unlock", ![w].rows = Resting.rows]
        BY <1>19, <3>2 DEF Activate
      <4>2. Resting.rows \in [Accounts -> Rows]
        BY DEF Resting, Rows
      <4>3. work' \in [Workers -> Tasks]
        <5> DEFINE new == [work[w] EXCEPT !.pc = "unlock", !.rows = Resting.rows]
        <5>1. work[w] \in Tasks
          BY <1>2
        <5>2. new \in Tasks
          BY <4>2, <5>1 DEF Tasks, Building
        <5>3. work' = [work EXCEPT ![w] = new]
          BY <1>2, <4>1 DEF Tasks
        <5> HIDE DEF new
        <5> QED
          BY <1>2, <5>2, <5>3
      <4>4. /\ work'[w].pc = "unlock" /\ work'[w].todo = work[w].todo
            /\ \A v \in Workers \ {w} : work'[v] = work[v]
        BY <1>2, <4>1 DEF Tasks
      <4> QED
        BY <1>1, <1>2, <1>4, <2>1, <4>3, <4>4 DEF Turns, Building
    <3> QED
      BY <3>1, <3>2
  <2>3. active' \subseteq Accounts
    BY <1>2, <1>19 DEF Activate, Listed
  <2>4. drawn' \in Seq(Workers)
    <3>1. CASE UNCHANGED drawn
      BY <1>2, <3>1
    <3>2. ASSUME NEW i \in DOMAIN drawn, drawn' = SubSeq(drawn, i + 1, Len(drawn)) PROVE drawn' \in Seq(Workers)
      <4>1. i \in Nat /\ Len(drawn) \in Nat /\ \A j \in i + 1 .. Len(drawn) : drawn[j] \in Workers
        BY <1>2
      <4> QED
        BY <3>2, <4>1, SubSeqProperties
    <3> QED
      BY <1>19, <3>1, <3>2 DEF Activate
  <2> QED
    BY <1>2, <1>6, <1>19, <2>2, <2>3, <2>4 DEF Activate
<1>20. CASE Unlock(w)
  <2>1. Tasked
    BY <1>1, <1>20, DoneTurns DEF Unlock
  <2> QED
    BY <1>2, <1>6, <1>20, <2>1 DEF Unlock
<1> QED
  BY <1>8, <1>9, <1>10, <1>11, <1>12, <1>13, <1>14, <1>15, <1>16, <1>17, <1>18, <1>19, <1>20
     DEF Work, Handle, Rebuild

-----------------------------------------------------------------------------

(* What an editor's step may do to the outbox and to the transactions.       *)
LEMMA EditCases ==
  ASSUME IInv, NEW e \in Editors, Edit(e)
  PROVE  /\ \A f \in Editors \ {e} : edit'[f] = edit[f]
         /\ \/ outbox' = outbox /\ (edit'[e].pc = "commit" => edit'[e].id = 0)
            \/ /\ MayDraw /\ Len(outbox) \in Nat
               /\ DOMAIN outbox = 1 .. Len(outbox) /\ DOMAIN outbox' = 1 .. Len(outbox) + 1
               /\ Len(outbox') = Len(outbox) + 1
               /\ \A i \in DOMAIN outbox : outbox'[i] = outbox[i]
               /\ edit'[e].pc = "commit" => edit'[e].id = Len(outbox') /\ ~outbox'[Len(outbox')].visible
            \/ /\ InTransaction(e) /\ edit[e].id # 0 /\ edit'[e].pc = "idle"
               /\ DOMAIN outbox' = DOMAIN outbox
               /\ \A i \in DOMAIN outbox : i # edit[e].id => outbox'[i] = outbox[i]
               /\ \A i \in DOMAIN outbox : i = edit[e].id => outbox'[i].visible
<1>1. edit \in [Editors -> Edits] /\ outbox \in Seq(Events)
  BY TypeParts DEF IInv
<1>2. edit[e].acct \in Accounts /\ edit[e].type \in Types /\ edit[e].groups \in BOOLEAN
  BY <1>1 DEF Edits
<1>3. Still.pc = "idle"
  BY DEF Still, Start
<1>4. CASE Change(e)
  <2>1. UNCHANGED outbox /\ \A f \in Editors \ {e} : edit'[f] = edit[f]
    BY <1>1, <1>4 DEF Change
  <2>2. edit'[e].pc = "enqueue"
    BY <1>1, <1>4 DEF Change, Start
  <2> QED
    BY <2>1, <2>2
<1>5. CASE Delete(e)
  <2>1. UNCHANGED outbox /\ \A f \in Editors \ {e} : edit'[f] = edit[f]
    BY <1>1, <1>5 DEF Delete
  <2>2. edit'[e].pc = "forget"
    BY <1>1, <1>5 DEF Delete, Start
  <2> QED
    BY <2>1, <2>2
<1>6. CASE Forget(e)
  <2>1. UNCHANGED outbox /\ edit' = [edit EXCEPT ![e].pc = "enqueue"]
    BY <1>6 DEF Forget
  <2>2. edit'[e].pc = "enqueue" /\ \A f \in Editors \ {e} : edit'[f] = edit[f]
    BY <1>1, <2>1 DEF Edits
  <2> QED
    BY <2>1, <2>2
<1>7. CASE Charge(e)
  <2>1. PICK a \in Accounts :
           \/ /\ Insert(a, "account", FALSE, FALSE)
              /\ edit' = [edit EXCEPT ![e] = [Start(a, "commit") EXCEPT !.id = Len(outbox) + 1]]
           \/ edit' = [edit EXCEPT ![e] = Start(a, "commit")] /\ UNCHANGED outbox
    BY <1>7 DEF Charge
  <2>2. \A f \in Editors \ {e} : edit'[f] = edit[f]
    BY <1>1, <2>1
  <2>3. CASE Insert(a, "account", FALSE, FALSE) /\ edit' = [edit EXCEPT ![e] = [Start(a, "commit") EXCEPT !.id = Len(outbox) + 1]]
    <3>1. edit'[e].id = Len(outbox) + 1
      BY <1>1, <2>3 DEF Start
    <3>2. MayDraw
      BY <2>3 DEF Insert
    <3> QED
      BY <2>2, <2>3, <3>1, <3>2, InsertOutbox DEF Types, IInv
  <2>4. CASE edit' = [edit EXCEPT ![e] = Start(a, "commit")] /\ UNCHANGED outbox
    BY <1>1, <2>2, <2>4 DEF Start
  <2> QED
    BY <2>1, <2>3, <2>4
<1>8. CASE Commit(e)
  <2>1. edit'[e].pc = "idle" /\ \A f \in Editors \ {e} : edit'[f] = edit[f]
    BY <1>1, <1>3, <1>8 DEF Commit
  <2>2. InTransaction(e)
    BY <1>8 DEF Commit
  <2> QED
    BY <1>8, <2>1, <2>2, CommitOutbox DEF IInv
<1>9. CASE Use(e)
  <2>1. UNCHANGED edit /\ edit[e].pc = "idle"
    BY <1>9 DEF Use, Begin
  <2>2. PICK a \in Accounts : Insert(a, "used", FALSE, TRUE)
    BY <1>9 DEF Use
  <2>3. MayDraw
    BY <2>2 DEF Insert
  <2> QED
    BY <2>1, <2>2, <2>3, InsertOutbox DEF IInv
<1>10. CASE Enqueue(e)
  <2>1. Start(edit[e].acct, "read").pc = "read"
    BY DEF Start
  <2>2. edit'[e].pc \in {"read", "idle"} /\ \A f \in Editors \ {e} : edit'[f] = edit[f]
    BY <1>1, <1>3, <1>10, <2>1 DEF Enqueue
  <2>3. CASE UNCHANGED outbox
    BY <2>2, <2>3
  <2>4. CASE Insert(edit[e].acct, edit[e].type, edit[e].groups, TRUE)
    <3>1. MayDraw
      BY <2>4 DEF Insert
    <3> QED
      BY <1>2, <2>2, <2>4, <3>1, InsertOutbox DEF IInv
  <2> QED
    BY <1>10, <2>3, <2>4 DEF Enqueue
<1>11. CASE SyncRead(e)
  <2> DEFINE new == IF db[edit[e].acct] = "gone" THEN Still ELSE [Start(edit[e].acct, "write") EXCEPT !.hand = db[edit[e].acct]]
  <2>1. UNCHANGED outbox /\ edit' = [edit EXCEPT ![e] = new]
    BY <1>11 DEF SyncRead
  <2>2. new.pc \in {"idle", "write"}
    BY <1>3 DEF Start
  <2> HIDE DEF new
  <2> QED
    BY <1>1, <2>1, <2>2
<1>12. CASE SyncWrite(e)
  <2>1. UNCHANGED outbox /\ edit' = [edit EXCEPT ![e] = Still]
    BY <1>12 DEF SyncWrite
  <2> QED
    BY <1>1, <1>3, <2>1
<1> QED
  BY <1>4, <1>5, <1>6, <1>7, <1>8, <1>9, <1>10, <1>11, <1>12 DEF Edit

(* The types, the hands and the turns are kept by every step.                *)
LEMMA FailType ==
  ASSUME IInv, UNCHANGED setup, NEW w \in Workers, Fail(w)
  PROVE  IInv'
<1>1. Interrupted(w) /\ Rest(w)
  BY DEF Fail
<1>2. work' \in [Workers -> Tasks] /\ Turns'
  BY <1>1, RestTurns DEF Interrupted
<1>3. Hands'
  BY <1>1 DEF IInv, Hands, Interrupted
<1>4. failures' \in 0 .. MaxFailures /\ lock' \in BOOLEAN
  <2>1. failures' = failures - 1 /\ failures > 0
    BY <1>1 DEF Interrupted
  <2>2. failures \in 0 .. MaxFailures /\ lock \in BOOLEAN
    BY TypeParts DEF IInv
  <2>3. lock' = (lock /\ ~Holds(w)) \/ lock' = lock
    BY <1>1 DEF Interrupted
  <2>4. (lock /\ ~Holds(w)) \in BOOLEAN
    OBVIOUS
  <2>5. lock' \in BOOLEAN
    BY <2>2, <2>3, <2>4
  <2> QED
    BY <2>1, <2>2, <2>5, SchedulerSnapshotAssumption
<1>5. drawn' \in Seq(Workers)
  <2>1. drawn \in Seq(Workers)
    BY TypeParts DEF IInv
  <2>2. ASSUME NEW i \in DOMAIN drawn, drawn' = SubSeq(drawn, 1, i - 1) \o SubSeq(drawn, i + 1, Len(drawn))
        PROVE  drawn' \in Seq(Workers)
    <3>1. /\ i - 1 \in Int /\ i + 1 \in Int /\ Len(drawn) \in Int
          /\ \A j \in 1 .. i - 1 : drawn[j] \in Workers
          /\ \A j \in i + 1 .. Len(drawn) : drawn[j] \in Workers
      BY <2>1
    <3>2. SubSeq(drawn, 1, i - 1) \in Seq(Workers)
      BY <3>1, SubSeqProperties
    <3>3. SubSeq(drawn, i + 1, Len(drawn)) \in Seq(Workers)
      BY <3>1, SubSeqProperties
    <3> QED
      BY <2>2, <3>2, <3>3, ConcatProperties
  <2> QED
    BY <1>1, <2>1, <2>2 DEF Interrupted
<1>6. TypeOK'
  <2>1. UNCHANGED <<platform, team, faults, changes, db, outbox, acc, active, watermark, edit, handled>>
    BY <1>1 DEF Interrupted, setup
  <2> QED
    BY <1>2, <1>4, <1>5, <2>1, TypeParts DEF IInv, TypeOK, Types, Events, Tasks, Edits, Copies
<1> QED
  BY <1>2, <1>3, <1>6 DEF IInv

LEMMA IInvNext == IInv /\ [Next]_vars => IInv'
<1> SUFFICES ASSUME IInv, [Next]_vars PROVE IInv'
  OBVIOUS
<1>1. ASSUME UNCHANGED setup, NEW e \in Editors, Edit(e) PROVE IInv'
  <2>1. TypeOK' /\ Hands'
    BY <1>1, EditType
  <2>2. DOMAIN outbox \subseteq DOMAIN outbox'
    BY <1>1, EditCases
  <2>3. UNCHANGED work
    BY <1>1 DEF Edit
  <2>4. Turns'
    BY <2>2, <2>3 DEF IInv, Turns
  <2> QED
    BY <2>1, <2>4 DEF IInv
<1>2. ASSUME UNCHANGED setup, NEW w \in Workers, Work(w) PROVE IInv'
  BY <1>2, WorkType DEF Work, IInv, Hands
<1>3. CASE UNCHANGED setup /\ LockExpires
  <2>1. UNCHANGED <<platform, team, faults, changes, failures, db, outbox, acc, active, drawn, watermark, work, edit, handled>>
        /\ lock' = FALSE
    BY <1>3 DEF LockExpires, setup
  <2>2. TypeOK'
    BY <2>1, TypeParts DEF IInv, TypeOK, Types, Events, Tasks, Edits, Copies
  <2> QED
    BY <2>1, <2>2 DEF IInv, Hands, Turns
<1>4. CASE UNCHANGED vars
  <2>1. UNCHANGED <<platform, team, faults, changes, failures, db, outbox, acc, active, drawn, lock, watermark, work, edit, handled>>
    BY <1>4 DEF vars
  <2>2. TypeOK'
    BY <2>1, TypeParts DEF IInv, TypeOK, Types, Events, Tasks, Edits, Copies
  <2> QED
    BY <2>1, <2>2 DEF IInv, Hands, Turns
<1> QED
  BY <1>1, <1>2, <1>3, <1>4, FailType DEF Next

LEMMA InitIInv == Init => IInv
<1> SUFFICES ASSUME Init PROVE IInv
  OBVIOUS
<1>1. \A e \in Editors : edit[e].pc = "idle"
  BY DEF Init, Still, Start
<1>2. \A w \in Workers : work[w].pc = "idle" /\ work[w].todo = {}
  BY DEF Init, Resting
<1> QED
  BY <1>1, <1>2, InitType DEF IInv, Hands, Turns

(* Every variable keeps its type, for any number of instances, requests and  *)
(* editors and under every fault.                                            *)
THEOREM TypeCorrect == Spec => []TypeOK
<1>1. IInv => TypeOK
  BY DEF IInv
<1> QED
  BY <1>1, InitIInv, IInvNext, PTL DEF Spec

-----------------------------------------------------------------------------

(* Unless ids become visible out of order, only the newest event can be that  *)
(* of a transaction under way, and of one only.                               *)
Ids ==
  "late" \notin faults =>
      \A e \in Editors :
         InTransaction(e) /\ edit[e].id # 0 =>
             /\ edit[e].id \in DOMAIN outbox /\ edit[e].id = Len(outbox)
             /\ ~outbox[edit[e].id].visible
             /\ \A f \in Editors : InTransaction(f) /\ edit[f].id # 0 => f = e

(* The visible events up to n are among those in done, and n is one of them.  *)
Passed(events, done, n) ==
  /\ n # 0 => n \in DOMAIN events /\ events[n].visible
  /\ \A i \in DOMAIN events : events[i].visible /\ i <= n => i \in done

(* The watermark has not passed over an event, nor will it.                   *)
Passing ==
  "late" \notin faults =>
      /\ Passed(outbox, handled, watermark)
      /\ \A w \in Workers : Passed(outbox, handled \cup work[w].todo, work[w].last)

PInv == IInv /\ Ids /\ Passing

(* An event that becomes visible is newer than all that were.                 *)
LEMMA EditPassed ==
  ASSUME IInv, Ids, "late" \notin faults, NEW e \in Editors, Edit(e),
         NEW done, NEW n \in Nat, Passed(outbox, done, n)
  PROVE  Passed(outbox', done, n)
<1>1. outbox \in Seq(Events) /\ DOMAIN outbox = 1 .. Len(outbox) /\ Len(outbox) \in Nat
  BY TypeParts DEF IInv
<1>2. CASE outbox' = outbox
  BY <1>2
<1>3. CASE /\ DOMAIN outbox' = 1 .. Len(outbox) + 1
           /\ \A i \in DOMAIN outbox : outbox'[i] = outbox[i]
  <2>1. n # 0 => n \in DOMAIN outbox' /\ outbox'[n].visible
    BY <1>1, <1>3 DEF Passed
  <2>2. n <= Len(outbox)
    BY <1>1 DEF Passed
  <2>3. ASSUME NEW i \in DOMAIN outbox', outbox'[i].visible, i <= n PROVE i \in done
    <3>1. i \in DOMAIN outbox
      BY <1>1, <1>3, <2>2, <2>3
    <3>2. outbox'[i] = outbox[i]
      BY <1>3, <3>1
    <3> QED
      BY <2>3, <3>1, <3>2 DEF Passed
  <2> QED
    BY <2>1, <2>3 DEF Passed
<1>4. CASE /\ InTransaction(e) /\ edit[e].id # 0
           /\ DOMAIN outbox' = DOMAIN outbox
           /\ \A i \in DOMAIN outbox : i # edit[e].id => outbox'[i] = outbox[i]
  <2>1. edit[e].id \in DOMAIN outbox /\ edit[e].id = Len(outbox) /\ ~outbox[edit[e].id].visible
    BY <1>4 DEF Ids
  <2>2. n < edit[e].id
    BY <1>1, <2>1 DEF Passed
  <2>3. n # 0 => n \in DOMAIN outbox' /\ outbox'[n].visible
    BY <1>1, <1>4, <2>2 DEF Passed
  <2>4. ASSUME NEW i \in DOMAIN outbox', outbox'[i].visible, i <= n PROVE i \in done
    <3>1. i \in DOMAIN outbox /\ i # edit[e].id
      BY <1>1, <1>4, <2>1, <2>2, <2>4
    <3>2. outbox'[i] = outbox[i]
      BY <1>4, <3>1
    <3> QED
      BY <2>4, <3>1, <3>2 DEF Passed
  <2> QED
    BY <2>3, <2>4 DEF Passed
<1> QED
  BY <1>2, <1>3, <1>4, EditCases

LEMMA EditIds ==
  ASSUME IInv, Ids, UNCHANGED setup, NEW e \in Editors, Edit(e)
  PROVE  Ids'
<1> SUFFICES ASSUME "late" \notin faults, NEW f \in Editors, edit'[f].pc = "commit", edit'[f].id # 0
             PROVE  /\ edit'[f].id \in DOMAIN outbox' /\ edit'[f].id = Len(outbox')
                    /\ ~outbox'[edit'[f].id].visible
                    /\ \A g \in Editors : edit'[g].pc = "commit" /\ edit'[g].id # 0 => g = f
  BY DEF Ids, InTransaction, setup
<1>1. \A g \in Editors \ {e} : edit'[g] = edit[g]
  BY EditCases
<1>2. CASE outbox' = outbox /\ (edit'[e].pc = "commit" => edit'[e].id = 0)
  BY <1>1, <1>2 DEF Ids, InTransaction
<1>3. CASE /\ MayDraw /\ Len(outbox) \in Nat /\ DOMAIN outbox' = 1 .. Len(outbox) + 1
           /\ Len(outbox') = Len(outbox) + 1
           /\ edit'[e].pc = "commit" => edit'[e].id = Len(outbox') /\ ~outbox'[Len(outbox')].visible
  <2>1. \A g \in Editors : edit[g].pc # "commit"
    BY <1>3 DEF MayDraw, InTransaction
  <2>2. f = e /\ \A g \in Editors : edit'[g].pc = "commit" => g = e
    BY <1>1, <2>1
  <2> QED
    BY <1>3, <2>2
<1>4. CASE InTransaction(e) /\ edit[e].id # 0 /\ edit'[e].pc = "idle"
  <2>1. f # e /\ InTransaction(f) /\ edit[f].id # 0
    BY <1>1, <1>4 DEF InTransaction
  <2> QED
    BY <1>4, <2>1 DEF Ids
<1> QED
  BY <1>2, <1>3, <1>4, EditCases

(* What a worker's step may do to the events it has, and to the watermark.   *)
LEMMA WorkCases ==
  ASSUME IInv, NEW w \in Workers, Work(w)
  PROVE  /\ UNCHANGED <<outbox, edit>> /\ \A v \in Workers \ {w} : work'[v] = work[v]
         /\ \/ UNCHANGED <<handled, watermark>> /\ work'[w].todo = work[w].todo /\ work'[w].last = work[w].last
            \/ UNCHANGED <<handled, watermark>> /\ work'[w].last = 0
            \/ /\ UNCHANGED <<handled, watermark>> /\ Beyond # {}
               /\ work'[w].todo = Beyond /\ work'[w].last = Newest
            \/ /\ handled' = handled \cup {Least(w)} /\ UNCHANGED watermark
               /\ work'[w].todo = work[w].todo \ {Least(w)} /\ work'[w].last = work[w].last
            \/ /\ UNCHANGED handled /\ work[w].todo = {} /\ watermark' = work[w].last
               /\ work'[w].last = 0
<1>1. work \in [Workers -> Tasks] /\ UNCHANGED <<outbox, edit>>
  BY TypeParts DEF IInv, Work
<1>2. ASSUME NEW pc, Go(w, pc)
      PROVE  /\ \A v \in Workers \ {w} : work'[v] = work[v]
             /\ work'[w].todo = work[w].todo /\ work'[w].last = work[w].last
  BY <1>1, <1>2 DEF Go, Tasks
<1>3. ASSUME Rest(w) PROVE work'[w].last = 0 /\ \A v \in Workers \ {w} : work'[v] = work[v]
  BY <1>1, <1>3 DEF Rest, Resting
<1>4. ASSUME Done(w)
      PROVE  /\ \A v \in Workers \ {w} : work'[v] = work[v]
             /\ work'[w].last # 0 => work'[w].todo = work[w].todo /\ work'[w].last = work[w].last
  BY <1>2, <1>3, <1>4 DEF Done
<1>5. CASE Poll(w)
  <2>1. work' = [work EXCEPT ![w].pc = "get", ![w].todo = Beyond, ![w].last = Newest, ![w].seen = FALSE]
    BY <1>5 DEF Poll
  <2>2. work'[w].todo = Beyond /\ work'[w].last = Newest /\ \A v \in Workers \ {w} : work'[v] = work[v]
    BY <1>1, <2>1 DEF Tasks
  <2> QED
    BY <1>1, <1>5, <2>2 DEF Poll
<1>6. CASE GetAccount(w)
  <2> DEFINE h == IF Event(w).type = "used" THEN acc[Event(w).acct] ELSE db[Event(w).acct]
  <2>1. work' = [work EXCEPT ![w].pc = "set", ![w].hand = h] /\ UNCHANGED <<handled, watermark>>
    BY <1>6 DEF GetAccount
  <2> HIDE DEF h
  <2> QED
    BY <1>1, <2>1 DEF Tasks
<1>7. CASE SetAccount(w)
  <2> DEFINE pc == IF Concerns(w) THEN "lock" ELSE "next"
             seen == work[w].seen \/ Concerns(w)
  <2>1. work' = [work EXCEPT ![w].pc = pc, ![w].seen = seen] /\ UNCHANGED <<handled, watermark>>
    BY <1>1, <1>7 DEF SetAccount
  <2> HIDE DEF pc, seen
  <2> QED
    BY <1>1, <2>1 DEF Tasks
<1>8. CASE NextEvent(w)
  <2> DEFINE rest == work[w].todo \ {Least(w)}
             pc == IF rest = {} THEN "mark" ELSE "get"
  <2>1. /\ work' = [work EXCEPT ![w].todo = rest, ![w].hand = "none", ![w].pc = pc]
        /\ handled' = handled \cup {Least(w)} /\ UNCHANGED watermark
    BY <1>8 DEF NextEvent
  <2> HIDE DEF pc, rest
  <2>2. work'[w].todo = rest /\ work'[w].last = work[w].last /\ \A v \in Workers \ {w} : work'[v] = work[v]
    BY <1>1, <2>1 DEF Tasks
  <2> QED
    BY <1>1, <2>1, <2>2 DEF rest
<1>9. CASE SetWatermark(w)
  <2>1. work[w].todo = {}
    BY <1>9 DEF SetWatermark, IInv, Turns
  <2> QED
    BY <1>1, <1>3, <1>9, <2>1 DEF SetWatermark
<1>10. CASE StartPeriodic(w)
  BY <1>1, <1>2, <1>10 DEF StartPeriodic
<1>11. CASE Fallback(w)
  BY <1>1, <1>2, <1>11 DEF Fallback
<1>12. CASE TryLock(w)
  BY <1>1, <1>2, <1>4, <1>12 DEF TryLock
<1>13. CASE Load(w)
  <2>1. work' = [work EXCEPT ![w].pc = "number", ![w].rows = db] /\ UNCHANGED <<handled, watermark>>
    BY <1>13 DEF Load
  <2> QED
    BY <1>1, <2>1 DEF Tasks
<1>14. CASE Number(w)
  BY <1>1, <1>2, <1>14 DEF Number
<1>15. CASE WriteAccounts(w)
  BY <1>1, <1>2, <1>15 DEF WriteAccounts
<1>16. CASE Activate(w)
  <2>1. UNCHANGED <<handled, watermark>>
    BY <1>16 DEF Activate
  <2>2. CASE Rest(w)
    BY <1>1, <1>3, <2>1, <2>2
  <2>3. CASE work' = [work EXCEPT ![w].pc = "unlock", ![w].rows = Resting.rows]
    BY <1>1, <2>1, <2>3 DEF Tasks
  <2> QED
    BY <1>16, <2>2, <2>3 DEF Activate
<1>17. CASE Unlock(w)
  BY <1>1, <1>4, <1>17 DEF Unlock
<1> QED
  BY <1>5, <1>6, <1>7, <1>8, <1>9, <1>10, <1>11, <1>12, <1>13, <1>14, <1>15, <1>16, <1>17
     DEF Work, Handle, Rebuild

LEMMA WorkPassing ==
  ASSUME IInv, Passing, UNCHANGED setup, NEW w \in Workers, Work(w)
  PROVE  Passing'
<1> SUFFICES ASSUME "late" \notin faults
             PROVE  /\ Passed(outbox', handled', watermark')
                    /\ \A v \in Workers : Passed(outbox', handled' \cup work'[v].todo, work'[v].last)
  BY DEF Passing, setup
<1>1. /\ Passed(outbox, handled, watermark)
      /\ \A v \in Workers : Passed(outbox, handled \cup work[v].todo, work[v].last)
  BY DEF Passing
<1>2. UNCHANGED <<outbox, edit>> /\ \A v \in Workers \ {w} : work'[v] = work[v]
  BY WorkCases
<1>3. outbox \in Seq(Events) /\ DOMAIN outbox \subseteq Nat \ {0} /\ watermark \in Nat
  BY TypeParts DEF IInv
<1>4. ASSUME handled \subseteq handled', UNCHANGED watermark,
             Passed(outbox', handled' \cup work'[w].todo, work'[w].last)
      PROVE  /\ Passed(outbox', handled', watermark')
             /\ \A v \in Workers : Passed(outbox', handled' \cup work'[v].todo, work'[v].last)
  BY <1>1, <1>2, <1>4 DEF Passed
<1>5. CASE UNCHANGED <<handled, watermark>> /\ work'[w].todo = work[w].todo /\ work'[w].last = work[w].last
  BY <1>1, <1>2, <1>4, <1>5
<1>6. ASSUME work'[w].last = 0 PROVE Passed(outbox', handled' \cup work'[w].todo, work'[w].last)
  BY <1>2, <1>3, <1>6 DEF Passed
<1>7. CASE UNCHANGED <<handled, watermark>> /\ work'[w].last = 0
  BY <1>4, <1>6, <1>7
<1>8. CASE UNCHANGED <<handled, watermark>> /\ Beyond # {} /\ work'[w].todo = Beyond /\ work'[w].last = Newest
  <2>1. Newest \in DOMAIN outbox /\ outbox[Newest].visible
    BY <1>8, NewestBeyond DEF IInv, Beyond
  <2>2. \A i \in DOMAIN outbox : outbox[i].visible => i \in handled \cup Beyond
    BY <1>1, <1>3 DEF Passed, Beyond
  <2>3. Passed(outbox, handled \cup Beyond, Newest)
    BY <2>1, <2>2 DEF Passed
  <2> QED
    BY <1>2, <1>4, <1>8, <2>3
<1>9. CASE /\ handled' = handled \cup {Least(w)} /\ UNCHANGED watermark
           /\ work'[w].todo = work[w].todo \ {Least(w)} /\ work'[w].last = work[w].last
  <2>1. handled \cup work[w].todo \subseteq handled' \cup work'[w].todo
    BY <1>9
  <2>2. Passed(outbox', handled' \cup work'[w].todo, work'[w].last)
    BY <1>1, <1>2, <1>9, <2>1 DEF Passed
  <2> QED
    BY <1>4, <1>9, <2>2
<1>10. CASE /\ UNCHANGED handled /\ work[w].todo = {} /\ watermark' = work[w].last /\ work'[w].last = 0
  <2>1. Passed(outbox, handled, work[w].last)
    <3>1. handled \cup work[w].todo = handled
      BY <1>10
    <3> QED
      BY <1>1, <3>1
  <2>2. Passed(outbox', handled', watermark')
    BY <1>2, <1>10, <2>1
  <2> QED
    BY <1>1, <1>2, <1>6, <1>10, <2>2
<1> QED
  BY <1>5, <1>7, <1>8, <1>9, <1>10, WorkCases

LEMMA PInvNext == PInv /\ [Next]_vars => PInv'
<1> SUFFICES ASSUME PInv, [Next]_vars PROVE PInv'
  OBVIOUS
<1>1. IInv' /\ IInv /\ Ids /\ Passing
  BY IInvNext DEF PInv
<1>2. ASSUME UNCHANGED setup, NEW e \in Editors, Edit(e) PROVE Ids' /\ Passing'
  <2>1. Ids'
    BY <1>1, <1>2, EditIds
  <2>2. UNCHANGED <<handled, watermark, work, faults>>
    BY <1>2 DEF Edit, setup
  <2>3. watermark \in Nat /\ \A w \in Workers : work[w].last \in Nat
    BY <1>1, TypeParts DEF IInv, Tasks
  <2>4. "late" \notin faults => /\ Passed(outbox', handled, watermark)
                              /\ \A w \in Workers : Passed(outbox', handled \cup work[w].todo, work[w].last)
    BY <1>1, <1>2, <2>3, EditPassed DEF Passing
  <2>5. Passing'
    BY <2>2, <2>4 DEF Passing
  <2> QED
    BY <2>1, <2>5
<1>3. ASSUME UNCHANGED setup, NEW w \in Workers, Work(w) PROVE Ids' /\ Passing'
  <2>1. UNCHANGED <<faults, outbox, edit>>
    BY <1>3 DEF Work, setup
  <2>2. Ids'
    BY <1>1, <2>1 DEF Ids, InTransaction
  <2> QED
    BY <1>1, <1>3, <2>2, WorkPassing
<1>4. ASSUME UNCHANGED setup, NEW w \in Workers, Fail(w) PROVE Ids' /\ Passing'
  <2>1. UNCHANGED <<faults, outbox, edit, handled, watermark>> /\ work' = [work EXCEPT ![w] = Resting]
    BY <1>4 DEF Fail, Interrupted, Rest, setup
  <2>2. Ids'
    BY <1>1, <2>1 DEF Ids, InTransaction
  <2>3. work \in [Workers -> Tasks] /\ DOMAIN outbox \subseteq Nat \ {0}
    BY <1>1, TypeParts DEF IInv
  <2>4. Passed(outbox, handled \cup Resting.todo, Resting.last)
    BY <2>3 DEF Passed, Resting
  <2>5. \A v \in Workers : work'[v] = work[v] \/ work'[v] = Resting
    BY <2>1, <2>3
  <2>6. Passing'
    BY <1>1, <2>1, <2>4, <2>5 DEF Passing
  <2> QED
    BY <2>2, <2>6
<1>5. CASE UNCHANGED <<faults, outbox, edit, handled, watermark, work>>
  BY <1>1, <1>5 DEF PInv, Ids, InTransaction, Passing
<1>6. CASE UNCHANGED setup /\ LockExpires
  BY <1>5, <1>6 DEF LockExpires, setup
<1>7. CASE UNCHANGED vars
  BY <1>5, <1>7 DEF vars
<1> QED
  BY <1>1, <1>2, <1>3, <1>4, <1>6, <1>7 DEF Next, PInv

(* No poller, whichever calls fail and however many poll at the same time,   *)
(* moves the watermark over an event that is visible and was not handled.    *)
THEOREM NoEventPassedOver == Spec => []EventsHandled
<1>1. Init => PInv
  <2> SUFFICES ASSUME Init PROVE PInv
    OBVIOUS
  <2>1. \A e \in Editors : edit[e].pc = "idle"
    BY DEF Init, Still, Start
  <2>2. DOMAIN outbox = {} /\ watermark = 0 /\ \A w \in Workers : work[w].last = 0
    BY DEF Init, Resting
  <2> QED
    BY <2>1, <2>2, InitIInv DEF PInv, Ids, InTransaction, Passing, Passed
<1>2. PInv => EventsHandled
  BY DEF PInv, Passing, Passed, EventsHandled
<1> QED
  BY <1>1, <1>2, PInvNext, PTL DEF Spec

-----------------------------------------------------------------------------

(* While changes are followed by their events, events become visible in the   *)
(* order of their ids and one worker is at work at a time.                    *)
Calm == faults \subseteq {"fail", "crash", "slow"}

Solo == \A v, w \in Workers : work[v].pc # "idle" /\ work[w].pc # "idle" => v = w

(* A charge under way has written an event of its account, not visible yet.   *)
Charged(x) ==
  /\ db[x.acct] = "on" /\ x.id # 0
  /\ x.id \in DOMAIN outbox => outbox[x.id].acct = x.acct /\ outbox[x.id].type = "account"

(* One editor at a time changes an account, and goes on with what the row is. *)
Sole ==
  /\ \A e, f \in Editors : edit[e].pc # "idle" /\ edit[f].pc # "idle" /\ edit[e].acct = edit[f].acct => e = f
  /\ \A e \in Editors :
       /\ edit[e].pc = "write" => edit[e].hand = db[edit[e].acct]
       /\ edit[e].pc = "commit" => Charged(edit[e])
       /\ edit[e].pc \in {"forget", "enqueue"} /\ db[edit[e].acct] = "gone" => edit[e].type = "account" /\ edit[e].groups
       /\ edit[e].pc = "forget" => db[edit[e].acct] = "gone"

(* A poller's events are visible, and those between two marks.                *)
Mark(n) == n = 0 \/ (n \in DOMAIN outbox /\ outbox[n].visible)
Marks ==
  /\ Mark(watermark)
  /\ \A w \in Workers :
       /\ Mark(work[w].last)
       /\ \A i \in work[w].todo : watermark < i /\ i <= work[w].last /\ outbox[i].visible
       /\ work[w].pc = "idle" => work[w].last = 0 /\ ~work[w].seen
       /\ w \in Requests => work[w].pc # "lock"

Order == Calm => Solo /\ Sole /\ Marks
OInv == PInv /\ Order

(* The outbox with one more event.                                            *)
Appended(a, type, groups, visible) ==
  /\ Len(outbox) \in Nat
  /\ DOMAIN outbox = 1 .. Len(outbox) /\ DOMAIN outbox' = 1 .. Len(outbox) + 1
  /\ Len(outbox') = Len(outbox) + 1
  /\ \A i \in DOMAIN outbox : outbox'[i] = outbox[i]
  /\ outbox'[Len(outbox) + 1].acct = a /\ outbox'[Len(outbox) + 1].type = type
  /\ outbox'[Len(outbox) + 1].groups = groups /\ outbox'[Len(outbox) + 1].visible = visible

LEMMA InsertAppends ==
  ASSUME IInv, NEW a \in Accounts, NEW type \in Types \cup {"used"}, NEW groups \in BOOLEAN,
         NEW visible \in BOOLEAN, Insert(a, type, groups, visible)
  PROVE  Appended(a, type, groups, visible)
<1> DEFINE ev == [acct |-> a, type |-> type, groups |-> groups, visible |-> visible]
<1>1. ev \in Events /\ outbox \in Seq(Events) /\ outbox' = Append(outbox, ev)
  BY TypeParts DEF IInv, Insert, Events
<1>2. ev.acct = a /\ ev.type = type /\ ev.groups = groups /\ ev.visible = visible
  OBVIOUS
<1> HIDE DEF ev
<1>3. Append(outbox, ev)[Len(outbox) + 1] = ev
  BY <1>1, AppendProperties
<1> QED
  BY <1>1, <1>2, <1>3, InsertOutbox DEF Appended, IInv

(* The ways an editor goes on while changes are followed by their events.     *)
Alters(e) ==
  /\ edit[e].pc = "idle" /\ edit'[e].pc \in {"enqueue", "forget"}
  /\ edit'[e].acct \in Accounts /\ RowFree(edit'[e].acct) /\ db[edit'[e].acct] # "gone"
  /\ \A b \in Accounts \ {edit'[e].acct} : db'[b] = db[b]
  /\ edit'[e].pc = "forget" => db'[edit'[e].acct] = "gone"
  /\ db'[edit'[e].acct] = "gone" => edit'[e].type = "account" /\ edit'[e].groups
  /\ UNCHANGED <<outbox, acc>>
Forgets(e) ==
  /\ edit[e].pc = "forget" /\ edit'[e].pc = "enqueue" /\ edit'[e].acct = edit[e].acct
  /\ edit'[e].type = edit[e].type /\ edit'[e].groups = edit[e].groups
  /\ \A b \in Accounts \ {edit[e].acct} : acc'[b] = acc[b]
  /\ UNCHANGED <<db, outbox>>
Charges(e) ==
  /\ edit[e].pc = "idle" /\ edit'[e].pc = "commit"
  /\ edit'[e].acct \in Accounts /\ RowFree(edit'[e].acct) /\ db[edit'[e].acct] = "on"
  /\ Appended(edit'[e].acct, "account", FALSE, FALSE) /\ edit'[e].id = Len(outbox) + 1
  /\ UNCHANGED <<db, acc>>
Commits(e) ==
  /\ edit[e].pc = "commit" /\ edit'[e].pc = "idle" /\ UNCHANGED acc
  /\ \/ UNCHANGED <<db, outbox>>
     \/ /\ db'[edit[e].acct] = "spent" /\ \A b \in Accounts \ {edit[e].acct} : db'[b] = db[b]
        /\ DOMAIN outbox' = DOMAIN outbox
        /\ \A i \in DOMAIN outbox :
             /\ i # edit[e].id => outbox'[i] = outbox[i]
             /\ outbox'[i].acct = outbox[i].acct /\ outbox'[i].type = outbox[i].type
        /\ edit[e].id \in DOMAIN outbox => outbox'[edit[e].id].visible
Uses(e) ==
  UNCHANGED <<db, acc, edit>> /\ \E a \in Accounts : Appended(a, "used", FALSE, TRUE)
Enqueues(e) ==
  /\ edit[e].pc = "enqueue" /\ edit'[e].pc \in {"read", "idle"}
  /\ edit'[e].pc = "read" => edit'[e].acct = edit[e].acct
  /\ Appended(edit[e].acct, edit[e].type, edit[e].groups, TRUE)
  /\ UNCHANGED <<db, acc>>
Reads(e) ==
  /\ edit[e].pc = "read" /\ edit'[e].pc \in {"write", "idle"}
  /\ edit'[e].pc = "write" => edit'[e].acct = edit[e].acct /\ edit'[e].hand = db[edit[e].acct]
  /\ UNCHANGED <<db, outbox, acc>>
Writes(e) ==
  /\ edit[e].pc = "write" /\ edit'[e].pc = "idle"
  /\ acc'[edit[e].acct] = edit[e].hand /\ \A b \in Accounts \ {edit[e].acct} : acc'[b] = acc[b]
  /\ UNCHANGED <<db, outbox>>

LEMMA EditKinds ==
  ASSUME IInv, Calm, NEW e \in Editors, Edit(e)
  PROVE  /\ \A f \in Editors \ {e} : edit'[f] = edit[f]
         /\ UNCHANGED <<active, drawn, lock, watermark, work>>
         /\ \/ Alters(e) \/ Forgets(e) \/ Charges(e) \/ Commits(e)
            \/ Uses(e) \/ Enqueues(e) \/ Reads(e) \/ Writes(e)
<1>1. /\ edit \in [Editors -> Edits] /\ outbox \in Seq(Events)
      /\ db \in [Accounts -> Rows] /\ acc \in [Accounts -> Copies]
  BY TypeParts DEF IInv
<1>2. edit[e].acct \in Accounts /\ edit[e].type \in Types /\ edit[e].groups \in BOOLEAN
  BY <1>1 DEF Edits
<1>3. Still.pc = "idle" /\ "lost" \notin faults /\ "burst" \notin faults
  BY DEF Still, Start, Calm
<1>4. (\A f \in Editors \ {e} : edit'[f] = edit[f]) /\ UNCHANGED <<active, drawn, lock, watermark, work>>
  BY EditCases DEF Edit, bucket
<1>5. CASE Change(e)
  <2>1. PICK a \in Accounts, row \in {"on", "off"}, type \in {"account", "bulk"}, groups \in BOOLEAN, sync \in BOOLEAN :
           /\ db[a] \notin {"gone", row} /\ RowFree(a)
           /\ db' = [db EXCEPT ![a] = row]
           /\ edit' = [edit EXCEPT ![e] = [Start(a, "enqueue") EXCEPT !.type = type, !.groups = groups, !.sync = sync]]
    BY <1>5, ZenonT(20) DEF Change
  <2> DEFINE new == [Start(a, "enqueue") EXCEPT !.type = type, !.groups = groups, !.sync = sync]
  <2>2. new.pc = "enqueue" /\ new.acct = a
    BY DEF Start
  <2> HIDE DEF new
  <2>3. edit' = [edit EXCEPT ![e] = new]
    BY <2>1 DEF new
  <2>4. edit'[e] = new
    BY <1>1, <2>3
  <2>5. edit[e].pc = "idle" /\ UNCHANGED <<outbox, acc>>
    BY <1>5 DEF Change, Begin
  <2>6. db'[a] = row /\ (\A b \in Accounts \ {a} : db'[b] = db[b])
    BY <1>1, <2>1
  <2> QED
    BY <1>4, <2>1, <2>2, <2>4, <2>5, <2>6 DEF Alters
<1>6. CASE Delete(e)
  <2>1. PICK a \in Accounts :
           /\ db[a] # "gone" /\ RowFree(a)
           /\ db' = [db EXCEPT ![a] = "gone"]
           /\ edit' = [edit EXCEPT ![e] = [Start(a, "forget") EXCEPT !.groups = TRUE]]
    BY <1>6 DEF Delete
  <2> DEFINE new == [Start(a, "forget") EXCEPT !.groups = TRUE]
  <2>2. new.pc = "forget" /\ new.acct = a /\ new.type = "account" /\ new.groups
    BY DEF Start
  <2> HIDE DEF new
  <2>3. edit' = [edit EXCEPT ![e] = new]
    BY <2>1 DEF new
  <2>4. edit'[e] = new
    BY <1>1, <2>3
  <2>5. edit[e].pc = "idle" /\ UNCHANGED <<outbox, acc>>
    BY <1>6 DEF Delete, Begin
  <2>6. db'[a] = "gone" /\ (\A b \in Accounts \ {a} : db'[b] = db[b])
    BY <1>1, <2>1
  <2> QED
    BY <1>4, <2>1, <2>2, <2>4, <2>5, <2>6 DEF Alters
<1>7. CASE Forget(e)
  <2>1. /\ edit' = [edit EXCEPT ![e].pc = "enqueue"] /\ edit[e].pc = "forget"
        /\ acc' = [acc EXCEPT ![edit[e].acct] = "none"] /\ UNCHANGED <<db, outbox>>
    BY <1>3, <1>7 DEF Forget
  <2>2. /\ edit'[e].pc = "enqueue" /\ edit'[e].acct = edit[e].acct
        /\ edit'[e].type = edit[e].type /\ edit'[e].groups = edit[e].groups
    BY <1>1, <2>1 DEF Edits
  <2> QED
    BY <1>1, <1>4, <2>1, <2>2 DEF Forgets
<1>8. CASE Charge(e)
  <2>1. PICK a \in Accounts :
           /\ db[a] = "on" /\ RowFree(a) /\ Insert(a, "account", FALSE, FALSE)
           /\ edit' = [edit EXCEPT ![e] = [Start(a, "commit") EXCEPT !.id = Len(outbox) + 1]]
    BY <1>3, <1>8 DEF Charge, Repeated
  <2>2. Appended(a, "account", FALSE, FALSE)
    BY <2>1, InsertAppends DEF Types
  <2>3. edit'[e].pc = "commit" /\ edit'[e].acct = a /\ edit'[e].id = Len(outbox) + 1
    BY <1>1, <2>1 DEF Start
  <2>4. edit[e].pc = "idle" /\ UNCHANGED <<db, acc>>
    BY <1>8 DEF Charge, Begin
  <2> QED
    BY <1>4, <2>1, <2>2, <2>3, <2>4 DEF Charges
<1>9. CASE Commit(e)
  <2>1. edit[e].pc = "commit" /\ edit' = [edit EXCEPT ![e] = Still] /\ UNCHANGED acc
    BY <1>9 DEF Commit, InTransaction
  <2>2. edit'[e].pc = "idle"
    BY <1>1, <1>3, <2>1
  <2>3. CASE UNCHANGED <<db, outbox>>
    BY <1>4, <2>1, <2>2, <2>3 DEF Commits
  <2>4. CASE /\ db' = [db EXCEPT ![edit[e].acct] = "spent"]
             /\ outbox' = IF edit[e].id = 0 THEN outbox ELSE [outbox EXCEPT ![edit[e].id].visible = TRUE]
    <3>1. db'[edit[e].acct] = "spent" /\ \A b \in Accounts \ {edit[e].acct} : db'[b] = db[b]
      BY <1>1, <1>2, <2>4
    <3>2. DOMAIN outbox' = DOMAIN outbox
      BY <1>1, <2>4
    <3>3. ASSUME NEW i \in DOMAIN outbox
          PROVE  /\ i # edit[e].id => outbox'[i] = outbox[i]
                 /\ outbox'[i].acct = outbox[i].acct /\ outbox'[i].type = outbox[i].type
                 /\ i = edit[e].id => outbox'[i].visible
      <4>1. outbox[i] \in Events /\ i # 0
        BY <1>1, <3>3
      <4> QED
        BY <1>1, <2>4, <3>3, <4>1 DEF Events
    <3> QED
      BY <1>4, <2>1, <2>2, <3>1, <3>2, <3>3 DEF Commits
  <2> QED
    BY <1>9, <2>3, <2>4 DEF Commit
<1>10. CASE Use(e)
  <2>1. UNCHANGED <<db, acc, edit>> /\ \E a \in Accounts : Appended(a, "used", FALSE, TRUE)
    BY <1>10, InsertAppends DEF Use
  <2> QED
    BY <1>4, <2>1 DEF Uses
<1>11. CASE Enqueue(e)
  <2>1. /\ edit[e].pc = "enqueue" /\ Insert(edit[e].acct, edit[e].type, edit[e].groups, TRUE) /\ UNCHANGED <<db, acc>>
        /\ edit' = [edit EXCEPT ![e] = IF edit[e].sync THEN Start(edit[e].acct, "read") ELSE Still]
    BY <1>3, <1>11 DEF Enqueue, Repeated
  <2>2. Start(edit[e].acct, "read").pc = "read" /\ Start(edit[e].acct, "read").acct = edit[e].acct
    BY DEF Start
  <2>3. edit'[e].pc \in {"read", "idle"} /\ (edit'[e].pc = "read" => edit'[e].acct = edit[e].acct)
    BY <1>1, <1>3, <2>1, <2>2
  <2>4. Appended(edit[e].acct, edit[e].type, edit[e].groups, TRUE)
    BY <1>2, <2>1, InsertAppends
  <2> QED
    BY <1>4, <2>1, <2>3, <2>4 DEF Enqueues
<1>12. CASE SyncRead(e)
  <2> DEFINE new == [Start(edit[e].acct, "write") EXCEPT !.hand = db[edit[e].acct]]
  <2>1. new.pc = "write" /\ new.acct = edit[e].acct /\ new.hand = db[edit[e].acct]
    BY DEF Start
  <2>2. /\ edit[e].pc = "read" /\ UNCHANGED <<db, outbox, acc>>
        /\ edit' = [edit EXCEPT ![e] = IF db[edit[e].acct] = "gone" THEN Still ELSE new]
    BY <1>12 DEF SyncRead
  <2> HIDE DEF new
  <2>3. edit'[e] \in {Still, new}
    BY <1>1, <2>2
  <2> QED
    BY <1>3, <1>4, <2>1, <2>2, <2>3 DEF Reads
<1>13. CASE SyncWrite(e)
  <2>1. /\ edit[e].pc = "write" /\ edit' = [edit EXCEPT ![e] = Still]
        /\ acc' = [acc EXCEPT ![edit[e].acct] = edit[e].hand] /\ UNCHANGED <<db, outbox>>
    BY <1>3, <1>13 DEF SyncWrite
  <2> QED
    BY <1>1, <1>2, <1>3, <1>4, <2>1 DEF Writes
<1> QED
  BY <1>5, <1>6, <1>7, <1>8, <1>9, <1>10, <1>11, <1>12, <1>13 DEF Edit

(* A visible event stays what it is.                                          *)
LEMMA VisibleKept ==
  ASSUME OInv, Calm, NEW e \in Editors, Edit(e), NEW i \in DOMAIN outbox, outbox[i].visible
  PROVE  i \in DOMAIN outbox' /\ outbox'[i] = outbox[i]
<1>1. IInv /\ Ids /\ "late" \notin faults /\ Sole
  BY DEF OInv, PInv, Order, Calm
<1>2. CASE Alters(e) \/ Forgets(e) \/ Reads(e) \/ Writes(e)
  BY <1>2 DEF Alters, Forgets, Reads, Writes
<1>3. CASE Charges(e) \/ Uses(e) \/ Enqueues(e)
  BY <1>3 DEF Charges, Uses, Enqueues, Appended
<1>4. CASE Commits(e)
  <2>1. edit[e].id # i
    BY <1>1, <1>4 DEF Commits, Ids, InTransaction, Sole, Charged
  <2> QED
    BY <1>4, <2>1 DEF Commits
<1> QED
  BY <1>1, <1>2, <1>3, <1>4, EditKinds

LEMMA EditSole ==
  ASSUME OInv, Calm, NEW e \in Editors, Edit(e)
  PROVE  Sole'
<1>1. IInv /\ Ids /\ "late" \notin faults /\ "burst" \notin faults /\ Sole
  BY DEF OInv, PInv, Order, Calm
<1>2. \A f \in Editors : edit[f].acct \in Accounts
  BY <1>1, TypeParts DEF IInv, Edits
<1>3. \A f \in Editors \ {e} : edit'[f] = edit[f]
  BY <1>1, EditKinds
<1>4. ASSUME NEW f \in Editors, edit[f].pc = "commit"
      PROVE  /\ Charged(edit[f]) /\ edit[f].id \in DOMAIN outbox
             /\ \A g \in Editors : edit[g].pc = "commit" => g = f
  BY <1>1, <1>4 DEF Sole, Charged, Ids, InTransaction
<1>5. ASSUME \A f, g \in Editors : edit'[f].pc # "idle" /\ edit'[g].pc # "idle" /\ edit'[f].acct = edit'[g].acct => f = g,
             \A f \in Editors \ {e} : edit[f].pc # "idle" => db'[edit[f].acct] = db[edit[f].acct],
             \A f \in Editors \ {e} : edit[f].pc = "commit" =>
                 /\ outbox'[edit[f].id].acct = outbox[edit[f].id].acct
                 /\ outbox'[edit[f].id].type = outbox[edit[f].id].type,
             /\ edit'[e].pc = "write" => edit'[e].hand = db'[edit'[e].acct]
             /\ edit'[e].pc = "commit" => Charged(edit[e])'
             /\ edit'[e].pc \in {"forget", "enqueue"} /\ db'[edit'[e].acct] = "gone" => edit'[e].type = "account" /\ edit'[e].groups
             /\ edit'[e].pc = "forget" => db'[edit'[e].acct] = "gone"
      PROVE  Sole'
  <2>1. ASSUME NEW f \in Editors \ {e}
        PROVE  /\ edit'[f].pc = "write" => edit'[f].hand = db'[edit'[f].acct]
               /\ edit'[f].pc = "commit" => Charged(edit[f])'
               /\ edit'[f].pc \in {"forget", "enqueue"} /\ db'[edit'[f].acct] = "gone" => edit'[f].type = "account" /\ edit'[f].groups
               /\ edit'[f].pc = "forget" => db'[edit'[f].acct] = "gone"
    <3>1. edit'[f] = edit[f]
      BY <1>3
    <3>2. edit[f].pc = "commit" => Charged(edit[f])'
      BY <1>4, <1>5, <3>1 DEF Charged
    <3> QED
      BY <1>1, <1>5, <3>1, <3>2 DEF Sole
  <2> QED
    BY <1>5, <2>1 DEF Sole
<1>6. \A f, g \in Editors : edit[f].pc # "idle" /\ edit[g].pc # "idle" /\ edit[f].acct = edit[g].acct => f = g
  BY <1>1 DEF Sole
<1>7. CASE Alters(e)
  <2>1. \A f \in Editors : edit[f].pc # "idle" => edit[f].acct # edit'[e].acct
    BY <1>1, <1>7 DEF Alters, RowFree
  <2>2. \A f, g \in Editors : edit'[f].pc # "idle" /\ edit'[g].pc # "idle" /\ edit'[f].acct = edit'[g].acct => f = g
    BY <1>3, <1>6, <2>1
  <2>3. \A f \in Editors \ {e} : edit[f].pc # "idle" => db'[edit[f].acct] = db[edit[f].acct]
    BY <1>2, <1>7, <2>1 DEF Alters
  <2> QED
    BY <1>5, <1>7, <2>2, <2>3 DEF Alters
<1>8. CASE Charges(e)
  <2>1. \A f \in Editors : edit[f].pc # "idle" => edit[f].acct # edit'[e].acct
    BY <1>1, <1>8 DEF Charges, RowFree
  <2>2. \A f, g \in Editors : edit'[f].pc # "idle" /\ edit'[g].pc # "idle" /\ edit'[f].acct = edit'[g].acct => f = g
    BY <1>3, <1>6, <2>1
  <2>3. \A f \in Editors \ {e} : edit[f].pc = "commit" => outbox'[edit[f].id] = outbox[edit[f].id]
    BY <1>4, <1>8 DEF Charges, Appended
  <2>4. Charged(edit[e])'
    BY <1>8 DEF Charges, Appended, Charged
  <2> QED
    BY <1>5, <1>8, <2>2, <2>3, <2>4 DEF Charges
<1>9. CASE Forgets(e)
  <2>1. \A f, g \in Editors : edit'[f].pc # "idle" /\ edit'[g].pc # "idle" /\ edit'[f].acct = edit'[g].acct => f = g
    BY <1>3, <1>6, <1>9 DEF Forgets
  <2> QED
    BY <1>1, <1>5, <1>9, <2>1 DEF Forgets, Sole
<1>10. CASE Commits(e)
  <2>1. \A f, g \in Editors : edit'[f].pc # "idle" /\ edit'[g].pc # "idle" /\ edit'[f].acct = edit'[g].acct => f = g
    BY <1>3, <1>6, <1>10 DEF Commits
  <2>2. \A f \in Editors \ {e} : edit[f].pc # "idle" => edit[f].acct # edit[e].acct
    BY <1>6, <1>10 DEF Commits
  <2>3. \A f \in Editors \ {e} : edit[f].pc # "idle" => db'[edit[f].acct] = db[edit[f].acct]
    BY <1>2, <1>10, <2>2 DEF Commits
  <2>4. \A f \in Editors \ {e} : edit[f].pc # "commit"
    BY <1>4, <1>10 DEF Commits
  <2> QED
    BY <1>5, <1>10, <2>1, <2>3, <2>4 DEF Commits
<1>11. CASE Uses(e)
  <2>1. \A f \in Editors : edit[f].pc = "commit" => outbox'[edit[f].id] = outbox[edit[f].id]
    BY <1>4, <1>11 DEF Uses, Appended
  <2>2. edit[e].pc = "commit" => Charged(edit[e])'
    BY <1>4, <1>11, <2>1 DEF Uses, Charged
  <2> QED
    BY <1>1, <1>5, <1>6, <1>11, <2>1, <2>2 DEF Uses, Sole
<1>12. CASE Enqueues(e)
  <2>1. \A f \in Editors : edit[f].pc = "commit" => outbox'[edit[f].id] = outbox[edit[f].id]
    BY <1>4, <1>12 DEF Enqueues, Appended
  <2>2. \A f, g \in Editors : edit'[f].pc # "idle" /\ edit'[g].pc # "idle" /\ edit'[f].acct = edit'[g].acct => f = g
    BY <1>3, <1>6, <1>12 DEF Enqueues
  <2> QED
    BY <1>5, <1>12, <2>1, <2>2 DEF Enqueues
<1>13. CASE Reads(e)
  <2>1. \A f, g \in Editors : edit'[f].pc # "idle" /\ edit'[g].pc # "idle" /\ edit'[f].acct = edit'[g].acct => f = g
    BY <1>3, <1>6, <1>13 DEF Reads
  <2> QED
    BY <1>5, <1>13, <2>1 DEF Reads
<1>14. CASE Writes(e)
  <2>1. \A f, g \in Editors : edit'[f].pc # "idle" /\ edit'[g].pc # "idle" /\ edit'[f].acct = edit'[g].acct => f = g
    BY <1>3, <1>6, <1>14 DEF Writes
  <2> QED
    BY <1>5, <1>14, <2>1 DEF Writes
<1> QED
  BY <1>1, <1>7, <1>8, <1>9, <1>10, <1>11, <1>12, <1>13, <1>14, EditKinds

LEMMA EditOrder ==
  ASSUME OInv, Calm, NEW e \in Editors, Edit(e)
  PROVE  Solo' /\ Sole' /\ Marks'
<1>1. IInv /\ Solo /\ Marks /\ UNCHANGED <<work, watermark>>
  BY EditKinds DEF OInv, PInv, Order
<1>2. \A n : Mark(n) => Mark(n)'
  BY VisibleKept DEF Mark
<1>3. \A w \in Workers : \A i \in work[w].todo : outbox'[i].visible
  <2>1. \A w \in Workers : work[w].todo \subseteq DOMAIN outbox
    BY <1>1 DEF IInv, Turns
  <2> QED
    BY <1>1, <2>1, VisibleKept DEF Marks
<1>4. Solo'
  BY <1>1 DEF Solo
<1>5. Marks'
  <2>1. Mark(watermark)'
    BY <1>1, <1>2 DEF Marks, Mark
  <2>2. \A w \in Workers : Mark(work[w].last)'
    BY <1>1, <1>2 DEF Marks, Mark
  <2> QED
    BY <1>1, <1>3, <2>1, <2>2 DEF Marks
<1> QED
  BY <1>4, <1>5, EditSole

-----------------------------------------------------------------------------

(* The ways a worker goes on while one is at work at a time.                  *)
Stays(w) ==
  work'[w].todo = work[w].todo /\ work'[w].last = work[w].last /\ work'[w].seen = work[w].seen
Finishes(w) == (w \in Pollers /\ work'[w].pc = "next" /\ Stays(w)) \/ work'[w] = Resting
Polls(w) ==
  /\ work[w].pc = "idle" /\ work'[w].pc = "get" /\ Beyond # {}
  /\ work'[w].todo = Beyond /\ work'[w].last = Newest /\ ~work'[w].seen
  /\ UNCHANGED <<acc, active, drawn, lock, watermark>>
Gets(w) ==
  /\ work[w].pc = "get" /\ work'[w].pc = "set" /\ Stays(w)
  /\ work'[w].hand = IF Event(w).type = "used" THEN acc[Event(w).acct] ELSE db[Event(w).acct]
  /\ UNCHANGED <<acc, active, drawn, lock, watermark>>
Sets(w) ==
  /\ work[w].pc = "set" /\ work'[w].todo = work[w].todo /\ work'[w].last = work[w].last
  /\ IF Concerns(w) THEN work'[w].pc = "lock" ELSE work'[w].pc = "next" /\ work'[w].seen = work[w].seen
  /\ acc'[Event(w).acct] = IF work[w].hand = "gone" THEN "none" ELSE work[w].hand
  /\ \A b \in Accounts \ {Event(w).acct} : acc'[b] = acc[b]
  /\ UNCHANGED <<active, drawn, lock, watermark>>
Drops(w) ==
  /\ work[w].pc = "next" /\ work'[w].todo = work[w].todo \ {Least(w)}
  /\ work'[w].pc = IF work'[w].todo = {} THEN "mark" ELSE "get"
  /\ work'[w].last = work[w].last /\ work'[w].seen = work[w].seen
  /\ UNCHANGED <<acc, active, drawn, lock, watermark>>
Ends(w) ==
  /\ work[w].pc = "mark" /\ work'[w] = Resting /\ watermark' = work[w].last
  /\ UNCHANGED <<acc, active, drawn, lock>>
Begins(w) ==
  /\ work[w].pc = "idle" /\ work'[w].pc \in {"lock", "load"} /\ Stays(w)
  /\ w \in Requests => work'[w].pc = "load"
  /\ UNCHANGED <<acc, active, drawn, lock, watermark>>
Locks(w) ==
  /\ work[w].pc = "lock" /\ lock' = TRUE
  /\ IF lock THEN Finishes(w) ELSE work'[w].pc = "load" /\ Stays(w)
  /\ UNCHANGED <<acc, active, drawn, watermark>>
Loads(w) ==
  /\ work[w].pc = "load" /\ work'[w].pc = "number" /\ Stays(w) /\ work'[w].rows = db
  /\ UNCHANGED <<acc, active, drawn, lock, watermark>>
Numbers(w) ==
  /\ work[w].pc = "number" /\ work'[w].pc = "write" /\ Stays(w) /\ work'[w].rows = work[w].rows
  /\ drawn' = Append(drawn, w)
  /\ UNCHANGED <<acc, active, lock, watermark>>
CopiesRows(w) ==
  /\ work[w].pc = "write" /\ work'[w].pc = "activate" /\ Stays(w) /\ work'[w].rows = work[w].rows
  /\ \A b \in Accounts : acc'[b] = IF b \in Listed(work[w].rows) THEN work[w].rows[b] ELSE acc[b]
  /\ UNCHANGED <<active, drawn, lock, watermark>>
Activates(w) ==
  /\ work[w].pc = "activate"
  /\ active' = Listed(work[w].rows) \/ (Overtaken(w) /\ UNCHANGED active)
  /\ IF w \in Requests THEN work'[w] = Resting ELSE work'[w].pc = "unlock" /\ Stays(w)
  /\ UNCHANGED <<acc, lock, watermark>>
Unlocks(w) ==
  /\ work[w].pc = "unlock" /\ lock' = FALSE /\ Finishes(w)
  /\ UNCHANGED <<acc, active, drawn, watermark>>

(* The event that a poller deals with.                                        *)
LEMMA LeastEvent ==
  ASSUME IInv, NEW w \in Workers, work[w].todo # {} \/ work[w].pc \in {"get", "set", "next"}
  PROVE  /\ Least(w) \in work[w].todo /\ Least(w) \in DOMAIN outbox /\ Least(w) \in Nat
         /\ Event(w) \in Events /\ \A i \in work[w].todo : Least(w) <= i
<1>1. work[w].todo # {} /\ work[w].todo \subseteq DOMAIN outbox
  BY DEF IInv, Turns, Building
<1>2. Least(w) \in work[w].todo /\ \A i \in work[w].todo : Least(w) <= i
  <2>1. work[w].todo \subseteq Nat
    BY TypeParts DEF IInv, Tasks
  <2> QED
    BY <1>1, <2>1, LeastExists DEF Least
<1>3. outbox \in Seq(Events) /\ Least(w) \in DOMAIN outbox
  BY <1>1, <1>2, TypeParts DEF IInv
<1>4. \A n \in DOMAIN outbox : n \in Nat /\ outbox[n] \in Events
  BY <1>3
<1> QED
  BY <1>2, <1>3, <1>4 DEF Event

LEMMA WorkKinds ==
  ASSUME IInv, NEW w \in Workers, Work(w)
  PROVE  /\ \A v \in Workers \ {w} : work'[v] = work[v]
         /\ UNCHANGED <<db, outbox, edit>>
         /\ \/ Polls(w) \/ Gets(w) \/ Sets(w) \/ Drops(w) \/ Ends(w) \/ Begins(w) \/ Locks(w)
            \/ Loads(w) \/ Numbers(w) \/ CopiesRows(w) \/ Activates(w) \/ Unlocks(w)
<1>1. work \in [Workers -> Tasks] /\ UNCHANGED <<db, outbox, edit>> /\ acc \in [Accounts -> Copies]
  BY TypeParts DEF IInv, Work
<1>2. \A v \in Workers \ {w} : work'[v] = work[v]
  BY WorkCases
<1>3. ASSUME NEW pc, Go(w, pc) PROVE work'[w].pc = pc /\ Stays(w) /\ work'[w].rows = work[w].rows
  BY <1>1, <1>3 DEF Go, Tasks, Stays
<1>4. Rest(w) => work'[w] = Resting
  BY <1>1 DEF Rest
<1>5. Done(w) => Finishes(w)
  BY <1>3, <1>4 DEF Done, Finishes
<1>6. CASE Poll(w)
  <2>1. work' = [work EXCEPT ![w].pc = "get", ![w].todo = Beyond, ![w].last = Newest, ![w].seen = FALSE]
    BY <1>6 DEF Poll
  <2>2. work'[w].pc = "get" /\ work'[w].todo = Beyond /\ work'[w].last = Newest /\ ~work'[w].seen
    BY <1>1, <2>1 DEF Tasks
  <2> QED
    BY <1>1, <1>2, <1>6, <2>2 DEF Poll, bucket, Polls
<1>7. CASE GetAccount(w)
  <2> DEFINE h == IF Event(w).type = "used" THEN acc[Event(w).acct] ELSE db[Event(w).acct]
  <2>1. work' = [work EXCEPT ![w].pc = "set", ![w].hand = h]
    BY <1>7 DEF GetAccount
  <2> HIDE DEF h
  <2>2. work'[w].pc = "set" /\ work'[w].hand = h /\ Stays(w)
    BY <1>1, <2>1 DEF Tasks, Stays
  <2> QED
    BY <1>1, <1>2, <1>7, <2>2 DEF GetAccount, bucket, Gets, h
<1>8. CASE SetAccount(w)
  <2> DEFINE pc == IF Concerns(w) THEN "lock" ELSE "next"
             seen == work[w].seen \/ Concerns(w)
             h == IF work[w].hand = "gone" THEN "none" ELSE work[w].hand
  <2>1. /\ work' = [work EXCEPT ![w].pc = pc, ![w].seen = seen]
        /\ acc' = [acc EXCEPT ![Event(w).acct] = h]
        /\ work[w].pc = "set" /\ UNCHANGED <<active, drawn, lock, watermark>>
    BY <1>1, <1>8 DEF SetAccount, bucket
  <2>2. Event(w).acct \in Accounts
    BY <2>1, LeastEvent DEF Events
  <2>3. (work[w].seen) \in BOOLEAN /\ ~Concerns(w) => seen = work[w].seen
    OBVIOUS
  <2>5. work[w].seen \in BOOLEAN
    BY <1>1 DEF Tasks
  <2> HIDE DEF h, seen
  <2>4. /\ work'[w].pc = pc /\ work'[w].seen = seen
        /\ work'[w].todo = work[w].todo /\ work'[w].last = work[w].last
    <3> HIDE DEF pc
    <3> QED
      BY <1>1, <2>1 DEF Tasks
  <2>6. acc'[Event(w).acct] = h /\ \A b \in Accounts \ {Event(w).acct} : acc'[b] = acc[b]
    BY <1>1, <2>1, <2>2
  <2> QED
    BY <1>1, <1>2, <2>1, <2>3, <2>4, <2>5, <2>6 DEF Sets, h
<1>9. CASE NextEvent(w)
  <2> DEFINE rest == work[w].todo \ {Least(w)}
             pc == IF rest = {} THEN "mark" ELSE "get"
  <2>1. work' = [work EXCEPT ![w].todo = rest, ![w].hand = "none", ![w].pc = pc]
    BY <1>9 DEF NextEvent
  <2> HIDE DEF rest, pc
  <2>2. /\ work'[w].todo = rest /\ work'[w].pc = pc
        /\ work'[w].last = work[w].last /\ work'[w].seen = work[w].seen
    BY <1>1, <2>1 DEF Tasks
  <2> QED
    BY <1>1, <1>2, <1>9, <2>2 DEF NextEvent, bucket, Drops, rest, pc
<1>10. CASE SetWatermark(w)
  BY <1>1, <1>2, <1>4, <1>10 DEF SetWatermark, bucket, Ends
<1>11. CASE StartPeriodic(w) \/ Fallback(w)
  <2>1. Go(w, "lock") \/ Go(w, "load")
    BY <1>11 DEF StartPeriodic, Fallback
  <2>2. w \in Requests => Go(w, "load")
    BY <1>11, SchedulerSnapshotAssumption DEF StartPeriodic, Fallback
  <2>3. work'[w].pc \in {"lock", "load"} /\ Stays(w) /\ (w \in Requests => work'[w].pc = "load")
    BY <1>3, <2>1, <2>2
  <2> QED
    BY <1>1, <1>2, <1>11, <2>3 DEF StartPeriodic, Fallback, bucket, Begins
<1>12. CASE TryLock(w)
  BY <1>1, <1>2, <1>3, <1>5, <1>12 DEF TryLock, Locks
<1>13. CASE Load(w)
  <2>1. work' = [work EXCEPT ![w].pc = "number", ![w].rows = db]
    BY <1>13 DEF Load
  <2>2. work'[w].pc = "number" /\ Stays(w) /\ work'[w].rows = db
    BY <1>1, <2>1 DEF Tasks, Stays
  <2> QED
    BY <1>1, <1>2, <1>13, <2>2 DEF Load, bucket, Loads
<1>14. CASE Number(w)
  BY <1>1, <1>2, <1>3, <1>14 DEF Number, Numbers
<1>15. CASE WriteAccounts(w)
  BY <1>1, <1>2, <1>3, <1>15 DEF WriteAccounts, bucket, CopiesRows
<1>16. CASE Activate(w)
  <2>1. active' = Listed(work[w].rows) \/ (Overtaken(w) /\ UNCHANGED active)
    BY <1>16 DEF Activate
  <2>2. IF w \in Requests THEN work'[w] = Resting ELSE work'[w].pc = "unlock" /\ Stays(w)
    <3>1. CASE w \in Requests
      BY <1>4, <1>16, <3>1 DEF Activate
    <3>2. CASE w \notin Requests
      <4>1. work' = [work EXCEPT ![w].pc = "unlock", ![w].rows = Resting.rows]
        BY <1>16, <3>2 DEF Activate
      <4> QED
        BY <1>1, <3>2, <4>1 DEF Tasks, Stays
    <3> QED
      BY <3>1, <3>2
  <2> QED
    BY <1>1, <1>2, <1>16, <2>1, <2>2 DEF Activate, Activates
<1>17. CASE Unlock(w)
  BY <1>1, <1>2, <1>5, <1>17 DEF Unlock, Unlocks
<1> QED
  BY <1>6, <1>7, <1>8, <1>9, <1>10, <1>11, <1>12, <1>13, <1>14, <1>15, <1>16, <1>17
     DEF Work, Handle, Rebuild

LEMMA RestingIs ==
  Resting.pc = "idle" /\ Resting.todo = {} /\ Resting.last = 0 /\ ~Resting.seen
BY DEF Resting

(* Nobody else is at work.                                                    *)
LEMMA Others ==
  ASSUME OInv, Calm, NEW w \in Workers, Work(w) \/ Fail(w)
  PROVE  \A v \in Workers \ {w} : /\ work[v].pc = "idle" /\ work[v].todo = {} /\ work[v].last = 0
                                  /\ ~work[v].seen /\ work'[v] = work[v]
<1>1. IInv /\ Solo /\ Marks /\ "overlap" \notin faults
  BY DEF OInv, PInv, Order, Calm
<1>2. \A v \in Workers \ {w} : work'[v] = work[v]
  <2>1. CASE Work(w)
    BY <1>1, <2>1, WorkKinds
  <2>2. CASE Fail(w)
    <3>1. work' = [work EXCEPT ![w] = Resting]
      BY <2>2 DEF Fail, Rest
    <3> QED
      BY <1>1, <3>1, TypeParts DEF IInv
  <2> QED
    BY <2>1, <2>2
<1>3. \A v \in Workers \ {w} : work[v].pc = "idle"
  <2>1. CASE work[w].pc # "idle"
    BY <1>1, <2>1 DEF Solo
  <2>2. CASE work[w].pc = "idle"
    <3>1. ~Fail(w)
      BY <2>2 DEF Fail, Interrupted
    <3>2. Poll(w) \/ StartPeriodic(w) \/ Fallback(w)
      BY <2>2, <3>1 DEF Work, Handle, Rebuild, GetAccount, SetAccount, NextEvent, SetWatermark, TryLock,
                        Load, Number, WriteAccounts, Activate, Unlock
    <3>3. Alone(w)
      BY <3>2 DEF Poll, StartPeriodic, Fallback
    <3> QED
      BY <1>1, <3>3 DEF Alone
  <2> QED
    BY <2>1, <2>2
<1> QED
  BY <1>1, <1>2, <1>3 DEF Marks, IInv, Turns

LEMMA WorkOrder ==
  ASSUME OInv, Calm, NEW w \in Workers, Work(w) \/ Fail(w)
  PROVE  Solo' /\ Sole' /\ Marks'
<1>1. IInv /\ Solo /\ Sole /\ Marks
  BY DEF OInv, PInv, Order
<1>2. UNCHANGED <<db, outbox, edit>>
  BY DEF Work, Fail, Interrupted
<1>3. \A v \in Workers \ {w} : /\ work[v].pc = "idle" /\ work[v].todo = {} /\ work[v].last = 0
                               /\ ~work[v].seen /\ work'[v] = work[v]
  BY Others
<1>4. Sole'
  BY <1>1, <1>2 DEF Sole, Charged
<1>5. Solo'
  BY <1>3 DEF Solo
<1>6. \A n : Mark(n) <=> Mark(n)'
  BY <1>2 DEF Mark
<1>7. w \in Requests => work[w].pc \notin {"set", "get", "next", "mark"}
  BY <1>1, SchedulerSnapshotAssumption DEF IInv, Turns, Building
<1>8. SUFFICES /\ Mark(watermark)' /\ Mark(work[w].last)'
               /\ \A i \in work'[w].todo : watermark' < i /\ i <= work'[w].last /\ outbox[i].visible
               /\ work'[w].pc = "idle" => work'[w].last = 0 /\ ~work'[w].seen
               /\ w \in Requests => work'[w].pc # "lock"
  BY <1>1, <1>2, <1>3, <1>4, <1>5, <1>6, <1>8 DEF Marks, Mark
<1>9. /\ Mark(watermark) /\ Mark(work[w].last)
      /\ \A i \in work[w].todo : watermark < i /\ i <= work[w].last /\ outbox[i].visible
  BY <1>1 DEF Marks
<1>10. CASE work'[w] = Resting /\ (watermark' = watermark \/ watermark' = work[w].last)
  BY <1>6, <1>9, <1>10, RestingIs DEF Mark
<1>11. CASE /\ UNCHANGED watermark /\ work'[w].todo \subseteq work[w].todo /\ work'[w].last = work[w].last
            /\ work'[w].pc # "idle" /\ (w \in Requests => work'[w].pc # "lock")
  BY <1>6, <1>9, <1>11 DEF Mark
<1>12. CASE Polls(w)
  <2>1. Newest \in Beyond /\ \A i \in Beyond : i <= Newest
    BY <1>1, <1>12, NewestBeyond DEF Polls, IInv
  <2> QED
    BY <1>6, <1>9, <1>12, <2>1 DEF Polls, Beyond, Mark
<1>13. Finishes(w) => work'[w] = Resting \/ (work'[w].todo = work[w].todo /\ work'[w].last = work[w].last /\ work'[w].pc = "next")
  BY DEF Finishes, Stays
<1>14. CASE Gets(w) \/ Sets(w) \/ Drops(w) \/ Begins(w) \/ Loads(w) \/ Numbers(w) \/ CopiesRows(w)
  BY <1>7, <1>11, <1>14 DEF Gets, Sets, Drops, Begins, Loads, Numbers, CopiesRows, Stays
<1>15. CASE Ends(w)
  BY <1>10, <1>15 DEF Ends
<1>16. CASE Locks(w) \/ Unlocks(w)
  BY <1>10, <1>11, <1>13, <1>16 DEF Locks, Unlocks, Stays
<1>17. CASE Activates(w)
  BY <1>10, <1>11, <1>17 DEF Activates, Stays
<1>18. CASE Fail(w)
  <2>1. work' = [work EXCEPT ![w] = Resting] /\ UNCHANGED watermark
    BY <1>18 DEF Fail, Rest, Interrupted
  <2>2. work'[w] = Resting
    BY <1>1, <2>1, TypeParts DEF IInv
  <2> QED
    BY <1>10, <2>1, <2>2
<1> QED
  BY <1>1, <1>12, <1>14, <1>15, <1>16, <1>17, <1>18, WorkKinds

LEMMA OInvNext == OInv /\ [Next]_vars => OInv'
<1> SUFFICES ASSUME OInv, [Next]_vars PROVE OInv'
  OBVIOUS
<1>1. PInv'
  BY PInvNext DEF OInv
<1>2. ASSUME UNCHANGED setup, NEW e \in Editors, Edit(e) PROVE Order'
  BY <1>2, EditOrder DEF Order, Calm, setup
<1>3. ASSUME UNCHANGED setup, NEW w \in Workers, Work(w) \/ Fail(w) PROVE Order'
  BY <1>3, WorkOrder DEF Order, Calm, setup
<1>4. CASE UNCHANGED <<faults, db, outbox, edit, work, watermark>>
  <2>1. Solo => Solo'
    BY <1>4 DEF Solo
  <2>2. Sole => Sole'
    BY <1>4 DEF Sole, Charged
  <2>3. Marks => Marks'
    <3>1. Mark(watermark) => Mark(watermark)'
      BY <1>4 DEF Mark
    <3>2. ASSUME NEW w \in Workers, Mark(work[w].last) PROVE Mark(work[w].last)'
      BY <1>4, <3>2 DEF Mark
    <3> QED
      BY <1>4, <3>1, <3>2 DEF Marks
  <2>4. Calm' => Calm
    BY <1>4 DEF Calm
  <2> QED
    BY <1>1, <2>1, <2>2, <2>3, <2>4 DEF OInv, Order
<1> QED
  BY <1>1, <1>2, <1>3, <1>4 DEF Next, vars, setup, LockExpires, OInv

LEMMA InitOInv == Init => OInv
<1> SUFFICES ASSUME Init PROVE OInv
  OBVIOUS
<1>1. \A e \in Editors : edit[e].pc = "idle"
  BY DEF Init, Still, Start
<1>2. DOMAIN outbox = {} /\ watermark = 0 /\ \A w \in Workers : work[w] = Resting
  BY DEF Init
<1>3. PInv
  BY <1>1, <1>2, InitIInv, RestingIs DEF PInv, Ids, InTransaction, Passing, Passed
<1>4. Solo /\ Sole /\ Marks
  BY <1>1, <1>2, RestingIs DEF Solo, Sole, Marks, Mark
<1> QED
  BY <1>3, <1>4 DEF OInv, Order

-----------------------------------------------------------------------------

(* A change of a is about to write its event, or a visible event that says of *)
(* it has not been dealt with yet.                                            *)
Busy(a) == \E e \in Editors : edit[e].acct = a /\ edit[e].pc \in {"forget", "enqueue"}
Telling(i, a) == outbox[i].visible /\ outbox[i].acct = a /\ outbox[i].type # "used"
Concerning(i, a) ==
  Telling(i, a) /\ (db[a] # "gone" \/ (outbox[i].type = "account" /\ outbox[i].groups))

ToRead(i, w) == i > work[w].last \/ (i \in work[w].todo /\ (i = Least(w) => work[w].pc = "get"))
OwedCopy(a) == \E i \in DOMAIN outbox : i > watermark /\ Telling(i, a) /\ \A w \in Workers : ToRead(i, w)

ToRebuild(i, w) ==
  \/ i > work[w].last
  \/ i \in work[w].todo /\ ~work[w].seen /\ (i = Least(w) => work[w].pc \in {"get", "set"})
OwedList(a) == \E i \in DOMAIN outbox : i > watermark /\ Concerning(i, a) /\ \A w \in Workers : ToRebuild(i, w)

(* The copy is the row's, or will be once the poller has set it, and nobody   *)
(* holds an older one.                                                        *)
FreshCopy(a) ==
  /\ acc[a] \in {"none", db[a]}
     \/ \E w \in Workers : work[w].pc = "set" /\ Event(w).acct = a /\ Event(w).type # "used"
  /\ \A w \in Workers :
       /\ work[w].pc = "set" /\ Event(w).acct = a => work[w].hand \in {"none", db[a]}
       /\ work[w].pc \in {"number", "write"} /\ a \in Listed(work[w].rows) => work[w].rows[a] = db[a]

CopiesKept == Calm => \A a \in Accounts : Busy(a) \/ OwedCopy(a) \/ FreshCopy(a)

(* The list says of the account what the row says, or will once the rebuild   *)
(* that an event led to has ended, and nobody has read an older row.          *)
Rebuilding(a) ==
  \E w \in Workers : /\ work[w].pc \in {"lock", "load", "number", "write", "activate"}
                     /\ \E i \in DOMAIN outbox : i > watermark /\ Concerning(i, a)
FreshList(a) ==
  /\ active = {} \/ (a \in active <=> a \in Listed(db)) \/ Rebuilding(a)
  /\ \A w \in Workers :
       work[w].pc \in {"number", "write", "activate"} => (a \in Listed(work[w].rows) <=> a \in Listed(db))

(* A lock that nobody holds does not keep a rebuild off, and no version is    *)
(* overtaken; an account that a poller did not find stays deleted.            *)
Unhindered ==
  /\ lock => \E w \in Workers : Holds(w)
  /\ \A w \in Workers : work[w].pc \in {"write", "activate"} => ~Overtaken(w)
  /\ \A w \in Workers : work[w].pc = "set" /\ Event(w).type # "used" /\ work[w].hand = "gone" => db[Event(w).acct] = "gone"

ListKept ==
  faults \subseteq {"fail"} /\ platform # "grok" =>
      Unhindered /\ \A a \in Accounts : Busy(a) \/ OwedList(a) \/ FreshList(a)

SInv == OInv /\ CopiesKept /\ ListKept

(* Event n is newer than all that a poller has taken up, and leads to a       *)
(* rebuild of a's list.                                                       *)
New(n, a) ==
  /\ n \in DOMAIN outbox' /\ n > watermark /\ \A w \in Workers : n > work[w].last
  /\ Concerning(n, a)'

LEMMA MarksBelow ==
  ASSUME OInv, Calm
  PROVE  /\ Len(outbox) \in Nat /\ watermark \in Nat /\ watermark <= Len(outbox)
         /\ \A w \in Workers : work[w].last \in Nat /\ work[w].last <= Len(outbox)
         /\ \A i \in DOMAIN outbox : ~outbox[i].visible => watermark # i /\ \A w \in Workers : work[w].last # i
<1>1. outbox \in Seq(Events) /\ watermark \in Nat /\ \A w \in Workers : work[w].last \in Nat
  BY TypeParts DEF OInv, PInv, IInv, Tasks
<1>2. Marks
  BY DEF OInv, Order
<1>3. DOMAIN outbox = 1 .. Len(outbox) /\ Len(outbox) \in Nat
  BY <1>1
<1> QED
  BY <1>1, <1>2, <1>3 DEF Marks, Mark

(* An account whose row changes is busy, or its event is new; another one's   *)
(* copy is left alone, or becomes what the row is.                            *)
LEMMA EditEffect ==
  ASSUME OInv, Calm, NEW e \in Editors, Edit(e), NEW a \in Accounts
  PROVE  /\ Busy(a) \/ db'[a] # db[a] => Busy(a)' \/ \E n : New(n, a)
         /\ ~Busy(a) /\ db'[a] = db[a] => acc'[a] \in {acc[a], db[a]}
         /\ db[a] = "gone" => db'[a] = "gone"
<1>1. IInv /\ Ids /\ "late" \notin faults /\ Sole
  BY DEF OInv, PInv, Order, Calm
<1>2. (\A f \in Editors \ {e} : edit'[f] = edit[f]) /\ edit[e].acct \in Accounts
  BY <1>1, EditKinds, TypeParts DEF IInv, Edits
<1>3. ASSUME NEW f \in Editors, f # e, edit[f].acct = a, edit[f].pc \in {"forget", "enqueue"}
      PROVE  Busy(a)'
  BY <1>2, <1>3 DEF Busy
<1>4. CASE Alters(e)
  <2>1. edit'[e].acct = a => Busy(a)'
    BY <1>4 DEF Alters, Busy
  <2>2. Busy(a) => Busy(a)'
    BY <1>3, <1>4 DEF Alters, Busy
  <2> QED
    BY <1>4, <2>1, <2>2 DEF Alters
<1>5. CASE Forgets(e)
  <2>1. edit[e].acct = a => Busy(a) /\ Busy(a)'
    BY <1>5 DEF Forgets, Busy
  <2>2. Busy(a) => Busy(a)'
    BY <1>3, <2>1 DEF Busy
  <2> QED
    BY <1>5, <2>1, <2>2 DEF Forgets
<1>6. CASE Charges(e) \/ Uses(e) \/ Reads(e)
  <2>1. UNCHANGED <<db, acc>>
    BY <1>6 DEF Charges, Uses, Reads
  <2>2. Busy(a) => Busy(a)'
    BY <1>2, <1>6 DEF Charges, Uses, Reads, Busy
  <2> QED
    BY <2>1, <2>2
<1>7. CASE Commits(e)
  <2>1. Busy(a) => Busy(a)'
    BY <1>3, <1>7 DEF Commits, Busy
  <2>2. Charged(edit[e])
    BY <1>1, <1>7 DEF Commits, Sole
  <2>3. ASSUME a = edit[e].acct, db' # db, NEW n, n = edit[e].id PROVE New(n, a)
    <3>1. n \in DOMAIN outbox /\ n = Len(outbox) /\ ~outbox[n].visible
      BY <1>1, <1>7, <2>2, <2>3 DEF Commits, Charged, Ids, InTransaction
    <3>2. n > watermark /\ \A w \in Workers : n > work[w].last
      BY <3>1, MarksBelow
    <3>3. /\ n \in DOMAIN outbox' /\ outbox'[n].visible /\ db'[a] = "spent"
          /\ outbox'[n].acct = a /\ outbox'[n].type = "account"
      BY <1>7, <2>2, <2>3, <3>1 DEF Commits, Charged
    <3> QED
      BY <3>2, <3>3 DEF New, Concerning, Telling
  <2>4. db'[a] # db[a] => a = edit[e].acct /\ db' # db
    BY <1>7 DEF Commits
  <2>5. db[a] = "gone" => db'[a] = "gone"
    BY <1>7, <2>2 DEF Commits, Charged
  <2> QED
    BY <1>7, <2>1, <2>3, <2>4, <2>5 DEF Commits
<1>8. CASE Enqueues(e)
  <2>1. ASSUME edit[e].acct = a, NEW n, n = Len(outbox) + 1 PROVE New(n, a)
    <3>1. n > watermark /\ \A w \in Workers : n > work[w].last
      BY <2>1, MarksBelow
    <3>2. edit[e].type \in Types
      BY <1>1, TypeParts DEF IInv, Edits
    <3>3. Concerning(n, a)'
      BY <1>1, <1>8, <2>1, <3>2 DEF Enqueues, Appended, Concerning, Telling, Sole, Types
    <3> QED
      BY <1>8, <2>1, <3>1, <3>3 DEF New, Enqueues, Appended
  <2>2. Busy(a) => Busy(a)' \/ \E n : New(n, a)
    BY <1>3, <2>1 DEF Busy
  <2> QED
    BY <1>8, <2>2 DEF Enqueues
<1>9. CASE Writes(e)
  <2>1. edit[e].hand = db[edit[e].acct]
    BY <1>1, <1>9 DEF Writes, Sole
  <2>2. Busy(a) => Busy(a)'
    BY <1>3, <1>9 DEF Writes, Busy
  <2> QED
    BY <1>9, <2>1, <2>2 DEF Writes
<1> QED
  BY <1>1, <1>4, <1>5, <1>6, <1>7, <1>8, <1>9, EditKinds

LEMMA LeastSame ==
  ASSUME IInv, NEW w \in Workers, work[w].todo # {}, work'[w].todo = work[w].todo
  PROVE  Least(w)' = Least(w)
<1> DEFINE T == work[w].todo
<1>1. T \subseteq Nat /\ T # {}
  BY TypeParts DEF IInv, Tasks
<1>2. PICK x \in T : \A y \in T : x <= y
  <2> HIDE DEF T
  <2> QED
    BY <1>1, LeastExists
<1>3. Least(w) \in T /\ \A y \in T : Least(w) <= y
  BY <1>2 DEF Least
<1>4. Least(w)' \in T /\ \A y \in T : Least(w)' <= y
  BY <1>2 DEF Least
<1>5. Least(w) <= Least(w)' /\ Least(w)' <= Least(w) /\ Least(w) \in Nat /\ Least(w)' \in Nat
  BY <1>1, <1>3, <1>4
<1> QED
  BY <1>5

LEMMA EditSettles ==
  ASSUME SInv, UNCHANGED setup, NEW e \in Editors, Edit(e)
  PROVE  CopiesKept' /\ ListKept'
<1>1. OInv /\ CopiesKept /\ ListKept /\ UNCHANGED <<platform, faults>>
  BY DEF SInv, setup
<1>2. IInv
  BY <1>1 DEF OInv, PInv
<1> SUFFICES ASSUME Calm PROVE CopiesKept' /\ ListKept'
  BY <1>1 DEF CopiesKept, ListKept, Calm
<1>3. UNCHANGED <<work, watermark, active, drawn, lock>>
  BY <1>2, EditKinds
<1>4. Marks
  BY <1>1 DEF OInv, Order
<1>5. ASSUME NEW w \in Workers, work[w].todo # {} \/ work[w].pc = "set"
      PROVE  Least(w)' = Least(w) /\ Event(w)' = Event(w)
  <2>1. work[w].todo # {}
    BY <1>2, <1>5 DEF IInv, Turns, Building
  <2>2. Least(w)' = Least(w)
    BY <1>2, <1>3, <2>1, LeastSame
  <2>3. Least(w) \in DOMAIN outbox /\ outbox[Least(w)].visible
    BY <1>2, <1>4, <2>1, LeastEvent DEF Marks
  <2> QED
    BY <1>1, <2>2, <2>3, VisibleKept DEF Event
<1>6. ASSUME NEW a \in Accounts, NEW n, New(n, a)
      PROVE  OwedCopy(a)' /\ OwedList(a)'
  BY <1>3, <1>6 DEF New, OwedCopy, OwedList, Concerning, ToRead, ToRebuild
<1>7. ASSUME NEW i, NEW w \in Workers
      PROVE  (ToRead(i, w) => ToRead(i, w)') /\ (ToRebuild(i, w) => ToRebuild(i, w)')
  <2>1. i \in work[w].todo => Least(w)' = Least(w)
    BY <1>5
  <2> QED
    BY <1>3, <2>1 DEF ToRead, ToRebuild
<1>8. ASSUME NEW a \in Accounts, NEW i \in DOMAIN outbox, outbox[i].visible
      PROVE  /\ i \in DOMAIN outbox' /\ (Telling(i, a) => Telling(i, a)')
             /\ db'[a] = db[a] /\ Concerning(i, a) => Concerning(i, a)'
  BY <1>1, <1>8, VisibleKept DEF Telling, Concerning
<1>9. ASSUME NEW a \in Accounts, OwedCopy(a) PROVE OwedCopy(a)'
  <2>1. PICK i \in DOMAIN outbox : i > watermark /\ Telling(i, a) /\ \A w \in Workers : ToRead(i, w)
    BY <1>9 DEF OwedCopy
  <2>2. i \in DOMAIN outbox' /\ Telling(i, a)' /\ \A w \in Workers : ToRead(i, w)'
    BY <1>7, <1>8, <2>1 DEF Telling
  <2> QED
    BY <1>3, <2>1, <2>2 DEF OwedCopy
<1>10. ASSUME NEW a \in Accounts, OwedList(a), db'[a] = db[a] PROVE OwedList(a)'
  <2>1. PICK i \in DOMAIN outbox : i > watermark /\ Concerning(i, a) /\ \A w \in Workers : ToRebuild(i, w)
    BY <1>10 DEF OwedList
  <2>2. i \in DOMAIN outbox' /\ Concerning(i, a)' /\ \A w \in Workers : ToRebuild(i, w)'
    BY <1>7, <1>8, <1>10, <2>1 DEF Concerning, Telling
  <2> QED
    BY <1>3, <2>1, <2>2 DEF OwedList
<1>11. ASSUME NEW a \in Accounts, Rebuilding(a), db'[a] = db[a] PROVE Rebuilding(a)'
  <2>1. PICK w \in Workers : /\ work[w].pc \in {"lock", "load", "number", "write", "activate"}
                             /\ \E i \in DOMAIN outbox : i > watermark /\ Concerning(i, a)
    BY <1>11 DEF Rebuilding
  <2>2. PICK i \in DOMAIN outbox : i > watermark /\ Concerning(i, a)
    BY <2>1
  <2>3. i \in DOMAIN outbox' /\ Concerning(i, a)'
    BY <1>8, <1>11, <2>2 DEF Concerning, Telling
  <2> QED
    BY <1>3, <2>1, <2>2, <2>3 DEF Rebuilding
<1>12. CopiesKept'
  <2> SUFFICES ASSUME NEW a \in Accounts PROVE Busy(a)' \/ OwedCopy(a)' \/ FreshCopy(a)'
    BY DEF CopiesKept
  <2>1. CASE Busy(a) \/ db'[a] # db[a]
    BY <1>1, <1>6, <2>1, EditEffect
  <2>2. CASE ~Busy(a) /\ db'[a] = db[a] /\ OwedCopy(a)
    BY <1>9, <2>2
  <2>3. CASE ~Busy(a) /\ db'[a] = db[a] /\ FreshCopy(a)
    <3>1. acc'[a] \in {acc[a], db[a]}
      BY <1>1, <2>3, EditEffect
    <3>2. acc[a] \in {"none", db[a]} => acc'[a] \in {"none", db'[a]}
      BY <2>3, <3>1
    <3>3. ASSUME NEW w \in Workers, work[w].pc = "set" /\ Event(w).acct = a /\ Event(w).type # "used"
          PROVE  work'[w].pc = "set" /\ Event(w)'.acct = a /\ Event(w)'.type # "used"
      BY <1>3, <1>5, <3>3
    <3>4. ASSUME NEW w \in Workers
          PROVE  /\ work'[w].pc = "set" /\ Event(w)'.acct = a => work'[w].hand \in {"none", db'[a]}
                 /\ work'[w].pc \in {"number", "write"} /\ a \in Listed(work'[w].rows) => work'[w].rows[a] = db'[a]
      BY <1>3, <1>5, <2>3 DEF FreshCopy
    <3>5. \/ acc'[a] \in {"none", db'[a]}
          \/ \E w \in Workers : work'[w].pc = "set" /\ Event(w)'.acct = a /\ Event(w)'.type # "used"
      BY <2>3, <3>2, <3>3 DEF FreshCopy
    <3> QED
      BY <3>4, <3>5 DEF FreshCopy
  <2> QED
    BY <1>1, <2>1, <2>2, <2>3 DEF CopiesKept
<1>13. ListKept'
  <2> SUFFICES ASSUME faults \subseteq {"fail"}, platform # "grok"
               PROVE  Unhindered' /\ \A a \in Accounts : Busy(a)' \/ OwedList(a)' \/ FreshList(a)'
    BY <1>1 DEF ListKept
  <2>1. Unhindered /\ \A a \in Accounts : Busy(a) \/ OwedList(a) \/ FreshList(a)
    BY <1>1 DEF ListKept
  <2>2. Unhindered'
    <3>1. lock' => \E w \in Workers : Holds(w)'
      BY <1>3, <2>1 DEF Unhindered, Holds
    <3>2. \A w \in Workers : work'[w].pc \in {"write", "activate"} => ~Overtaken(w)'
      BY <1>3, <2>1 DEF Unhindered, Overtaken
    <3>3. ASSUME NEW w \in Workers, work'[w].pc = "set", Event(w)'.type # "used", work'[w].hand = "gone"
          PROVE  db'[Event(w)'.acct] = "gone"
      <4>1. Event(w)' = Event(w) /\ Event(w).acct \in Accounts
        BY <1>2, <1>3, <1>5, <3>3, LeastEvent DEF Events
      <4>2. db[Event(w).acct] = "gone"
        BY <1>3, <2>1, <3>3, <4>1 DEF Unhindered
      <4> QED
        BY <1>1, <4>1, <4>2, EditEffect
    <3> QED
      BY <3>1, <3>2, <3>3 DEF Unhindered
  <2>3. ASSUME NEW a \in Accounts PROVE Busy(a)' \/ OwedList(a)' \/ FreshList(a)'
    <3>1. CASE Busy(a) \/ db'[a] # db[a]
      BY <1>1, <1>6, <3>1, EditEffect
    <3>2. CASE ~Busy(a) /\ db'[a] = db[a] /\ OwedList(a)
      BY <1>10, <3>2
    <3>3. CASE ~Busy(a) /\ db'[a] = db[a] /\ FreshList(a)
      <4>1. a \in Listed(db') <=> a \in Listed(db)
        BY <3>3 DEF Listed
      <4> QED
        BY <1>3, <1>11, <3>3, <4>1 DEF FreshList
    <3> QED
      BY <2>1, <3>1, <3>2, <3>3
  <2> QED
    BY <2>2, <2>3
<1> QED
  BY <1>12, <1>13

LEMMA WorkCopies ==
  ASSUME SInv, UNCHANGED setup, NEW w \in Workers, Work(w) \/ Fail(w)
  PROVE  CopiesKept'
<1>1. OInv /\ CopiesKept /\ UNCHANGED faults
  BY DEF SInv, setup
<1> SUFFICES ASSUME Calm, NEW a \in Accounts PROVE Busy(a)' \/ OwedCopy(a)' \/ FreshCopy(a)'
  BY <1>1 DEF CopiesKept, Calm
<1>2. IInv /\ Marks
  BY <1>1 DEF OInv, PInv, Order
<1>3. UNCHANGED <<db, outbox, edit>>
  BY DEF Work, Fail, Interrupted
<1>4. \A v \in Workers \ {w} : /\ work[v].pc = "idle" /\ work[v].todo = {} /\ work[v].last = 0
                               /\ ~work[v].seen /\ work'[v] = work[v]
  BY <1>1, Others
<1>5. \A i \in DOMAIN outbox : i \in Nat /\ i > 0
  BY <1>2, TypeParts DEF IInv
<1>6. Busy(a) => Busy(a)'
  BY <1>3 DEF Busy
<1>7. ASSUME NEW i \in DOMAIN outbox, i > watermark', Telling(i, a), ToRead(i, w)'
      PROVE  OwedCopy(a)'
  <2>1. \A v \in Workers : ToRead(i, v)'
    BY <1>4, <1>5, <1>7 DEF ToRead
  <2>2. Telling(i, a)'
    BY <1>3, <1>7 DEF Telling
  <2> QED
    BY <1>3, <1>7, <2>1, <2>2 DEF OwedCopy
<1>8. ASSUME NEW i \in DOMAIN outbox, ToRead(i, w), work[w].pc # "get",
             work'[w].todo = work[w].todo, work'[w].last = work[w].last
      PROVE  ToRead(i, w)'
  <2>1. i \in work[w].todo => Least(w)' = Least(w)
    BY <1>2, <1>8, LeastSame
  <2> QED
    BY <1>8, <2>1 DEF ToRead
<1>9. ASSUME NEW i \in DOMAIN outbox, work'[w] = Resting PROVE ToRead(i, w)'
  BY <1>5, <1>9, RestingIs DEF ToRead
<1>10. ASSUME acc'[a] \in {"none", db[a]},
              work'[w].pc = "set" => work'[w].hand \in {"none", db[a]},
              work'[w].pc \in {"number", "write"} /\ a \in Listed(work'[w].rows) => work'[w].rows[a] = db[a]
       PROVE  FreshCopy(a)'
  BY <1>3, <1>4, <1>10 DEF FreshCopy
<1>11. FreshCopy(a) =>
          /\ acc[a] \in {"none", db[a]} \/ (work[w].pc = "set" /\ Event(w).acct = a /\ Event(w).type # "used")
          /\ work[w].pc = "set" /\ Event(w).acct = a => work[w].hand \in {"none", db[a]}
          /\ work[w].pc \in {"number", "write"} /\ a \in Listed(work[w].rows) => work[w].rows[a] = db[a]
  BY <1>4 DEF FreshCopy
<1>12. OwedCopy(a) => \E i \in DOMAIN outbox : i > watermark /\ Telling(i, a) /\ ToRead(i, w)
  BY DEF OwedCopy
<1>13. Busy(a) \/ OwedCopy(a) \/ FreshCopy(a)
  BY <1>1 DEF CopiesKept
<1>14. CASE Polls(w)
  <2>1. ASSUME NEW i \in DOMAIN outbox, i > watermark, Telling(i, a) PROVE OwedCopy(a)'
    <3>1. i \in work'[w].todo /\ work'[w].pc = "get" /\ UNCHANGED watermark
      BY <1>14, <2>1 DEF Polls, Beyond, Telling
    <3> QED
      BY <1>7, <2>1, <3>1 DEF ToRead
  <2> QED
    BY <1>6, <1>10, <1>11, <1>12, <1>13, <1>14, <2>1 DEF Polls
<1>15. CASE Gets(w)
  <2>1. Least(w)' = Least(w) /\ Event(w)' = Event(w) /\ Event(w) = outbox[Least(w)]
    <3>1. work[w].todo # {}
      BY <1>2, <1>15 DEF IInv, Turns, Gets, Building
    <3> QED
      BY <1>2, <1>3, <1>15, <3>1, LeastSame DEF Gets, Stays, Event
  <2>2. ASSUME NEW i \in DOMAIN outbox, i > watermark, Telling(i, a), ToRead(i, w)
        PROVE  OwedCopy(a)' \/ FreshCopy(a)'
    <3>1. CASE i = Least(w) /\ i \in work[w].todo
      <4>1. work'[w].pc = "set" /\ Event(w)'.acct = a /\ Event(w)'.type # "used" /\ work'[w].hand = db[a]
        BY <1>15, <2>1, <2>2, <3>1 DEF Gets, Telling
      <4> QED
        BY <1>3, <1>4, <4>1 DEF FreshCopy
    <3>2. CASE i # Least(w) \/ i \notin work[w].todo
      BY <1>7, <1>15, <2>1, <2>2, <3>2 DEF Gets, Stays, ToRead
    <3> QED
      BY <3>1, <3>2
  <2>3. ASSUME FreshCopy(a) PROVE FreshCopy(a)'
    <3>1. acc[a] \in {"none", db[a]} /\ acc'[a] = acc[a]
      BY <1>11, <1>15, <2>3 DEF Gets
    <3>2. Event(w).acct = a => work'[w].hand \in {"none", db[a]}
      BY <1>15, <3>1 DEF Gets
    <3> QED
      BY <1>3, <1>4, <1>15, <2>1, <3>1, <3>2 DEF FreshCopy, Gets
  <2> QED
    BY <1>6, <1>12, <1>13, <2>2, <2>3
<1>16. CASE Sets(w)
  <2>1. OwedCopy(a) => OwedCopy(a)'
    BY <1>7, <1>8, <1>12, <1>16 DEF Sets
  <2>2. FreshCopy(a) => FreshCopy(a)'
    <3>1. work'[w].pc \in {"lock", "next"}
      BY <1>16 DEF Sets
    <3>2. FreshCopy(a) => acc'[a] \in {"none", db[a]}
      BY <1>11, <1>16 DEF Sets
    <3> QED
      BY <1>10, <3>1, <3>2
  <2> QED
    BY <1>6, <1>13, <2>1, <2>2
<1>17. CASE Drops(w)
  <2>1. OwedCopy(a) => OwedCopy(a)'
    BY <1>7, <1>12, <1>17 DEF Drops, ToRead
  <2>2. FreshCopy(a) => FreshCopy(a)'
    BY <1>10, <1>11, <1>17 DEF Drops
  <2> QED
    BY <1>6, <1>13, <2>1, <2>2
<1>18. CASE Ends(w)
  <2>1. work[w].todo = {}
    BY <1>2, <1>18 DEF IInv, Turns, Ends
  <2>2. OwedCopy(a) => OwedCopy(a)'
    BY <1>7, <1>9, <1>12, <1>18, <2>1 DEF Ends, ToRead
  <2>3. FreshCopy(a) => FreshCopy(a)'
    BY <1>10, <1>11, <1>18, RestingIs DEF Ends
  <2> QED
    BY <1>6, <1>13, <2>2, <2>3
<1>19. Finishes(w) =>
         /\ work'[w].pc \notin {"set", "number", "write"}
         /\ work'[w] = Resting \/ (work'[w].todo = work[w].todo /\ work'[w].last = work[w].last)
  BY RestingIs DEF Finishes, Stays
<1>20. CASE Begins(w) \/ Locks(w) \/ Unlocks(w)
  <2>1. work[w].pc \notin {"get", "set"} /\ work'[w].pc \notin {"set", "number", "write"} /\ UNCHANGED <<acc, watermark>>
    BY <1>19, <1>20 DEF Begins, Locks, Unlocks
  <2>2. work'[w] = Resting \/ (work'[w].todo = work[w].todo /\ work'[w].last = work[w].last)
    BY <1>19, <1>20 DEF Begins, Locks, Unlocks, Stays
  <2>3. OwedCopy(a) => OwedCopy(a)'
    BY <1>7, <1>8, <1>9, <1>12, <2>1, <2>2
  <2>4. FreshCopy(a) => FreshCopy(a)'
    BY <1>10, <1>11, <2>1
  <2> QED
    BY <1>6, <1>13, <2>3, <2>4
<1>21. CASE Loads(w) \/ Numbers(w) \/ CopiesRows(w)
  <2>1. /\ work[w].pc \notin {"get", "set"} /\ UNCHANGED watermark
        /\ work'[w].todo = work[w].todo /\ work'[w].last = work[w].last
    BY <1>21 DEF Loads, Numbers, CopiesRows, Stays
  <2>2. OwedCopy(a) => OwedCopy(a)'
    BY <1>7, <1>8, <1>12, <2>1
  <2>3. FreshCopy(a) => FreshCopy(a)'
    BY <1>10, <1>11, <1>21 DEF Loads, Numbers, CopiesRows
  <2> QED
    BY <1>6, <1>13, <2>2, <2>3
<1>22. CASE Activates(w)
  <2>1. work'[w] = Resting \/ (work'[w].todo = work[w].todo /\ work'[w].last = work[w].last)
    BY <1>22 DEF Activates, Stays
  <2>2. work[w].pc = "activate" /\ work'[w].pc \in {"idle", "unlock"} /\ UNCHANGED <<acc, watermark>>
    BY <1>22, RestingIs DEF Activates
  <2>3. OwedCopy(a) => OwedCopy(a)'
    BY <1>7, <1>8, <1>9, <1>12, <2>1, <2>2
  <2>4. FreshCopy(a) => FreshCopy(a)'
    BY <1>10, <1>11, <2>2
  <2> QED
    BY <1>6, <1>13, <2>3, <2>4
<1>23. CASE Fail(w)
  <2>1. work' = [work EXCEPT ![w] = Resting] /\ UNCHANGED <<acc, watermark>>
    BY <1>23 DEF Fail, Rest, Interrupted
  <2>2. work'[w] = Resting
    BY <1>2, <2>1, TypeParts DEF IInv
  <2>3. OwedCopy(a) => OwedCopy(a)'
    BY <1>7, <1>9, <1>12, <2>1, <2>2
  <2>4. ASSUME FreshCopy(a) PROVE OwedCopy(a)' \/ FreshCopy(a)'
    <3>1. CASE work[w].pc = "set" /\ Event(w).acct = a /\ Event(w).type # "used"
      <4>1. /\ Least(w) \in DOMAIN outbox /\ Least(w) \in work[w].todo /\ Event(w) = outbox[Least(w)]
        BY <1>2, <3>1, LeastEvent DEF Event
      <4>2. Least(w) > watermark /\ Telling(Least(w), a)
        BY <1>2, <3>1, <4>1, TypeParts DEF Marks, Telling, IInv
      <4>3. PICK i \in DOMAIN outbox : i > watermark /\ Telling(i, a)
        BY <4>1, <4>2
      <4> QED
        BY <1>7, <1>9, <2>1, <2>2, <4>3
    <3>2. CASE acc[a] \in {"none", db[a]}
      BY <1>10, <2>1, <2>2, <3>2, RestingIs
    <3> QED
      BY <1>11, <2>4, <3>1, <3>2
  <2> QED
    BY <1>6, <1>13, <2>3, <2>4
<1> QED
  BY <1>2, <1>14, <1>15, <1>16, <1>17, <1>18, <1>20, <1>21, <1>22, <1>23, WorkKinds

(* With one worker, nothing keeps it from locking, and from activating.       *)
LEMMA WorkUnhindered ==
  ASSUME SInv, UNCHANGED setup, NEW w \in Workers, Work(w) \/ Fail(w),
         faults \subseteq {"fail"}, Unhindered
  PROVE  /\ Unhindered'
         /\ work[w].pc = "lock" \/ work[w].pc \notin Building => ~lock
<1>1. OInv /\ IInv /\ Calm /\ UNCHANGED <<db, outbox>>
  BY DEF SInv, OInv, PInv, Calm, Work, Fail, Interrupted
<1>2. \A v \in Workers \ {w} : work[v].pc = "idle" /\ work'[v] = work[v]
  BY <1>1, Others
<1>3. lock => Holds(w)
  BY <1>2 DEF Unhindered, Holds, Building
<1>4. work[w].pc \in {"write", "activate"} => ~Overtaken(w)
  BY DEF Unhindered
<1>5. work[w].pc = "lock" \/ work[w].pc \notin Building => ~lock
  BY <1>3 DEF Holds, Building
<1>6. ASSUME lock' => w \notin Requests /\ work'[w].pc \in Building,
             work'[w].pc \in {"write", "activate"} => ~Overtaken(w)',
             work'[w].pc # "set"
      PROVE  Unhindered'
  <2>1. lock' => \E v \in Workers : Holds(v)'
    BY <1>6 DEF Holds
  <2>2. \A v \in Workers : work'[v].pc \in {"write", "activate"} => ~Overtaken(v)'
    BY <1>2, <1>6
  <2>3. \A v \in Workers : work'[v].pc # "set"
    BY <1>2, <1>6
  <2> QED
    BY <2>1, <2>2, <2>3 DEF Unhindered
<1>7. CASE Gets(w)
  <2>1. Least(w)' = Least(w) /\ Event(w)' = Event(w)
    <3>1. work[w].todo # {}
      BY <1>1, <1>7 DEF IInv, Turns, Gets, Building
    <3> QED
      BY <1>1, <1>7, <3>1, LeastSame DEF Gets, Stays, Event
  <2>2. ~lock'
    BY <1>5, <1>7 DEF Gets, Building
  <2>3. \A v \in Workers : work'[v].pc \notin {"write", "activate"} /\ (work'[v].pc = "set" => v = w)
    BY <1>2, <1>7 DEF Gets
  <2>4. Event(w)'.type # "used" => work'[w].hand = db'[Event(w)'.acct]
    BY <1>1, <1>7, <2>1 DEF Gets
  <2> QED
    BY <1>5, <1>7, <2>2, <2>3, <2>4 DEF Unhindered, Gets, Building
<1>8. CASE Polls(w) \/ Sets(w) \/ Drops(w) \/ Ends(w) \/ Begins(w)
  <2>1. work[w].pc \notin Building /\ UNCHANGED lock /\ work'[w].pc \notin {"set", "write", "activate"}
    BY <1>8, RestingIs DEF Polls, Sets, Drops, Ends, Begins, Building
  <2> QED
    BY <1>5, <1>6, <2>1
<1>9. CASE Locks(w)
  <2>1. w \notin Requests
    BY <1>1, <1>9 DEF Locks, OInv, Order, Marks
  <2> QED
    BY <1>5, <1>6, <1>9, <2>1 DEF Locks, Building
<1>10. CASE Loads(w)
  BY <1>3, <1>5, <1>6, <1>10 DEF Loads, Holds, Building
<1>11. CASE Numbers(w)
  <2>1. drawn \in Seq(Workers)
    BY <1>1, TypeParts DEF IInv
  <2>2. ~Overtaken(w)'
    <3>1. Len(drawn) + 1 \in DOMAIN drawn' /\ drawn'[Len(drawn) + 1] = w
      BY <1>11, <2>1 DEF Numbers
    <3> QED
      BY <3>1 DEF Overtaken
  <2> QED
    BY <1>3, <1>5, <1>6, <1>11, <2>2 DEF Numbers, Holds, Building
<1>12. CASE CopiesRows(w)
  <2>1. ~Overtaken(w)'
    BY <1>4, <1>12 DEF CopiesRows, Overtaken
  <2> QED
    BY <1>3, <1>5, <1>6, <1>12, <2>1 DEF CopiesRows, Holds, Building
<1>13. CASE Activates(w)
  BY <1>3, <1>5, <1>6, <1>13, RestingIs DEF Activates, Holds, Building
<1>14. CASE Unlocks(w)
  BY <1>5, <1>6, <1>14, RestingIs DEF Unlocks, Finishes, Building
<1>15. CASE Fail(w)
  <2>1. work' = [work EXCEPT ![w] = Resting] /\ lock' = (lock /\ ~Holds(w))
    BY <1>15 DEF Fail, Rest, Interrupted
  <2>2. work'[w] = Resting
    BY <1>1, <2>1, TypeParts DEF IInv
  <2>3. ~lock'
    BY <1>3, <2>1
  <2> QED
    BY <1>5, <1>6, <2>2, <2>3, RestingIs
<1> QED
  BY <1>1, <1>7, <1>8, <1>9, <1>10, <1>11, <1>12, <1>13, <1>14, <1>15, WorkKinds

LEMMA WorkList ==
  ASSUME SInv, UNCHANGED setup, NEW w \in Workers, Work(w) \/ Fail(w)
  PROVE  ListKept'
<1>1. OInv /\ ListKept /\ UNCHANGED <<platform, faults>>
  BY DEF SInv, setup
<1> SUFFICES ASSUME faults \subseteq {"fail"}, platform # "grok"
             PROVE  Unhindered' /\ \A a \in Accounts : Busy(a)' \/ OwedList(a)' \/ FreshList(a)'
  BY <1>1 DEF ListKept
<1>2. Unhindered /\ \A a \in Accounts : Busy(a) \/ OwedList(a) \/ FreshList(a)
  BY <1>1 DEF ListKept
<1>3. Unhindered' /\ (work[w].pc = "lock" \/ work[w].pc \notin Building => ~lock)
  BY <1>2, WorkUnhindered
<1> SUFFICES ASSUME NEW a \in Accounts PROVE Busy(a)' \/ OwedList(a)' \/ FreshList(a)'
  BY <1>3
<1>4. IInv /\ Marks /\ Calm /\ UNCHANGED <<db, outbox, edit>>
  BY <1>1 DEF OInv, PInv, Order, Calm, Work, Fail, Interrupted
<1>5. \A v \in Workers \ {w} : /\ work[v].pc = "idle" /\ work[v].todo = {} /\ work[v].last = 0
                               /\ ~work[v].seen /\ work'[v] = work[v]
  BY <1>1, <1>4, Others
<1>6. \A i \in DOMAIN outbox : i \in Nat /\ i > 0
  BY <1>4, TypeParts DEF IInv
<1>7. Busy(a) => Busy(a)'
  BY <1>4 DEF Busy
<1>8. ASSUME NEW i \in DOMAIN outbox, i > watermark', Concerning(i, a), ToRebuild(i, w)'
      PROVE  OwedList(a)'
  <2>1. \A v \in Workers : ToRebuild(i, v)'
    BY <1>5, <1>6, <1>8 DEF ToRebuild
  <2>2. Concerning(i, a)'
    BY <1>4, <1>8 DEF Concerning, Telling
  <2> QED
    BY <1>4, <1>8, <2>1, <2>2 DEF OwedList
<1>9. ASSUME NEW i \in DOMAIN outbox, ToRebuild(i, w), work[w].pc \notin {"get", "set"}, work'[w].seen = work[w].seen,
             work'[w].todo = work[w].todo, work'[w].last = work[w].last
      PROVE  ToRebuild(i, w)'
  <2>1. i \in work[w].todo => Least(w)' = Least(w)
    BY <1>4, <1>9, LeastSame
  <2> QED
    BY <1>9, <2>1 DEF ToRebuild
<1>10. ASSUME NEW i \in DOMAIN outbox, work'[w] = Resting PROVE ToRebuild(i, w)'
  BY <1>6, <1>10, RestingIs DEF ToRebuild
<1>11. ASSUME active' = {} \/ (a \in active' <=> a \in Listed(db)),
              work'[w].pc \in {"number", "write", "activate"} => (a \in Listed(work'[w].rows) <=> a \in Listed(db))
       PROVE  FreshList(a)'
  <2>1. db' = db
    BY <1>4
  <2>2. \A v \in Workers : work'[v].pc \in {"number", "write", "activate"} => v = w
    BY <1>5
  <2> QED
    BY <1>11, <2>1, <2>2 DEF FreshList
<1>12. ASSUME NEW i \in DOMAIN outbox, i > watermark, Concerning(i, a), UNCHANGED watermark,
              work'[w].pc \in {"lock", "load", "number", "write", "activate"}
       PROVE  Rebuilding(a)'
  <2>1. Concerning(i, a)'
    BY <1>4, <1>12 DEF Concerning, Telling
  <2> QED
    BY <1>4, <1>12, <2>1 DEF Rebuilding
<1>13. ASSUME Rebuilding(a)',
              work'[w].pc \in {"number", "write", "activate"} => (a \in Listed(work'[w].rows) <=> a \in Listed(db))
       PROVE  FreshList(a)'
  <2>1. db' = db
    BY <1>4
  <2>2. \A v \in Workers : work'[v].pc \in {"number", "write", "activate"} => v = w
    BY <1>5
  <2> QED
    BY <1>13, <2>1, <2>2 DEF FreshList
<1>14. Rebuilding(a) =>
          /\ work[w].pc \in {"lock", "load", "number", "write", "activate"}
          /\ \E i \in DOMAIN outbox : i > watermark /\ Concerning(i, a)
  BY <1>5 DEF Rebuilding
<1>15. FreshList(a) =>
          /\ active = {} \/ (a \in active <=> a \in Listed(db)) \/ Rebuilding(a)
          /\ work[w].pc \in {"number", "write", "activate"} => (a \in Listed(work[w].rows) <=> a \in Listed(db))
  BY DEF FreshList
<1>16. OwedList(a) => \E i \in DOMAIN outbox : i > watermark /\ Concerning(i, a) /\ ToRebuild(i, w)
  BY DEF OwedList
<1>17. Busy(a) \/ OwedList(a) \/ FreshList(a)
  BY <1>2
<1>18. CASE Polls(w)
  <2>1. ASSUME NEW i \in DOMAIN outbox, i > watermark, Concerning(i, a) PROVE OwedList(a)'
    <3>1. i \in work'[w].todo /\ ~work'[w].seen /\ work'[w].pc = "get" /\ UNCHANGED watermark
      BY <1>18, <2>1 DEF Polls, Beyond, Concerning, Telling
    <3> QED
      BY <1>8, <2>1, <3>1 DEF ToRebuild
  <2>2. FreshList(a) => FreshList(a)'
    BY <1>11, <1>14, <1>15, <1>18 DEF Polls
  <2> QED
    BY <1>7, <1>16, <1>17, <2>1, <2>2
<1>19. CASE Gets(w)
  <2>1. ASSUME NEW i \in DOMAIN outbox, i > watermark, Concerning(i, a), ToRebuild(i, w) PROVE OwedList(a)'
    BY <1>8, <1>19, <2>1 DEF Gets, Stays, ToRebuild
  <2>2. FreshList(a) => FreshList(a)'
    BY <1>11, <1>14, <1>15, <1>19 DEF Gets
  <2> QED
    BY <1>7, <1>16, <1>17, <2>1, <2>2
<1>20. CASE Sets(w)
  <2>1. ASSUME NEW i \in DOMAIN outbox, i > watermark, Concerning(i, a), ToRebuild(i, w)
        PROVE  OwedList(a)' \/ FreshList(a)'
    <3>1. CASE Concerns(w)
      <4>1. work'[w].pc = "lock" /\ UNCHANGED watermark
        BY <1>20, <3>1 DEF Sets
      <4> QED
        BY <1>12, <1>13, <2>1, <4>1
    <3>2. CASE ~Concerns(w)
      <4>1. work'[w].todo = work[w].todo /\ work'[w].last = work[w].last /\ work'[w].seen = work[w].seen /\ UNCHANGED watermark
        BY <1>20, <3>2 DEF Sets
      <4>2. CASE i > work[w].last
        BY <1>8, <2>1, <4>1, <4>2 DEF ToRebuild
      <4>3. CASE i \in work[w].todo /\ ~work[w].seen /\ i # Least(w)
        <5>1. Least(w)' = Least(w)
          BY <1>4, <4>1, <4>3, LeastSame
        <5> QED
          BY <1>8, <2>1, <4>1, <4>3, <5>1 DEF ToRebuild
      <4>4. CASE i \in work[w].todo /\ ~work[w].seen /\ i = Least(w)
        <5>1. Event(w).acct = a /\ Event(w).type # "used" /\ Event(w) \in Events
          BY <1>4, <2>1, <4>4, LeastEvent DEF Event, Concerning, Telling
        <5>2. work[w].hand = "gone" => db[a] = "gone"
          BY <1>2, <1>20, <5>1 DEF Unhindered, Sets
        <5>3. db[a] # "gone" \/ (Event(w).type = "account" /\ Event(w).groups)
          BY <2>1, <4>4 DEF Concerning, Event
        <5> QED
          BY <3>2, <4>4, <5>1, <5>2, <5>3 DEF Concerns, Events, Types
      <4> QED
        BY <2>1, <4>2, <4>3, <4>4 DEF ToRebuild
    <3> QED
      BY <3>1, <3>2
  <2>2. FreshList(a) => FreshList(a)'
    <3>1. work'[w].pc \in {"lock", "next"}
      BY <1>20 DEF Sets
    <3> QED
      BY <1>11, <1>14, <1>15, <1>20, <3>1 DEF Sets
  <2> QED
    BY <1>7, <1>16, <1>17, <2>1, <2>2
<1>21. CASE Drops(w)
  <2>1. ASSUME NEW i \in DOMAIN outbox, i > watermark, Concerning(i, a), ToRebuild(i, w) PROVE OwedList(a)'
    BY <1>8, <1>21, <2>1 DEF Drops, ToRebuild
  <2>2. FreshList(a) => FreshList(a)'
    BY <1>11, <1>14, <1>15, <1>21 DEF Drops
  <2> QED
    BY <1>7, <1>16, <1>17, <2>1, <2>2
<1>22. CASE Ends(w)
  <2>1. work[w].todo = {}
    BY <1>4, <1>22 DEF IInv, Turns, Ends
  <2>2. OwedList(a) => OwedList(a)'
    BY <1>8, <1>10, <1>16, <1>22, <2>1 DEF Ends, ToRebuild
  <2>3. FreshList(a) => FreshList(a)'
    BY <1>11, <1>14, <1>15, <1>22, RestingIs DEF Ends
  <2> QED
    BY <1>7, <1>17, <2>2, <2>3
<1>23. CASE Begins(w)
  <2>1. /\ work[w].pc \notin {"get", "set", "lock", "load", "number", "write", "activate"}
        /\ work'[w].pc \in {"lock", "load"} /\ UNCHANGED <<active, watermark>> /\ Stays(w)
    BY <1>23 DEF Begins
  <2>2. OwedList(a) => OwedList(a)'
    BY <1>8, <1>9, <1>16, <2>1 DEF Stays
  <2>3. FreshList(a) => FreshList(a)'
    BY <1>11, <1>14, <1>15, <2>1
  <2> QED
    BY <1>7, <1>17, <2>2, <2>3
<1>24. CASE Locks(w) \/ Loads(w) \/ Numbers(w) \/ CopiesRows(w)
  <2>1. /\ work[w].pc \in {"lock", "load", "number", "write"}
        /\ work'[w].pc \in {"load", "number", "write", "activate"} /\ UNCHANGED <<active, watermark>> /\ Stays(w)
    BY <1>3, <1>24 DEF Locks, Loads, Numbers, CopiesRows
  <2>2. OwedList(a) => OwedList(a)'
    BY <1>8, <1>9, <1>16, <2>1 DEF Stays
  <2>3. FreshList(a) => (work'[w].pc \in {"number", "write", "activate"} => (a \in Listed(work'[w].rows) <=> a \in Listed(db)))
    <3>1. Locks(w) => work'[w].pc \notin {"number", "write", "activate"}
      BY <1>3 DEF Locks
    <3>2. Loads(w) => work'[w].rows = db
      BY DEF Loads
    <3>3. Numbers(w) \/ CopiesRows(w) => work[w].pc \in {"number", "write"} /\ work'[w].rows = work[w].rows
      BY DEF Numbers, CopiesRows
    <3> QED
      BY <1>15, <1>24, <3>1, <3>2, <3>3
  <2>4. Rebuilding(a) => Rebuilding(a)'
    BY <1>12, <1>14, <2>1
  <2>5. FreshList(a) => FreshList(a)'
    BY <1>11, <1>13, <1>15, <2>1, <2>3, <2>4
  <2> QED
    BY <1>7, <1>17, <2>2, <2>5
<1>25. CASE Activates(w)
  <2>1. active' = Listed(work[w].rows)
    BY <1>2, <1>25 DEF Activates, Unhindered
  <2>2. work[w].pc = "activate" /\ work'[w].pc \in {"idle", "unlock"} /\ UNCHANGED watermark
        /\ (work'[w] = Resting \/ Stays(w))
    BY <1>25, RestingIs DEF Activates
  <2>3. OwedList(a) => OwedList(a)'
    BY <1>8, <1>9, <1>10, <1>16, <2>2 DEF Stays
  <2>4. FreshList(a) => FreshList(a)'
    BY <1>11, <1>15, <2>1, <2>2
  <2> QED
    BY <1>7, <1>17, <2>3, <2>4
<1>26. CASE Unlocks(w)
  <2>1. work[w].pc = "unlock" /\ work'[w].pc \in {"idle", "next"} /\ UNCHANGED <<active, watermark>>
        /\ (work'[w] = Resting \/ Stays(w))
    BY <1>26, RestingIs DEF Unlocks, Finishes
  <2>2. OwedList(a) => OwedList(a)'
    BY <1>8, <1>9, <1>10, <1>16, <2>1 DEF Stays
  <2>3. FreshList(a) => FreshList(a)'
    BY <1>11, <1>14, <1>15, <2>1
  <2> QED
    BY <1>7, <1>17, <2>2, <2>3
<1>27. CASE Fail(w)
  <2>1. work' = [work EXCEPT ![w] = Resting] /\ UNCHANGED <<active, watermark>>
    BY <1>27 DEF Fail, Rest, Interrupted
  <2>2. work'[w] = Resting
    BY <1>4, <2>1, TypeParts DEF IInv
  <2>3. OwedList(a) \/ Rebuilding(a) => OwedList(a)'
    BY <1>8, <1>10, <1>14, <1>16, <2>1, <2>2
  <2>4. FreshList(a) /\ ~Rebuilding(a) => FreshList(a)'
    BY <1>11, <1>15, <2>1, <2>2, RestingIs
  <2> QED
    BY <1>7, <1>17, <2>3, <2>4
<1> QED
  BY <1>4, <1>18, <1>19, <1>20, <1>21, <1>22, <1>23, <1>24, <1>25, <1>26, <1>27, WorkKinds

LEMMA SInvNext == SInv /\ [Next]_vars => SInv'
<1> SUFFICES ASSUME SInv, [Next]_vars PROVE SInv'
  OBVIOUS
<1>1. OInv'
  BY OInvNext DEF SInv
<1>2. ASSUME UNCHANGED <<faults, db, outbox, acc, watermark, work, edit>> PROVE CopiesKept'
  <2>1. \A w \in Workers : Least(w)' = Least(w)
    BY <1>2 DEF Least
  <2>2. \A w \in Workers : Event(w)' = Event(w)
    BY <1>2, <2>1 DEF Event
  <2>3. \A a \in Accounts : OwedCopy(a) => OwedCopy(a)'
    BY <1>2, <2>1 DEF OwedCopy, Telling, ToRead
  <2>4. \A a \in Accounts : FreshCopy(a) => FreshCopy(a)'
    BY <1>2, <2>2 DEF FreshCopy, Listed
  <2>5. \A a \in Accounts : Busy(a) => Busy(a)'
    BY <1>2 DEF Busy
  <2>6. Calm' => Calm
    BY <1>2 DEF Calm
  <2> QED
    BY <2>3, <2>4, <2>5, <2>6 DEF SInv, CopiesKept
<1>3. CASE UNCHANGED setup /\ LockExpires
  <2>1. UNCHANGED <<platform, faults, db, outbox, acc, active, drawn, watermark, work, edit>> /\ ~lock'
    BY <1>3 DEF LockExpires, setup
  <2>2. CopiesKept'
    BY <1>2, <2>1
  <2>3. ListKept'
    BY <2>1 DEF SInv, ListKept, Unhindered, Busy, OwedList, FreshList, Rebuilding, Concerning, Telling,
                ToRebuild, Least, Event, Overtaken
  <2> QED
    BY <1>1, <2>2, <2>3 DEF SInv
<1>4. CASE UNCHANGED vars
  <2>1. UNCHANGED <<platform, faults, db, outbox, acc, active, drawn, lock, watermark, work, edit>>
    BY <1>4 DEF vars
  <2>2. CopiesKept'
    BY <1>2, <2>1
  <2>3. ListKept'
    BY <2>1 DEF SInv, ListKept, Unhindered, Busy, OwedList, FreshList, Rebuilding, Concerning, Telling,
                ToRebuild, Least, Event, Overtaken, Holds
  <2> QED
    BY <1>1, <2>2, <2>3 DEF SInv
<1> QED
  BY <1>1, <1>3, <1>4, EditSettles, WorkCopies, WorkList DEF Next, SInv

(* Nothing has been read, and nothing listed.                                 *)
LEMMA InitSInv == Init => SInv
<1> SUFFICES ASSUME Init PROVE SInv
  OBVIOUS
<1>1. \A w \in Workers : work[w] = Resting
  BY DEF Init
<1>2. active = {} /\ lock = FALSE /\ \A a \in Accounts : acc[a] = "none"
  BY DEF Init
<1>3. \A a \in Accounts : FreshCopy(a) /\ FreshList(a)
  BY <1>1, <1>2, RestingIs DEF FreshCopy, FreshList
<1>4. Unhindered
  BY <1>1, <1>2, RestingIs DEF Unhindered
<1> QED
  BY <1>3, <1>4, InitOInv DEF SInv, CopiesKept, ListKept

(* Once every event is handled, whichever calls failed and in whatever order  *)
(* changes, refreshes and rebuilds took place, the list that requests are     *)
(* served from and the copies of the accounts are those of the database: for  *)
(* any number of accounts, changes and failures.                              *)
THEOREM SettledIsCurrent == Spec => []SnapshotCurrent
<1>1. SInv => SnapshotCurrent
  <2> SUFFICES ASSUME SInv, Settled PROVE SnapshotCurrent
    BY DEF SnapshotCurrent, ListCurrent, CopyCurrent
  <2>1. \A a \in Accounts : ~Busy(a) /\ ~OwedCopy(a) /\ ~OwedList(a) /\ ~Rebuilding(a)
    BY DEF Settled, Busy, OwedCopy, OwedList, Rebuilding, Concerning, Telling, Beyond
  <2>2. ListCurrent
    <3> SUFFICES ASSUME faults \subseteq {"fail"}, platform # "grok", Hit PROVE active = Listed(db)
      BY DEF ListCurrent
    <3>1. active # {} /\ active \subseteq Accounts /\ Listed(db) \subseteq Accounts
      BY TypeParts DEF Hit, SInv, OInv, PInv, IInv, Listed
    <3>2. \A a \in Accounts : a \in active <=> a \in Listed(db)
      BY <2>1, <3>1 DEF SInv, ListKept, FreshList
    <3> QED
      BY <3>1, <3>2
  <2>3. CopyCurrent
    <3> SUFFICES ASSUME Calm, NEW a \in Accounts PROVE acc[a] \in {"none", db[a]}
      BY DEF CopyCurrent, Calm
    <3>1. FreshCopy(a)
      BY <2>1 DEF SInv, CopiesKept
    <3> QED
      BY <3>1 DEF FreshCopy, Settled
  <2> QED
    BY <2>2, <2>3 DEF SnapshotCurrent
<1> QED
  BY <1>1, InitSInv, SInvNext, PTL DEF Spec
=============================================================================
