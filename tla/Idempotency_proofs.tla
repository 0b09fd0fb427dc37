------------------------- MODULE Idempotency_proofs -------------------------
(* Proofs about Idempotency: one owner at a time, and what is replayed.       *)
EXTENDS Idempotency, TLAPS

Fingerprints == Payloads \cup Clients \cup {None}
Rows == [id : Nat, fp : Fingerprints, status : Statuses \cup {None},
         until : Nat, expires : Nat, response : Clients \cup {None}]
Calls == [pc : Steps \cup Answers, at : Nat, fp : Fingerprints,
          id : Nat, seen : Statuses \cup {None}, via : {None, "new", "retry", "expired"},
          data : Clients \cup {None}, renewing : BOOLEAN, beat : Nat]

LEMMA TypeParts ==
  TypeOK <=> /\ kind \in Kinds /\ faults \in FaultSets
             /\ now \in 1..(Horizon + 1) /\ ids \in Nat
             /\ row \in Rows /\ run \in [Clients -> Calls] /\ effects \subseteq Clients
BY DEF TypeOK, Rows, Calls, Fingerprints

LEMMA NoRowType == NoRow \in Rows
BY DEF NoRow, Rows, Fingerprints, None

LEMMA InitType == Init => TypeOK
<1> SUFFICES ASSUME Init PROVE TypeOK
  OBVIOUS
<1>1. run \in [Clients -> Calls]
  BY DEF Init, Calls, Steps, Fingerprints, None
<1>2. now \in 1..(Horizon + 1)
  BY IdempotencyAssumption DEF Init
<1> QED
  BY <1>1, <1>2, NoRowType, TypeParts DEF Init

(* What a step makes of the call that takes it.                              *)
LEMMA UpdateType ==
  ASSUME TypeOK, NEW c \in Clients, NEW call \in Calls, run' = [run EXCEPT ![c] = call]
  PROVE  run' \in [Clients -> Calls]
BY TypeParts

LEMMA GotoIs ==
  ASSUME TypeOK, NEW c \in Clients, NEW pc, Goto(c, pc)
  PROVE  /\ run'[c] = [run[c] EXCEPT !.pc = pc]
         /\ \A d \in Clients : d # c => run'[d] = run[d]
BY TypeParts DEF Goto

(* What a call does with a record that it found: nothing to the table.        *)
LEMMA DecideIs ==
  ASSUME TypeOK, NEW c \in Clients, Decide(c), row.status \in Statuses
  PROVE  \/ /\ row.status = "succeeded"
            /\ run' = [run EXCEPT ![c].pc = "replayed", ![c].data = row.response]
         \/ \E pc \in Answers \ {"replayed", "ok"} : Goto(c, pc)
         \/ /\ row.status = "failed_retryable" /\ row.until <= run[c].at
            /\ run' = [run EXCEPT ![c].pc = "reclaim", ![c].seen = row.status, ![c].id = row.id]
<1>1. CASE row.status = "succeeded"
  BY <1>1 DEF Decide, Answers
<1>2. CASE row.status = "processing"
  BY <1>2 DEF Decide, Answers
<1>3. CASE row.status = "failed_retryable"
  <2>1. run[c].at \in Nat /\ row.until \in Nat
    BY TypeParts DEF Calls, Rows
  <2>2. CASE row.until > run[c].at
    BY <1>3, <2>1, <2>2 DEF Decide, Answers
  <2>3. CASE row.until <= run[c].at
    BY <1>3, <2>1, <2>3 DEF Decide
  <2> QED
    BY <2>1, <2>2, <2>3
<1> QED
  BY <1>1, <1>2, <1>3 DEF Statuses

Others(c) == \A d \in Clients : d # c => run'[d] = run[d]
Own1(c, id, via) ==
  /\ run'[c].pc \in {"work", "unavailable"} /\ run'[c].at = run[c].at /\ run'[c].fp = run[c].fp
  /\ run'[c].id = id /\ run'[c].via = via /\ run'[c].beat = now /\ run'[c].data = run[c].data
  /\ run'[c].renewing => run'[c].pc = "work" /\ kind = "system"
  /\ Others(c) /\ run' \in [Clients -> Calls]
Goes(c, pcs) ==
  /\ \E pc \in pcs : run'[c] = [run[c] EXCEPT !.pc = pc]
  /\ Others(c) /\ run' \in [Clients -> Calls]
Finds(c, pc) ==
  /\ run'[c] = [run[c] EXCEPT !.pc = pc, !.seen = row.status, !.id = row.id]
  /\ Others(c) /\ run' \in [Clients -> Calls]

LEMMA OwnFacts ==
  ASSUME TypeOK, NEW c \in Clients, NEW id \in Nat, NEW via \in {"new", "retry", "expired"}, Own(c, id, via)
  PROVE  Own1(c, id, via)
<1>1. PICK pc \in {"work", "unavailable"} :
        run' = [run EXCEPT ![c].pc = pc, ![c].id = id, ![c].via = via, ![c].beat = now,
                           ![c].renewing = (pc = "work" /\ kind = "system")]
  BY DEF Own
<1> DEFINE call == [run[c] EXCEPT !.pc = pc, !.id = id, !.via = via, !.beat = now,
                                  !.renewing = (pc = "work" /\ kind = "system")]
<1>2. run \in [Clients -> Calls] /\ now \in Nat
  BY TypeParts, IdempotencyAssumption
<1>3. run' = [run EXCEPT ![c] = call]
  BY <1>1, <1>2
<1>4. call \in Calls
  BY <1>2, ZenonT(40) DEF Calls, Steps, Answers
<1>5. run'[c] = call /\ Others(c) /\ run' \in [Clients -> Calls]
  BY <1>2, <1>3, <1>4 DEF Others
<1>6. /\ call.pc = pc /\ call.at = run[c].at /\ call.fp = run[c].fp /\ call.id = id /\ call.via = via
      /\ call.beat = now /\ call.data = run[c].data
      /\ call.renewing = (pc = "work" /\ kind = "system")
  BY <1>2 DEF Calls
<1> HIDE DEF call
<1> QED
  BY <1>5, <1>6 DEF Own1

LEMMA GoFacts ==
  ASSUME TypeOK, NEW c \in Clients, NEW pc \in Steps \cup Answers, Goto(c, pc)
  PROVE  Goes(c, {pc})
<1>1. run \in [Clients -> Calls]
  BY TypeParts
<1>2. run' = [run EXCEPT ![c] = [run[c] EXCEPT !.pc = pc]]
  BY <1>1 DEF Goto
<1>3. [run[c] EXCEPT !.pc = pc] \in Calls
  BY <1>1 DEF Calls
<1> QED
  BY <1>1, <1>2, <1>3 DEF Goes, Others

LEMMA FindFacts ==
  ASSUME TypeOK, NEW c \in Clients, NEW pc \in {"reclaim", "reclaimExpired"},
         run' = [run EXCEPT ![c].pc = pc, ![c].seen = row.status, ![c].id = row.id]
  PROVE  Finds(c, pc)
<1>1. run \in [Clients -> Calls] /\ row \in Rows
  BY TypeParts
<1>2. run' = [run EXCEPT ![c] = [run[c] EXCEPT !.pc = pc, !.seen = row.status, !.id = row.id]]
  BY <1>1
<1>3. [run[c] EXCEPT !.pc = pc, !.seen = row.status, !.id = row.id] \in Calls
  BY <1>1, ZenonT(40) DEF Calls, Rows, Steps
<1> QED
  BY <1>1, <1>2, <1>3 DEF Finds, Others

LEMMA ReplayFacts ==
  ASSUME TypeOK, NEW c \in Clients,
         run' = [run EXCEPT ![c].pc = "replayed", ![c].data = row.response]
  PROVE  /\ run'[c] = [run[c] EXCEPT !.pc = "replayed", !.data = row.response]
         /\ Others(c) /\ run' \in [Clients -> Calls]
<1>1. run \in [Clients -> Calls] /\ row \in Rows
  BY TypeParts
<1>2. run' = [run EXCEPT ![c] = [run[c] EXCEPT !.pc = "replayed", !.data = row.response]]
  BY <1>1
<1>3. [run[c] EXCEPT !.pc = "replayed", !.data = row.response] \in Calls
  BY <1>1, ZenonT(40) DEF Calls, Rows, Answers
<1> QED
  BY <1>1, <1>2, <1>3 DEF Others

(* The identity of the record: the ids grow, and a record has a status.       *)
Recorded ==
  /\ row = NoRow \/ (row.id >= 1 /\ row.status \in Statuses)
  /\ row.id <= ids
  /\ \A c \in Clients : run[c].id <= ids
  /\ \A c \in Clients : run[c].pc \in {"work", "succeeded", "failed", "reclaim", "reclaimExpired"} => run[c].id >= 1
  /\ kind = "system" =>
       \A c \in Clients : run[c].pc \notin {"reclaimExpired", "getAgain", "replayed", "succeeded", "failed"}

(* The steps of the program that read the record, or do not touch it.         *)
Reads(c) ==
  /\ UNCHANGED <<row, ids, effects>>
  /\ run[c].pc \in {"create", "get", "getAgain", "reclaim", "reclaimExpired"}
  /\ \/ Goes(c, {"get", "getAgain"} \cup (Answers \ {"replayed", "ok"}))
        /\ (run'[c].pc = "getAgain" => run[c].pc = "reclaimExpired")
     \/ /\ run[c].pc \in {"get", "getAgain"} /\ kind = "request" /\ row.fp = run[c].fp
        /\ row.status = "succeeded" /\ row # NoRow
        /\ run'[c] = [run[c] EXCEPT !.pc = "replayed", !.data = row.response]
        /\ Others(c) /\ run' \in [Clients -> Calls]
     \/ /\ run[c].pc \in {"get", "getAgain"} /\ Finds(c, "reclaim") /\ row # NoRow
        /\ kind = "request" => row.fp = run[c].fp /\ row.status = "failed_retryable"
        /\ row.status = "processing" => row.until <= run[c].at
     \/ /\ run[c].pc = "get" /\ Finds(c, "reclaimExpired") /\ row # NoRow
        /\ kind = "request" /\ row.fp = run[c].fp /\ row.expires <= run[c].at

LEMMA DecideReads ==
  ASSUME TypeOK, Recorded, NEW c \in Clients, Decide(c), row # NoRow, kind = "request",
         row.fp = run[c].fp, run[c].pc \in {"get", "getAgain"}, UNCHANGED <<row, ids, effects>>
  PROVE  Reads(c)
<1>1. row.status \in Statuses
  BY DEF Recorded
<1>2. CASE /\ row.status = "succeeded"
           /\ run' = [run EXCEPT ![c].pc = "replayed", ![c].data = row.response]
  BY <1>2, ReplayFacts DEF Reads
<1>3. CASE \E pc \in Answers \ {"replayed", "ok"} : Goto(c, pc)
  <2>1. PICK pc \in Answers \ {"replayed", "ok"} : Goto(c, pc)
    BY <1>3
  <2>2. Goes(c, {pc}) /\ pc # "getAgain"
    BY <2>1, GoFacts DEF Answers
  <2>3. run'[c].pc # "getAgain"
    BY <2>2, TypeParts DEF Goes, Calls
  <2> QED
    BY <2>2, <2>3 DEF Reads, Goes
<1>4. CASE /\ row.status = "failed_retryable" /\ row.until <= run[c].at
           /\ run' = [run EXCEPT ![c].pc = "reclaim", ![c].seen = row.status, ![c].id = row.id]
  BY <1>4, FindFacts DEF Reads
<1> QED
  BY <1>1, <1>2, <1>3, <1>4, DecideIs

LEMMA GoesReads ==
  ASSUME TypeOK, NEW c \in Clients, NEW pc \in {"get", "getAgain"} \cup (Answers \ {"replayed", "ok"}),
         Goto(c, pc), UNCHANGED <<row, ids, effects>>,
         run[c].pc \in {"create", "get", "getAgain", "reclaim", "reclaimExpired"},
         pc = "getAgain" => run[c].pc = "reclaimExpired"
  PROVE  Reads(c)
<1>1. Goes(c, {pc})
  BY GoFacts DEF Steps, Answers
<1>2. run'[c].pc = pc
  BY <1>1, TypeParts DEF Goes, Calls
<1> QED
  BY <1>1, <1>2 DEF Reads, Goes

LEMMA GetReads ==
  ASSUME TypeOK, Recorded, NEW c \in Clients, GetExisting(c) \/ GetAgain(c)
  PROVE  Reads(c)
<1>1. UNCHANGED <<row, ids, effects>> /\ run[c].pc \in {"get", "getAgain"}
  BY DEF GetExisting, GetAgain
<1>2. {"unavailable", "conflict", "busy"} \subseteq Answers \ {"replayed", "ok"}
  BY DEF Answers
<1>3. CASE Goto(c, "unavailable") \/ Goto(c, "conflict") \/ Goto(c, "busy")
  BY <1>1, <1>2, <1>3, GoesReads
<1>4. run[c].at \in Nat /\ row.until \in Nat /\ row.expires \in Nat
  BY TypeParts DEF Calls, Rows
<1>5. CASE row # NoRow /\ kind = "request" /\ GetRequest(c) /\ run[c].pc = "get"
  <2>1. CASE row.fp # run[c].fp
    BY <1>3, <1>5, <2>1 DEF GetRequest
  <2>2. CASE row.fp = run[c].fp /\ row.expires <= run[c].at
    <3>1. ~(row.fp # run[c].fp) /\ ~(row.expires > run[c].at)
      BY <1>4, <2>2
    <3>2. run' = [run EXCEPT ![c].pc = "reclaimExpired", ![c].seen = row.status, ![c].id = row.id]
      BY <1>5, <2>2, <3>1, Zenon DEF GetRequest
    <3>3. Finds(c, "reclaimExpired")
      BY <3>2, FindFacts
    <3> QED
      BY <1>1, <1>5, <2>2, <3>3 DEF Reads
  <2>3. CASE row.fp = run[c].fp /\ row.expires > run[c].at
    <3>1. Decide(c)
      BY <1>4, <1>5, <2>3 DEF GetRequest
    <3> QED
      BY <1>1, <1>5, <2>3, <3>1, DecideReads
  <2> QED
    BY <1>4, <2>1, <2>2, <2>3
<1>6. CASE row # NoRow /\ kind = "system" /\ GetLock(c)
  <2>1. CASE row.status = "processing" /\ row.until > run[c].at
    BY <1>3, <1>6, <2>1 DEF GetLock
  <2>2. CASE ~(row.status = "processing" /\ row.until > run[c].at)
    <3>1. run' = [run EXCEPT ![c].pc = "reclaim", ![c].seen = row.status, ![c].id = row.id]
      BY <1>6, <2>2 DEF GetLock
    <3>2. Finds(c, "reclaim")
      BY <3>1, FindFacts
    <3>3. row.status = "processing" => row.until <= run[c].at
      BY <1>4, <2>2
    <3> QED
      BY <1>1, <1>6, <3>2, <3>3 DEF Reads
  <2> QED
    BY <2>1, <2>2
<1>7. CASE row # NoRow /\ row.fp = run[c].fp /\ Decide(c) /\ run[c].pc = "getAgain"
  <2>1. kind = "request"
    BY <1>7, TypeParts, IdempotencyAssumption DEF Recorded
  <2> QED
    BY <1>1, <1>7, <2>1, DecideReads
<1> QED
  BY <1>3, <1>5, <1>6, <1>7 DEF GetExisting, GetAgain, Unavailable

(* The steps that take the record: created, or reclaimed.                     *)
Creates(c) ==
  /\ run[c].pc = "create" /\ row = NoRow /\ ids' = ids + 1 /\ UNCHANGED effects
  /\ row' = [id |-> ids + 1, fp |-> run[c].fp, status |-> "processing",
             until |-> run[c].at + Lease, expires |-> run[c].at + TTL, response |-> None]
  /\ Own1(c, ids + 1, "new")
Reclaims(c) ==
  /\ run[c].pc \in {"reclaimExpired", "reclaim"} /\ Reclaimable(c) /\ UNCHANGED <<ids, effects>>
  /\ row' = [row EXCEPT !.status = "processing", !.until = run[c].at + Lease, !.expires = run[c].at + TTL]
  /\ Own1(c, row.id, IF run[c].pc = "reclaim" THEN "retry" ELSE "expired")

LEMMA TakeFacts ==
  ASSUME TypeOK, Recorded, NEW c \in Clients, CreateProcessing(c) \/ TryReclaim(c)
  PROVE  Creates(c) \/ Reclaims(c) \/ Reads(c)
<1>1. {"unavailable", "busy", "inProgress"} \subseteq Answers \ {"replayed", "ok"}
  BY DEF Answers
<1>2. ids \in Nat /\ row.id \in Nat
  BY TypeParts DEF Rows
<1>3. CASE CreateProcessing(c)
  <2>1. CASE row = NoRow /\ Own(c, ids + 1, "new")
    <3>1. Own1(c, ids + 1, "new")
      BY <1>2, <2>1, OwnFacts
    <3>2. CASE row' = [id |-> ids + 1, fp |-> run[c].fp, status |-> "processing",
                     until |-> run[c].at + Lease, expires |-> run[c].at + TTL, response |-> None]
               /\ ids' = ids + 1
      BY <1>3, <2>1, <3>1, <3>2 DEF CreateProcessing, Creates
    <3>3. CASE Goto(c, "unavailable") /\ UNCHANGED <<row, ids>>
      BY <1>1, <1>3, <3>3, GoesReads DEF CreateProcessing
    <3> QED
      BY <1>3, <2>1, <3>2, <3>3 DEF CreateProcessing, Unavailable
  <2>2. CASE Goto(c, "get") /\ UNCHANGED <<row, ids>>
    BY <1>3, <2>2, GoesReads DEF CreateProcessing
  <2>3. CASE Goto(c, "unavailable") /\ UNCHANGED <<row, ids>>
    BY <1>1, <1>3, <2>3, GoesReads DEF CreateProcessing
  <2> QED
    BY <1>3, <2>1, <2>2, <2>3 DEF CreateProcessing, Unavailable
<1>4. CASE TryReclaim(c)
  <2>1. CASE Reclaimable(c) /\ Own(c, row.id, IF run[c].pc = "reclaim" THEN "retry" ELSE "expired")
             /\ row' = [row EXCEPT !.status = "processing", !.until = run[c].at + Lease,
                                  !.expires = run[c].at + TTL]
    <3>1. Own1(c, row.id, IF run[c].pc = "reclaim" THEN "retry" ELSE "expired")
      BY <1>2, <2>1, OwnFacts
    <3> QED
      BY <1>4, <2>1, <3>1 DEF TryReclaim, Reclaims
  <2>2. CASE UNCHANGED row /\ \E pc \in {"getAgain", "busy", "inProgress", "unavailable"} :
                Goto(c, pc) /\ (pc = "getAgain" => run[c].pc = "reclaimExpired")
    BY <1>1, <1>4, <2>2, GoesReads DEF TryReclaim
  <2>3. CASE ~Reclaimable(c) /\ UNCHANGED row
             /\ Goto(c, CASE run[c].pc = "reclaimExpired" -> "getAgain"
                          [] kind = "system" -> "busy"
                          [] OTHER -> "inProgress")
    <3>1. CASE run[c].pc = "reclaimExpired" /\ kind # "system"
      BY <2>2, <2>3, <3>1
    <3>2. CASE run[c].pc # "reclaimExpired" /\ kind = "system"
      BY <2>2, <2>3, <3>2
    <3>3. CASE run[c].pc # "reclaimExpired" /\ kind # "system"
      BY <2>2, <2>3, <3>3
    <3> QED
      BY <3>1, <3>2, <3>3 DEF Recorded
  <2> QED
    BY <1>4, <2>1, <2>2, <2>3 DEF TryReclaim
<1> QED
  BY <1>3, <1>4

-----------------------------------------------------------------------------
(* The other steps of a call: it begins, executes, ends, renews, dies.        *)
Executing == {"work", "succeeded", "failed"}
Begins(c) ==
  /\ run[c].pc = "begin" /\ UNCHANGED <<row, ids, effects>>
  /\ \E fp \in Fingerprints : run'[c] = [run[c] EXCEPT !.pc = "create", !.at = now, !.fp = fp]
  /\ Others(c) /\ run' \in [Clients -> Calls]
Executes(c) ==
  /\ run[c].pc = "work" /\ kind = "request" /\ UNCHANGED <<row, ids>>
  /\ \/ Goes(c, {"succeeded"}) /\ effects' = effects \cup {c}
     \/ Goes(c, {"failed"}) /\ UNCHANGED effects
Stores(c) ==
  \/ row' = row
  \/ /\ row.id = run[c].id /\ (run[c].pc = "work" => kind = "system") /\ run[c].pc \in {"work", "succeeded"}
     /\ \E expires \in Nat :
          row' = [row EXCEPT !.status = "succeeded", !.until = 0, !.expires = expires, !.response = c]
  \/ /\ row.id = run[c].id
     /\ \E until, expires \in Nat :
          row' = [row EXCEPT !.status = "failed_retryable", !.until = until, !.expires = expires]
Ends(c) ==
  /\ run[c].pc \in Executing /\ UNCHANGED <<ids, effects>> /\ Stores(c)
  /\ run'[c].pc \in {"ok", "error", "unavailable"}
  /\ run'[c].fp = run[c].fp /\ run'[c].id = run[c].id /\ run'[c].at = run[c].at /\ run'[c].data = run[c].data
  /\ run'[c].renewing => run[c].renewing /\ run[c].pc # "work"
  /\ Others(c) /\ run' \in [Clients -> Calls]
Renews(c) ==
  /\ run[c].renewing /\ UNCHANGED <<ids, effects>>
  /\ \/ /\ row.id = run[c].id /\ row.status = "processing" /\ row.fp = run[c].fp
        /\ row' = [row EXCEPT !.until = now + Lease, !.expires = now + TTL]
     \/ UNCHANGED row
  /\ \E renewing \in BOOLEAN, beat \in Nat :
       run'[c] = [run[c] EXCEPT !.renewing = renewing, !.beat = beat]
  /\ Others(c) /\ run' \in [Clients -> Calls]
Crashes(c) ==
  /\ UNCHANGED <<row, ids, effects>> /\ run[c].pc # "begin"
  /\ run'[c] = [run[c] EXCEPT !.pc = "died", !.renewing = FALSE]
  /\ Others(c) /\ run' \in [Clients -> Calls]

LEMMA BeginFacts == ASSUME TypeOK, NEW c \in Clients, Begin(c) PROVE Begins(c)
<1>1. run \in [Clients -> Calls] /\ now \in Nat
  BY TypeParts, IdempotencyAssumption
<1>2. PICK fp \in Fingerprints : run' = [run EXCEPT ![c].pc = "create", ![c].at = now, ![c].fp = fp]
  BY DEF Begin, Fingerprints
<1>3. run' = [run EXCEPT ![c] = [run[c] EXCEPT !.pc = "create", !.at = now, !.fp = fp]]
  BY <1>1, <1>2
<1>4. [run[c] EXCEPT !.pc = "create", !.at = now, !.fp = fp] \in Calls
  BY <1>1 DEF Calls, Steps
<1> QED
  BY <1>1, <1>3, <1>4 DEF Begin, Begins, Others

LEMMA ExecuteFacts == ASSUME TypeOK, NEW c \in Clients, Execute(c) PROVE Executes(c)
<1>1. "succeeded" \in Steps \cup Answers /\ "failed" \in Steps \cup Answers
  BY DEF Steps
<1> QED
  BY <1>1, GoFacts DEF Execute, Executes

LEMMA EndFacts ==
  ASSUME TypeOK, NEW c \in Clients, StoreSuccess(c) \/ StoreFailure(c) \/ Release(c) PROVE Ends(c)
<1>1. run \in [Clients -> Calls] /\ now \in Nat /\ Lease \in Nat /\ TTL \in Nat /\ Backoff \in Nat
      /\ run[c].at \in Nat
  BY TypeParts, IdempotencyAssumption DEF Calls
<1>2. CASE StoreSuccess(c) \/ StoreFailure(c)
  <2>1. \E pc \in {"ok", "error", "unavailable"} : Goto(c, pc)
    BY <1>2 DEF StoreSuccess, StoreFailure
  <2>2. Goes(c, {"ok", "error", "unavailable"})
    BY <2>1, GoFacts DEF Answers, Goes
  <2>3. /\ run'[c].pc \in {"ok", "error", "unavailable"}
        /\ run'[c].fp = run[c].fp /\ run'[c].id = run[c].id /\ run'[c].at = run[c].at
        /\ run'[c].data = run[c].data /\ run'[c].renewing = run[c].renewing
        /\ Others(c) /\ run' \in [Clients -> Calls]
    BY <1>1, <2>2 DEF Goes, Calls
  <2>4. Stores(c)
    <3>1. run[c].at + TTL \in Nat /\ now + Backoff \in Nat
      BY <1>1
    <3>2. CASE StoreSuccess(c)
      <4>1. \/ row' = row
            \/ row.id = run[c].id /\ row' = [row EXCEPT !.status = "succeeded", !.until = 0,
                                               !.expires = run[c].at + TTL, !.response = c]
        BY <3>2 DEF StoreSuccess, MarkSucceeded, Matches
      <4> QED
        BY <3>1, <3>2, <4>1 DEF StoreSuccess, Stores
    <3>3. CASE StoreFailure(c)
      <4>1. \/ row' = row
            \/ row.id = run[c].id /\ row' = [row EXCEPT !.status = "failed_retryable",
                                               !.until = now + Backoff, !.expires = run[c].at + TTL]
        BY <3>3 DEF StoreFailure, MarkFailedRetryable, Matches
      <4> QED
        BY <3>1, <4>1 DEF Stores
    <3> QED
      BY <1>2, <3>2, <3>3
  <2>5. run[c].pc \in {"succeeded", "failed"} /\ UNCHANGED <<ids, effects>>
    BY <1>2 DEF StoreSuccess, StoreFailure
  <2> QED
    BY <2>3, <2>4, <2>5 DEF Ends, Executing
<1>3. CASE Release(c)
  <2>1. PICK answer \in {"ok", "error"} : run' = [run EXCEPT ![c].pc = answer, ![c].renewing = FALSE]
    BY <1>3 DEF Release
  <2>2. run' = [run EXCEPT ![c] = [run[c] EXCEPT !.pc = answer, !.renewing = FALSE]]
    BY <1>1, <2>1
  <2>3. [run[c] EXCEPT !.pc = answer, !.renewing = FALSE] \in Calls
    BY <1>1 DEF Calls, Answers
  <2>4. run'[c] = [run[c] EXCEPT !.pc = answer, !.renewing = FALSE]
        /\ Others(c) /\ run' \in [Clients -> Calls]
    BY <1>1, <2>2, <2>3 DEF Others
  <2>5. /\ run'[c].pc \in {"ok", "error"} /\ ~run'[c].renewing
        /\ run'[c].fp = run[c].fp /\ run'[c].id = run[c].id /\ run'[c].at = run[c].at
        /\ run'[c].data = run[c].data
    BY <1>1, <2>4 DEF Calls
  <2>6. Stores(c)
    <3>1. now + TTL \in Nat /\ run[c].pc = "work" /\ kind = "system"
      BY <1>1, <1>3 DEF Release
    <3>2. \/ row' = row
          \/ row.id = run[c].id /\ row' = [row EXCEPT !.status = "succeeded", !.until = 0,
                                             !.expires = now + TTL, !.response = c]
          \/ row.id = run[c].id /\ row' = [row EXCEPT !.status = "failed_retryable", !.until = now,
                                             !.expires = now + TTL]
      BY <1>3 DEF Release, MarkSucceeded, MarkFailedRetryable, Matches
    <3> QED
      BY <1>1, <3>1, <3>2 DEF Stores
  <2>7. run[c].pc = "work" /\ UNCHANGED <<ids, effects>>
    BY <1>3 DEF Release
  <2> QED
    BY <2>4, <2>5, <2>6, <2>7 DEF Ends, Executing
<1> QED
  BY <1>2, <1>3

LEMMA RenewFacts == ASSUME TypeOK, NEW c \in Clients, Renew(c) PROVE Renews(c)
<1>1. run \in [Clients -> Calls] /\ now \in Nat
  BY TypeParts, IdempotencyAssumption
<1>2. \E renewing \in BOOLEAN, beat \in Nat :
        run' = [run EXCEPT ![c] = [run[c] EXCEPT !.renewing = renewing, !.beat = beat]]
  <2>1. CASE run' = [run EXCEPT ![c].beat = now]
    <3>1. run' = [run EXCEPT ![c] = [run[c] EXCEPT !.renewing = run[c].renewing, !.beat = now]]
      BY <1>1, <2>1 DEF Calls
    <3>2. run[c].renewing \in BOOLEAN
      BY <1>1 DEF Calls
    <3> QED
      BY <1>1, <3>1, <3>2
  <2>2. CASE run' = [run EXCEPT ![c].renewing = FALSE]
    <3>1. run' = [run EXCEPT ![c] = [run[c] EXCEPT !.renewing = FALSE, !.beat = run[c].beat]]
      BY <1>1, <2>2 DEF Calls
    <3>2. run[c].beat \in Nat
      BY <1>1 DEF Calls
    <3> QED
      BY <3>1, <3>2
  <2> QED
    BY <2>1, <2>2 DEF Renew
<1>3. \A renewing \in BOOLEAN, beat \in Nat :
        [run[c] EXCEPT !.renewing = renewing, !.beat = beat] \in Calls
  BY <1>1 DEF Calls
<1>4. /\ \E renewing \in BOOLEAN, beat \in Nat :
            run'[c] = [run[c] EXCEPT !.renewing = renewing, !.beat = beat]
      /\ Others(c) /\ run' \in [Clients -> Calls]
  BY <1>1, <1>2, <1>3 DEF Others
<1>5. run[c].renewing /\ UNCHANGED <<ids, effects>>
      /\ \/ /\ row.id = run[c].id /\ row.status = "processing" /\ row.fp = run[c].fp
            /\ row' = [row EXCEPT !.until = now + Lease, !.expires = now + TTL]
         \/ UNCHANGED row
  BY DEF Renew
<1> QED
  BY <1>4, <1>5 DEF Renews

LEMMA CrashFacts ==
  ASSUME TypeOK, NEW c \in Clients, Crash(c), UNCHANGED now PROVE Crashes(c)
<1>1. run \in [Clients -> Calls]
  BY TypeParts
<1>2. run' = [run EXCEPT ![c] = [run[c] EXCEPT !.pc = "died", !.renewing = FALSE]]
  BY <1>1 DEF Crash
<1>3. [run[c] EXCEPT !.pc = "died", !.renewing = FALSE] \in Calls
  BY <1>1 DEF Calls, Answers
<1> QED
  BY <1>1, <1>2, <1>3 DEF Crash, Crashes, Others, Active

CallStep(c) ==
  \/ Begins(c) \/ Reads(c) \/ Creates(c) \/ Reclaims(c)
  \/ Executes(c) \/ Ends(c) \/ Renews(c) \/ Crashes(c)

LEMMA StepFacts ==
  ASSUME TypeOK, Recorded, NEW c \in Clients, Continue(c) \/ Crash(c), UNCHANGED now
  PROVE  CallStep(c)
BY BeginFacts, GetReads, TakeFacts, ExecuteFacts, EndFacts, RenewFacts, CrashFacts
DEF Continue, CallStep

LEMMA RowUpdate ==
  ASSUME row \in Rows, NEW until \in Nat, NEW expires \in Nat, NEW c \in Clients
  PROVE  /\ [row EXCEPT !.status = "processing", !.until = until, !.expires = expires] \in Rows
         /\ [row EXCEPT !.status = "failed_retryable", !.until = until, !.expires = expires] \in Rows
         /\ [row EXCEPT !.until = until, !.expires = expires] \in Rows
         /\ [row EXCEPT !.status = "succeeded", !.until = 0, !.expires = expires, !.response = c] \in Rows
BY DEF Rows, Statuses

LEMMA NextType == ASSUME TypeOK, Recorded, [Next]_vars PROVE TypeOK'
<1>1. /\ run \in [Clients -> Calls] /\ row \in Rows /\ now \in Nat /\ ids \in Nat
      /\ Lease \in Nat /\ TTL \in Nat /\ now \in 1..(Horizon + 1) /\ Horizon \in Nat
      /\ effects \subseteq Clients /\ kind \in Kinds /\ faults \in FaultSets
  BY TypeParts, IdempotencyAssumption
<1>2. ASSUME NEW c \in Clients, CallStep(c), UNCHANGED <<now, setup>> PROVE TypeOK'
  <2>1. run' \in [Clients -> Calls]
    BY <1>2 DEF CallStep, Begins, Reads, Creates, Reclaims, Executes, Ends, Renews, Crashes, Own1, Goes, Finds
  <2>2. effects' \subseteq Clients /\ ids' \in Nat
    <3>1. ids' \in {ids, ids + 1}
      BY <1>2 DEF CallStep, Begins, Reads, Creates, Reclaims, Executes, Ends, Renews, Crashes
    <3>2. effects' \in {effects, effects \cup {c}}
      BY <1>2 DEF CallStep, Begins, Reads, Creates, Reclaims, Executes, Ends, Renews, Crashes
    <3> QED
      BY <1>1, <3>1, <3>2
  <2>3. row' \in Rows
    <3>1. CASE UNCHANGED row
      BY <1>1, <3>1
    <3>2. CASE Creates(c)
      BY <1>1, <3>2 DEF Creates, Rows, Calls, Statuses
    <3>3. CASE Reclaims(c)
      <4>1. run[c].at + Lease \in Nat /\ run[c].at + TTL \in Nat
        BY <1>1 DEF Calls
      <4> QED
        BY <1>1, <3>3, <4>1, RowUpdate DEF Reclaims
    <3>4. CASE Ends(c)
      <4>1. CASE UNCHANGED row
        BY <1>1, <4>1
      <4>2. CASE \E expires \in Nat :
              row' = [row EXCEPT !.status = "succeeded", !.until = 0, !.expires = expires, !.response = c]
        <5>1. PICK expires \in Nat :
                row' = [row EXCEPT !.status = "succeeded", !.until = 0, !.expires = expires, !.response = c]
          BY <4>2
        <5>2. 0 \in Nat
          OBVIOUS
        <5> QED
          BY <1>1, <5>1, <5>2, RowUpdate
      <4>3. CASE \E until, expires \in Nat :
              row' = [row EXCEPT !.status = "failed_retryable", !.until = until, !.expires = expires]
        <5>1. PICK until, expires \in Nat :
                row' = [row EXCEPT !.status = "failed_retryable", !.until = until, !.expires = expires]
          BY <4>3
        <5> QED
          BY <1>1, <5>1, RowUpdate
      <4> QED
        BY <3>4, <4>1, <4>2, <4>3 DEF Ends, Stores
    <3>5. CASE Renews(c)
      <4>1. now + Lease \in Nat /\ now + TTL \in Nat
        BY <1>1
      <4>2. [row EXCEPT !.until = now + Lease, !.expires = now + TTL] \in Rows
        BY <1>1, <4>1 DEF Rows
      <4> QED
        BY <1>1, <3>5, <4>2 DEF Renews
    <3> QED
      BY <1>2, <3>1, <3>2, <3>3, <3>4, <3>5 DEF CallStep, Begins, Reads, Executes, Crashes
  <2> QED
    BY <1>1, <1>2, <2>1, <2>2, <2>3, TypeParts DEF TypeOK, setup, Rows, Calls, Fingerprints
<1>3. CASE DeleteExpired /\ UNCHANGED setup
  BY <1>1, <1>3, NoRowType DEF DeleteExpired, TypeOK, setup, Rows, Calls, Fingerprints
<1>4. CASE Tick /\ UNCHANGED setup
  <2>1. now' \in 1..(Horizon + 1)
    BY <1>1, <1>4 DEF Tick
  <2> QED
    BY <1>1, <1>4, <2>1 DEF Tick, TypeOK, setup, Rows, Calls, Fingerprints
<1>5. CASE UNCHANGED vars
  BY <1>1, <1>5 DEF vars, setup, TypeOK, Rows, Calls, Fingerprints
<1> QED
  BY <1>2, <1>3, <1>4, <1>5, StepFacts DEF Next

-----------------------------------------------------------------------------
(* The fields of a call after each kind of step.                              *)
SameBut(c, pc) ==
  /\ run'[c].pc = pc /\ run'[c].at = run[c].at /\ run'[c].fp = run[c].fp /\ run'[c].data = run[c].data
  /\ run'[c].via = run[c].via

LEMMA Fields ==
  ASSUME TypeOK, NEW c \in Clients
  PROVE  /\ \A pcs : Goes(c, pcs) =>
              /\ run'[c].pc \in pcs /\ SameBut(c, run'[c].pc) /\ run'[c].beat = run[c].beat
              /\ run'[c].id = run[c].id /\ run'[c].seen = run[c].seen /\ run'[c].renewing = run[c].renewing
         /\ \A pc : Finds(c, pc) =>
              /\ SameBut(c, pc) /\ run'[c].id = row.id /\ run'[c].seen = row.status
              /\ run'[c].renewing = run[c].renewing
         /\ run'[c] = [run[c] EXCEPT !.pc = "replayed", !.data = row.response] =>
              /\ run'[c].pc = "replayed" /\ run'[c].fp = run[c].fp /\ run'[c].id = run[c].id
              /\ run'[c].data = row.response /\ run'[c].renewing = run[c].renewing
         /\ Begins(c) => run'[c].pc = "create" /\ run'[c].at = now /\ run'[c].id = run[c].id
                         /\ run'[c].renewing = run[c].renewing
         /\ Renews(c) => SameBut(c, run[c].pc) /\ run'[c].id = run[c].id /\ run'[c].seen = run[c].seen
                         /\ (run'[c].renewing => run[c].renewing)
         /\ Crashes(c) => SameBut(c, "died") /\ run'[c].id = run[c].id /\ ~run'[c].renewing
<1>1. run[c] \in Calls
  BY TypeParts
<1>2. ASSUME NEW pcs, Goes(c, pcs)
      PROVE  /\ run'[c].pc \in pcs /\ SameBut(c, run'[c].pc) /\ run'[c].beat = run[c].beat
             /\ run'[c].id = run[c].id /\ run'[c].seen = run[c].seen /\ run'[c].renewing = run[c].renewing
  BY <1>1, <1>2 DEF Goes, Calls, SameBut
<1>3. ASSUME NEW pc, Finds(c, pc)
      PROVE  /\ SameBut(c, pc) /\ run'[c].id = row.id /\ run'[c].seen = row.status
             /\ run'[c].renewing = run[c].renewing
  BY <1>1, <1>3 DEF Finds, Calls, SameBut
<1>4. ASSUME run'[c] = [run[c] EXCEPT !.pc = "replayed", !.data = row.response]
      PROVE  /\ run'[c].pc = "replayed" /\ run'[c].fp = run[c].fp /\ run'[c].id = run[c].id
             /\ run'[c].data = row.response /\ run'[c].renewing = run[c].renewing
  BY <1>1, <1>4 DEF Calls
<1>5. ASSUME Begins(c)
      PROVE  run'[c].pc = "create" /\ run'[c].at = now /\ run'[c].id = run[c].id
             /\ run'[c].renewing = run[c].renewing
  BY <1>1, <1>5 DEF Begins, Calls
<1>6. ASSUME Renews(c)
      PROVE  SameBut(c, run[c].pc) /\ run'[c].id = run[c].id /\ run'[c].seen = run[c].seen
             /\ (run'[c].renewing => run[c].renewing)
  BY <1>1, <1>6 DEF Renews, Calls, SameBut
<1>7. ASSUME Crashes(c)
      PROVE  SameBut(c, "died") /\ run'[c].id = run[c].id /\ ~run'[c].renewing
  BY <1>1, <1>7 DEF Crashes, Calls, SameBut
<1> QED
  BY <1>2, <1>3, <1>4, <1>5, <1>6, <1>7

(* What became of the record.                                                *)
LEMMA RowFields ==
  ASSUME TypeOK, NEW c \in Clients, Reclaims(c) \/ Ends(c) \/ Renews(c)
  PROVE  row'.id = row.id /\ row'.fp = row.fp
<1>1. row \in Rows
  BY TypeParts
<1>2. CASE Reclaims(c)
  BY <1>1, <1>2 DEF Reclaims, Rows
<1>3. CASE Ends(c)
  BY <1>1, <1>3 DEF Ends, Stores, Rows
<1>4. CASE Renews(c)
  BY <1>1, <1>4 DEF Renews, Rows
<1> QED
  BY <1>2, <1>3, <1>4

LEMMA RecordedInit == Init => Recorded
BY DEF Init, Recorded, NoRow

LEMMA RecordedStep == ASSUME TypeOK, Recorded, [Next]_vars PROVE Recorded'
<1>1. /\ row \in Rows /\ ids \in Nat /\ run \in [Clients -> Calls] /\ NoRow.id = 0
      /\ \A d \in Clients : run[d].id \in Nat
  BY TypeParts DEF Rows, Calls, NoRow
<1> DEFINE With == {"work", "succeeded", "failed", "reclaim", "reclaimExpired"}
           RequestOnly == {"reclaimExpired", "getAgain", "replayed", "succeeded", "failed"}
<1>2. ASSUME NEW c \in Clients, Others(c), kind' = kind, row'.id <= ids', ids <= ids', ids' \in Nat,
             row' = NoRow \/ (row'.id >= 1 /\ row'.status \in Statuses),
             run'[c].id <= ids', run'[c].pc \in With => run'[c].id >= 1,
             kind = "system" => run'[c].pc \notin RequestOnly
      PROVE  Recorded'
  BY <1>1, <1>2 DEF Recorded, Others
<1>3. ASSUME NEW c \in Clients, CallStep(c), kind' = kind PROVE Recorded'
  <2>1. CASE Begins(c)
    <3>1. Others(c) /\ row' = row /\ ids' = ids /\ run'[c].id = run[c].id /\ run'[c].pc = "create"
      BY <2>1, Fields DEF Begins
    <3> QED
      BY <1>1, <1>2, <1>3, <3>1 DEF Recorded
  <2>2. CASE Reads(c)
    <3>1. Others(c) /\ row' = row /\ ids' = ids
      BY <2>2 DEF Reads, Goes, Finds
    <3>2. CASE /\ Goes(c, {"get", "getAgain"} \cup (Answers \ {"replayed", "ok"}))
               /\ (run'[c].pc = "getAgain" => run[c].pc = "reclaimExpired")
      <4>1. run'[c].id = run[c].id /\ run'[c].pc \in {"get", "getAgain"} \cup (Answers \ {"replayed", "ok"})
        BY <3>2, Fields
      <4>2. run'[c].pc \notin With
        BY <4>1 DEF Answers
      <4>3. kind = "system" => run'[c].pc \notin RequestOnly
        BY <3>2, <4>1 DEF Answers, Recorded
      <4> QED
        BY <1>1, <1>2, <1>3, <3>1, <4>1, <4>2, <4>3 DEF Recorded
    <3>3. CASE /\ kind = "request"
               /\ run'[c] = [run[c] EXCEPT !.pc = "replayed", !.data = row.response]
      <4>1. run'[c].pc = "replayed" /\ run'[c].id = run[c].id
        BY <3>3, Fields
      <4>2. run'[c].id <= ids' /\ run'[c].pc \notin With /\ (kind = "system" => run'[c].pc \notin RequestOnly)
        BY <3>1, <3>3, <4>1 DEF Recorded
      <4>3. row'.id <= ids' /\ ids <= ids' /\ ids' \in Nat
            /\ (row' = NoRow \/ (row'.id >= 1 /\ row'.status \in Statuses))
        BY <1>1, <3>1 DEF Recorded
      <4> QED
        BY <1>2, <1>3, <3>1, <4>2, <4>3
    <3>4. CASE row # NoRow /\ (Finds(c, "reclaim") \/ (kind = "request" /\ Finds(c, "reclaimExpired")))
      <4>1. run'[c].id = row.id /\ run'[c].pc \in {"reclaim", "reclaimExpired"}
            /\ (kind = "system" => run'[c].pc = "reclaim")
        BY <3>4, Fields DEF SameBut
      <4> QED
        BY <1>1, <1>2, <1>3, <3>1, <3>4, <4>1 DEF Recorded
    <3> QED
      BY <2>2, <3>2, <3>3, <3>4 DEF Reads
  <2>3. CASE Creates(c)
    <3>1. Others(c) /\ ids' = ids + 1 /\ run'[c].id = ids + 1 /\ run'[c].pc \in {"work", "unavailable"}
          /\ row'.id = ids + 1 /\ row'.status = "processing"
      BY <2>3 DEF Creates, Own1
    <3> QED
      BY <1>1, <1>2, <1>3, <3>1 DEF Recorded, Statuses
  <2>4. CASE Reclaims(c)
    <3>1. Others(c) /\ ids' = ids /\ run'[c].id = row.id /\ run'[c].pc \in {"work", "unavailable"}
          /\ row'.id = row.id /\ row'.status = "processing"
      BY <1>1, <2>4, RowFields DEF Reclaims, Own1, Rows
    <3>2. row.id >= 1
      BY <2>4 DEF Reclaims, Reclaimable, Recorded
    <3> QED
      BY <1>1, <1>2, <1>3, <3>1, <3>2 DEF Recorded, Statuses
  <2>5. CASE Executes(c)
    <3>1. Others(c) /\ ids' = ids /\ row' = row /\ run'[c].id = run[c].id /\ kind = "request"
          /\ run[c].pc = "work" /\ run'[c].pc \in {"succeeded", "failed"}
      BY <2>5, Fields, ZenonT(40) DEF Executes, Goes
    <3> QED
      BY <1>1, <1>2, <1>3, <3>1 DEF Recorded
  <2>6. CASE Ends(c)
    <3>1. Others(c) /\ ids' = ids /\ run'[c].id = run[c].id /\ run'[c].pc \in {"ok", "error", "unavailable"}
          /\ row'.id = row.id /\ (row' = row \/ (row.id = run[c].id /\ row'.status \in Statuses))
      BY <1>1, <2>6, RowFields DEF Ends, Stores, Rows, Statuses
    <3>2. run[c].id >= 1
      BY <2>6 DEF Ends, Executing, Recorded
    <3> QED
      BY <1>1, <1>2, <1>3, <3>1, <3>2 DEF Recorded
  <2>7. CASE Renews(c)
    <3>1. Others(c) /\ ids' = ids /\ run'[c].id = run[c].id /\ run'[c].pc = run[c].pc
          /\ row'.id = row.id
      BY <2>7, Fields, RowFields DEF Renews, SameBut
    <3>2. row' = row \/ (row'.status = "processing" /\ row # NoRow)
      <4>1. NoRow.status = "none"
        BY DEF NoRow, None
      <4>2. CASE row.status = "processing" /\ row' = [row EXCEPT !.until = now + Lease, !.expires = now + TTL]
        <5>1. row'.status = row.status
          BY <1>1, <4>2 DEF Rows
        <5> QED
          BY <4>1, <4>2, <5>1
      <4> QED
        BY <2>7, <4>2 DEF Renews
    <3> QED
      BY <1>1, <1>2, <1>3, <3>1, <3>2 DEF Recorded, Statuses
  <2>8. CASE Crashes(c)
    <3>1. Others(c) /\ ids' = ids /\ row' = row /\ run'[c].id = run[c].id /\ run'[c].pc = "died"
      BY <2>8, Fields DEF Crashes, SameBut
    <3> QED
      BY <1>1, <1>2, <1>3, <3>1 DEF Recorded
  <2> QED
    BY <1>3, <2>1, <2>2, <2>3, <2>4, <2>5, <2>6, <2>7, <2>8 DEF CallStep
<1>4. CASE DeleteExpired /\ UNCHANGED setup
  BY <1>1, <1>4 DEF DeleteExpired, Recorded, setup
<1>5. CASE (Tick \/ UNCHANGED vars) /\ UNCHANGED setup
  BY <1>5 DEF Tick, vars, setup, Recorded
<1> QED
  BY <1>3, <1>4, <1>5, StepFacts DEF Next, vars, setup

(* Every variable keeps to its type.                                         *)
THEOREM TypeCorrect == Spec => []TypeOK
<1>1. Init => TypeOK /\ Recorded
  BY InitType, RecordedInit
<1>2. TypeOK /\ Recorded /\ [Next]_vars => TypeOK' /\ Recorded'
  BY NextType, RecordedStep
<1> QED
  BY <1>1, <1>2, PTL DEF Spec

-----------------------------------------------------------------------------
(* A call that has to do with a record has the payload of the record, and the *)
(* answer that is stored or replayed is that of such a call.                  *)
Holding == {"work", "succeeded", "failed", "reclaim", "reclaimExpired"}
Answered ==
  kind = "request" =>
    /\ \A c \in Clients : run[c].pc \in Holding /\ run[c].id = row.id => run[c].fp = row.fp
    /\ row.status = "succeeded" => row.response \in effects /\ run[row.response].fp = row.fp
    /\ \A c \in Clients : run[c].pc = "succeeded" => c \in effects
    /\ \A c \in effects : run[c].pc # "begin"
    /\ \A c \in Clients : run[c].pc = "replayed" =>
         run[c].data \in effects /\ run[run[c].data].fp = run[c].fp

LEMMA AnsweredInit == Init => Answered
BY DEF Init, Answered, NoRow, None, Holding

LEMMA AnsweredStep == ASSUME TypeOK, Recorded, Answered, [Next]_vars PROVE Answered'
<1>1. /\ row \in Rows /\ ids \in Nat /\ run \in [Clients -> Calls] /\ effects \subseteq Clients
      /\ \A d \in Clients : run[d].id \in Nat
  BY TypeParts DEF Rows, Calls
<1>2. NoRow.id = 0 /\ NoRow.status # "succeeded"
  BY DEF NoRow, None
<1>3. kind' = kind
  BY DEF Next, vars, setup
<1> SUFFICES ASSUME kind = "request" PROVE Answered'
  BY <1>3 DEF Answered
<1>4. /\ \A c \in Clients : run[c].pc \in Holding /\ run[c].id = row.id => run[c].fp = row.fp
      /\ row.status = "succeeded" => row.response \in effects /\ run[row.response].fp = row.fp
      /\ \A c \in Clients : run[c].pc = "succeeded" => c \in effects
      /\ \A c \in effects : run[c].pc # "begin"
      /\ \A c \in Clients : run[c].pc = "replayed" =>
           run[c].data \in effects /\ run[run[c].data].fp = run[c].fp
  BY DEF Answered
(* A call whose payload stays, and a record that stays or is not a success.    *)
<1>5. ASSUME NEW c \in Clients, Others(c), effects \subseteq effects', effects' \subseteq effects \cup {c},
             run[c].pc # "begin" => run'[c].fp = run[c].fp,
             run'[c].pc # "begin",
             run'[c].pc \in Holding /\ run'[c].id = row'.id => run'[c].fp = row'.fp,
             run'[c].pc = "succeeded" => c \in effects',
             run'[c].pc = "replayed" =>
               run'[c].data \in effects /\ run[run'[c].data].fp = run'[c].fp /\ run'[c].data # c,
             \A d \in Clients : d # c /\ run[d].pc \in Holding /\ run[d].id = row'.id => run[d].fp = row'.fp,
             row'.status = "succeeded" =>
               row'.response \in effects /\ run[row'.response].fp = row'.fp
      PROVE  Answered'
  <2>1. \A d \in effects : run'[d].fp = run[d].fp
    BY <1>1, <1>4, <1>5 DEF Others
  <2>2. \A d \in Clients : run'[d].pc \in Holding /\ run'[d].id = row'.id => run'[d].fp = row'.fp
    BY <1>5 DEF Others
  <2>3. row'.status = "succeeded" => row'.response \in effects' /\ run'[row'.response].fp = row'.fp
    BY <1>5, <2>1
  <2>4. \A d \in Clients : run'[d].pc = "succeeded" => d \in effects'
    BY <1>4, <1>5 DEF Others
  <2>5. \A d \in effects' : run'[d].pc # "begin"
    BY <1>1, <1>4, <1>5 DEF Others
  <2>6. \A d \in Clients : run'[d].pc = "replayed" =>
          run'[d].data \in effects' /\ run'[run'[d].data].fp = run'[d].fp
    BY <1>4, <1>5, <2>1 DEF Others
  <2> QED
    BY <2>2, <2>3, <2>4, <2>5, <2>6 DEF Answered
<1>6. ASSUME NEW c \in Clients, CallStep(c) PROVE Answered'
  <2>1. CASE Begins(c)
    <3>1. Others(c) /\ row' = row /\ effects' = effects /\ run[c].pc = "begin" /\ run'[c].pc = "create"
      BY <2>1, Fields DEF Begins
    <3> QED
      BY <1>4, <1>5, <3>1 DEF Holding
  <2>2. CASE Reads(c)
    <3>1. Others(c) /\ row' = row /\ effects' = effects /\ run[c].pc # "begin"
      BY <2>2 DEF Reads, Goes, Finds
    <3>2. CASE Goes(c, {"get", "getAgain"} \cup (Answers \ {"replayed", "ok"}))
      <4>1. run'[c].fp = run[c].fp /\ run'[c].pc \in {"get", "getAgain"} \cup (Answers \ {"replayed", "ok"})
        BY <3>2, Fields DEF SameBut
      <4>2. run'[c].pc \notin Holding /\ run'[c].pc \notin {"begin", "replayed", "succeeded"}
        BY <4>1 DEF Answers, Holding
      <4> QED
        BY <1>4, <1>5, <3>1, <4>1, <4>2
    <3>3. CASE /\ row.fp = run[c].fp /\ row.status = "succeeded"
               /\ run[c].pc \in {"get", "getAgain"}
               /\ run'[c] = [run[c] EXCEPT !.pc = "replayed", !.data = row.response]
      <4>1. run'[c].pc = "replayed" /\ run'[c].fp = run[c].fp /\ run'[c].data = row.response
        BY <3>3, Fields
      <4>2. CASE row.response # c
        BY <1>4, <1>5, <3>1, <3>3, <4>1, <4>2 DEF Holding
      <4>3. CASE row.response = c
        <5>1. /\ run'[c].data \in effects' /\ run'[run'[c].data].fp = run'[c].fp
              /\ \A d \in Clients : run'[d].fp = run[d].fp /\ (d # c => run'[d] = run[d])
          BY <1>4, <3>1, <3>3, <4>1, <4>3 DEF Others
        <5> QED
          BY <1>1, <1>4, <3>1, <4>1, <5>1 DEF Answered, Holding
      <4> QED
        BY <4>2, <4>3
    <3>4. CASE row.fp = run[c].fp /\ (Finds(c, "reclaim") \/ Finds(c, "reclaimExpired"))
      <4>1. run'[c].fp = run[c].fp /\ run'[c].pc \in {"reclaim", "reclaimExpired"}
        BY <3>4, Fields DEF SameBut
      <4> QED
        BY <1>4, <1>5, <3>1, <3>4, <4>1
    <3> QED
      BY <2>2, <3>2, <3>3, <3>4 DEF Reads
  <2>3. CASE Creates(c)
    <3>1. /\ Others(c) /\ effects' = effects /\ run[c].pc # "begin" /\ run'[c].fp = run[c].fp
          /\ run'[c].pc \in {"work", "unavailable"}
          /\ row'.id = ids + 1 /\ row'.fp = run[c].fp /\ row'.status = "processing"
      BY <2>3 DEF Creates, Own1
    <3>2. \A d \in Clients : run[d].id # ids + 1
      BY <1>1 DEF Recorded
    <3> QED
      BY <1>4, <1>5, <3>1, <3>2
  <2>4. CASE Reclaims(c)
    <3>1. /\ Others(c) /\ effects' = effects /\ run[c].pc \in {"reclaim", "reclaimExpired"}
          /\ run'[c].fp = run[c].fp /\ run'[c].pc \in {"work", "unavailable"}
          /\ row'.id = row.id /\ row'.fp = row.fp /\ row'.status = "processing" /\ run[c].id = row.id
      BY <1>1, <2>4, RowFields DEF Reclaims, Reclaimable, Own1, Rows
    <3> QED
      BY <1>4, <1>5, <3>1 DEF Holding
  <2>5. CASE Executes(c)
    <3>1. /\ Others(c) /\ row' = row /\ run[c].pc = "work" /\ run'[c].fp = run[c].fp
          /\ run'[c].id = run[c].id
          /\ \/ run'[c].pc = "succeeded" /\ effects' = effects \cup {c}
             \/ run'[c].pc = "failed" /\ effects' = effects
      <4>1. ASSUME NEW pc, Goes(c, {pc})
            PROVE  Others(c) /\ run'[c].pc = pc /\ run'[c].fp = run[c].fp /\ run'[c].id = run[c].id
        <5>1. run'[c].pc \in {pc} /\ run'[c].fp = run[c].fp /\ run'[c].id = run[c].id
          BY <4>1, Fields DEF SameBut
        <5> QED
          BY <4>1, <5>1 DEF Goes
      <4> QED
        BY <2>5, <4>1 DEF Executes
    <3> QED
      BY <1>4, <1>5, <3>1 DEF Holding
  <2>6. CASE Ends(c)
    <3>1. /\ Others(c) /\ effects' = effects /\ run[c].pc \in Executing /\ run'[c].fp = run[c].fp
          /\ run'[c].pc \in {"ok", "error", "unavailable"} /\ row'.id = row.id /\ row'.fp = row.fp
      BY <2>6, RowFields DEF Ends
    <3>2. \/ row' = row
          \/ row'.status = "failed_retryable"
          \/ row'.status = "succeeded" /\ row'.response = c /\ row.id = run[c].id /\ run[c].pc = "succeeded"
      BY <1>1, <2>6 DEF Ends, Stores, Rows
    <3>3. row'.status = "succeeded" => row'.response \in effects /\ run[row'.response].fp = row'.fp
      BY <1>4, <3>1, <3>2 DEF Holding
    <3> QED
      BY <1>4, <1>5, <3>1, <3>3 DEF Holding, Executing
  <2>7. CASE Renews(c)
    <3>1. /\ Others(c) /\ effects' = effects /\ run'[c].pc = run[c].pc /\ run'[c].fp = run[c].fp
          /\ run'[c].id = run[c].id /\ run'[c].data = run[c].data
          /\ row'.id = row.id /\ row'.fp = row.fp
      BY <2>7, Fields, RowFields DEF Renews, SameBut
    <3>2. row'.status = row.status /\ row'.response = row.response
      BY <1>1, <2>7 DEF Renews, Rows
    <3>3. \A d \in Clients : /\ run'[d].pc = run[d].pc /\ run'[d].fp = run[d].fp
                             /\ run'[d].id = run[d].id /\ run'[d].data = run[d].data
      BY <3>1 DEF Others
    <3>4. \A d \in effects : run'[d].fp = run[d].fp
      BY <1>1, <3>3
    <3>5. row'.status = "succeeded" => row'.response \in effects' /\ run'[row'.response].fp = row'.fp
      BY <1>4, <3>1, <3>2, <3>4
    <3>6. \A d \in Clients : run'[d].pc = "replayed" =>
            run'[d].data \in effects' /\ run'[run'[d].data].fp = run'[d].fp
      BY <1>4, <3>1, <3>3, <3>4
    <3> QED
      BY <1>1, <1>4, <3>1, <3>3, <3>5, <3>6 DEF Answered
  <2>8. CASE Crashes(c)
    <3>1. Others(c) /\ row' = row /\ effects' = effects /\ run[c].pc # "begin"
          /\ run'[c].fp = run[c].fp /\ run'[c].pc = "died"
      BY <2>8, Fields DEF Crashes, SameBut
    <3> QED
      BY <1>4, <1>5, <3>1 DEF Holding
  <2> QED
    BY <1>6, <2>1, <2>2, <2>3, <2>4, <2>5, <2>6, <2>7, <2>8 DEF CallStep
<1>7. CASE DeleteExpired
  BY <1>2, <1>4, <1>7 DEF DeleteExpired, Answered, Recorded, Holding
<1>8. CASE Tick \/ UNCHANGED vars
  BY <1>4, <1>8 DEF Tick, vars, Answered
<1> QED
  BY <1>6, <1>7, <1>8, StepFacts DEF Next

(* Whatever is lost and however long anything takes, an answer that is        *)
(* replayed is that of an execution of the same payload that took effect.     *)
THEOREM ReplayIsFaithful == Spec => []ReplayIsOfSamePayload
<1>1. Init => TypeOK /\ Recorded /\ Answered
  BY InitType, RecordedInit, AnsweredInit
<1>2. TypeOK /\ Recorded /\ Answered /\ [Next]_vars => TypeOK' /\ Recorded' /\ Answered'
  BY NextType, RecordedStep, AnsweredStep
<1>3. TypeOK /\ Recorded /\ Answered => ReplayIsOfSamePayload
  BY TypeParts, IdempotencyAssumption DEF Recorded, Answered, ReplayIsOfSamePayload
<1> QED
  BY <1>1, <1>2, <1>3, PTL DEF Spec

-----------------------------------------------------------------------------
(* While no call outlives the time it owns the record for: the record of an   *)
(* owner is its own and keeps everybody else out until it ends.               *)
Span == IF kind = "request" THEN TTL ELSE Lease
Early == {"create", "get", "getAgain", "reclaim", "reclaimExpired"}
Owned ==
  faults \cap {"long", "slow"} = {} =>
    /\ \A c \in Clients : run[c].at <= now
    /\ \A c \in Clients : run[c].pc \in Early => now + 1 < run[c].at + Lease
    /\ \A c \in Owners : /\ run[c].id = row.id /\ row.status = "processing"
                         /\ row.until >= run[c].at + Lease /\ row.expires >= run[c].at + TTL
                         /\ now < run[c].at + Span
    /\ \A c, d \in Owners : c = d
    /\ \A c \in Owners, d \in Clients :
         /\ run[d].pc \in {"reclaim", "reclaimExpired"}
         /\ run[d].id = row.id /\ run[d].seen = "processing"
         => run[d].at < row.until

LEMMA OwnedInit == Init => Owned
BY DEF Init, Owned, Owners, Early

LEMMA OwnedStep == ASSUME TypeOK, Recorded, Owned, [Next]_vars PROVE Owned'
<1>1. /\ row \in Rows /\ ids \in Nat /\ run \in [Clients -> Calls] /\ now \in Nat
      /\ \A d \in Clients : run[d].id \in Nat /\ run[d].at \in Nat
      /\ row.id \in Nat /\ row.until \in Nat /\ row.expires \in Nat
      /\ Lease \in Nat /\ TTL \in Nat /\ 2 < Lease /\ Lease < TTL
  BY TypeParts, IdempotencyAssumption DEF Rows, Calls
<1>2. NoRow.id = 0
  BY DEF NoRow
<1>3. kind' = kind /\ faults' = faults /\ Span' = Span /\ Span \in {Lease, TTL}
  BY DEF Next, vars, setup, Span
<1> SUFFICES ASSUME faults \cap {"long", "slow"} = {} PROVE Owned'
  BY <1>3 DEF Owned
<1>4. /\ \A c \in Clients : run[c].at <= now
      /\ \A c \in Clients : run[c].pc \in Early => now + 1 < run[c].at + Lease
      /\ \A c \in Owners : /\ run[c].id = row.id /\ row.status = "processing"
                           /\ row.until >= run[c].at + Lease /\ row.expires >= run[c].at + TTL
                           /\ now < run[c].at + Span
      /\ \A c, d \in Owners : c = d
      /\ \A c \in Owners, d \in Clients :
           /\ run[d].pc \in {"reclaim", "reclaimExpired"}
           /\ run[d].id = row.id /\ run[d].seen = "processing"
           => run[d].at < row.until
  BY DEF Owned
<1>5. \A c \in Clients : c \in Owners <=> run[c].pc \in Executing
  BY DEF Owners, Executing
<1>6. (\A c \in Clients : c \in Owners' <=> run'[c].pc \in Executing) /\ Owners' \subseteq Clients
  BY DEF Owners, Executing
(* A step that leaves nobody in possession, and one that changes no owner.    *)
<1>7. ASSUME NEW c \in Clients, Others(c), now' = now, run'[c].at <= now,
             run'[c].pc \in Early => now + 1 < run'[c].at + Lease,
             \A d \in Clients : run'[d].pc \notin Executing
      PROVE  Owned'
  BY <1>4, <1>6, <1>7 DEF Owned, Others
<1>8. ASSUME NEW c \in Clients, Others(c), now' = now, row' = row, run'[c].at <= now,
             run'[c].pc \in Early => now + 1 < run'[c].at + Lease,
             run'[c].pc \in Executing => run[c].pc \in Executing /\ run'[c].id = run[c].id /\ run'[c].at = run[c].at,
             /\ \E d \in Owners : TRUE
             /\ run'[c].pc \in {"reclaim", "reclaimExpired"}
             /\ run'[c].id = row.id /\ run'[c].seen = "processing"
             => run'[c].at < row.until
      PROVE  Owned'
  <2>1. \A d \in Owners' : d \in Owners /\ run'[d].id = run[d].id /\ run'[d].at = run[d].at
    BY <1>5, <1>6, <1>8 DEF Others
  <2>2. \A d \in Clients : run'[d].at <= now' /\ (run'[d].pc \in Early => now' + 1 < run'[d].at + Lease)
    BY <1>4, <1>8 DEF Others
  <2>3. \A d \in Owners' : /\ run'[d].id = row'.id /\ row'.status = "processing"
                          /\ row'.until >= run'[d].at + Lease /\ row'.expires >= run'[d].at + TTL
                          /\ now' < run'[d].at + Span
    BY <1>4, <1>8, <2>1
  <2>4. \A d, e \in Owners' : d = e
    BY <1>4, <2>1
  <2>5. \A d \in Owners', e \in Clients :
          run'[e].pc \in {"reclaim", "reclaimExpired"} /\ run'[e].id = row'.id /\ run'[e].seen = "processing"
          => run'[e].at < row'.until
    BY <1>4, <1>8, <2>1 DEF Others
  <2> QED
    BY <1>3, <2>2, <2>3, <2>4, <2>5 DEF Owned
<1>9. ASSUME NEW c \in Clients, CallStep(c), now' = now PROVE Owned'
  <2>1. CASE Begins(c)
    <3>1. Others(c) /\ row' = row /\ run'[c].pc = "create" /\ run'[c].at = now
      BY <2>1, Fields DEF Begins
    <3> QED
      BY <1>1, <1>8, <1>9, <3>1 DEF Executing
  <2>2. CASE Reads(c)
    <3>1. Others(c) /\ row' = row /\ run[c].pc \in Early
      BY <2>2 DEF Reads, Goes, Finds, Early
    <3>2. CASE Goes(c, {"get", "getAgain"} \cup (Answers \ {"replayed", "ok"}))
      <4>1. run'[c].at = run[c].at /\ run'[c].pc \in {"get", "getAgain"} \cup (Answers \ {"replayed", "ok"})
        BY <3>2, Fields DEF SameBut
      <4>2. run'[c].pc \notin Executing \cup {"reclaim", "reclaimExpired"}
        BY <4>1 DEF Answers, Executing
      <4> QED
        BY <1>4, <1>8, <1>9, <3>1, <4>1, <4>2
    <3>3. CASE run'[c] = [run[c] EXCEPT !.pc = "replayed", !.data = row.response]
      <4>1. run'[c].at = run[c].at /\ run'[c].pc = "replayed"
        BY <1>1, <3>3 DEF Calls
      <4> QED
        BY <1>4, <1>8, <1>9, <3>1, <4>1 DEF Executing
    <3>4. CASE /\ Finds(c, "reclaim")
               /\ kind = "request" => row.status = "failed_retryable"
               /\ row.status = "processing" => row.until <= run[c].at
      <4>1. run'[c].at = run[c].at /\ run'[c].pc = "reclaim"
        BY <3>4, Fields DEF SameBut
      <4>2. ~(\E d \in Owners : TRUE)
        <5>1. ASSUME NEW d \in Owners PROVE FALSE
          <6>1. row.status = "processing" /\ row.until >= run[d].at + Lease /\ now < run[d].at + Span
            BY <1>4, <5>1
          <6>2. Span = Lease /\ row.until <= run[c].at /\ run[c].at <= now /\ d \in Clients
            BY <1>4, <3>4, <6>1 DEF Span, Owners
          <6> QED
            BY <1>1, <6>1, <6>2
        <5> QED
          BY <5>1
      <4> QED
        BY <1>4, <1>8, <1>9, <3>1, <4>1, <4>2 DEF Executing
    <3>5. CASE Finds(c, "reclaimExpired") /\ kind = "request" /\ row.expires <= run[c].at
      <4>1. run'[c].at = run[c].at /\ run'[c].pc = "reclaimExpired"
        <5>1. Finds(c, "reclaimExpired") => SameBut(c, "reclaimExpired")
          BY Fields
        <5> QED
          BY <3>5, <5>1 DEF SameBut
      <4>2. ~(\E d \in Owners : TRUE)
        <5>1. ASSUME NEW d \in Owners PROVE FALSE
          <6>1. row.expires >= run[d].at + TTL /\ now < run[d].at + TTL /\ d \in Clients
            BY <1>4, <3>5, <5>1 DEF Span, Owners
          <6> QED
            BY <1>1, <1>4, <3>5, <6>1
        <5> QED
          BY <5>1
      <4> QED
        BY <1>4, <1>8, <1>9, <3>1, <4>1, <4>2 DEF Executing
    <3> QED
      BY <2>2, <3>2, <3>3, <3>4, <3>5 DEF Reads
  <2>3. CASE Creates(c) \/ Reclaims(c)
    <3>1. /\ Others(c) /\ run[c].pc \in Early /\ run'[c].pc \in {"work", "unavailable"}
          /\ run'[c].at = run[c].at /\ run'[c].id = row'.id /\ row'.status = "processing"
          /\ row'.until = run[c].at + Lease /\ row'.expires = run[c].at + TTL
      <4>1. CASE Creates(c)
        BY <4>1 DEF Creates, Own1, Early
      <4>2. CASE Reclaims(c)
        <5>1. /\ row'.id = row.id /\ row'.status = "processing"
              /\ row'.until = run[c].at + Lease /\ row'.expires = run[c].at + TTL
          BY <1>1, <4>2 DEF Reclaims, Rows
        <5> QED
          BY <4>2, <5>1 DEF Reclaims, Own1, Early
      <4> QED
        BY <2>3, <4>1, <4>2
    <3>2. \A d \in Clients : run[d].pc \notin Executing
      <4>1. CASE Creates(c)
        BY <1>2, <1>4, <1>5, <4>1 DEF Creates, Recorded, Executing
      <4>2. CASE Reclaims(c)
        <5>1. ASSUME NEW d \in Owners PROVE FALSE
          <6>1. run[c].pc \in {"reclaim", "reclaimExpired"} /\ run[c].id = row.id
                /\ row.status = run[c].seen /\ row.until <= run[c].at
            BY <4>2 DEF Reclaims, Reclaimable
          <6>2. row.status = "processing"
            BY <1>4, <5>1
          <6>3. run[c].at < row.until
            BY <1>4, <5>1, <6>1, <6>2
          <6> QED
            BY <1>1, <6>1, <6>3
        <5> QED
          BY <1>5, <5>1
      <4> QED
        BY <2>3, <4>1, <4>2
    <3>3. \A d \in Clients : d # c => run'[d].pc \notin Executing
      BY <3>1, <3>2 DEF Others
    <3>4. Owners' \subseteq {c}
      BY <1>6, <3>3
    <3>5. now + 1 < run[c].at + Lease /\ Lease <= Span
      BY <1>1, <1>3, <1>4, <3>1
    <3>6. \A d \in Clients : run'[d].at <= now' /\ (run'[d].pc \in Early => now' + 1 < run'[d].at + Lease)
      BY <1>4, <1>9, <3>1 DEF Others
    <3>7. \A d \in Owners' : /\ run'[d].id = row'.id /\ row'.status = "processing"
                            /\ row'.until >= run'[d].at + Lease /\ row'.expires >= run'[d].at + TTL
                            /\ now' < run'[d].at + Span'
      <4>1. now < run[c].at + Span
        BY <1>1, <1>3, <3>5
      <4>2. run[c].at + Lease >= run[c].at + Lease /\ run[c].at + TTL >= run[c].at + TTL
        BY <1>1
      <4> QED
        BY <1>3, <1>9, <3>1, <3>4, <4>1, <4>2
    <3>8. \A d \in Clients : run'[d].at < row'.until
      <4>1. now < run[c].at + Lease
        BY <1>1, <3>5
      <4>2. \A d \in Clients : run'[d].at \in Nat /\ run'[d].at <= now
        BY <1>1, <1>9, <3>1, <3>6 DEF Others
      <4> QED
        BY <1>1, <3>1, <4>1, <4>2
    <3> QED
      BY <3>4, <3>6, <3>7, <3>8 DEF Owned
  <2>4. CASE Executes(c)
    <3>1. ASSUME NEW pc, Goes(c, {pc})
          PROVE  Others(c) /\ run'[c].pc = pc /\ run'[c].at = run[c].at /\ run'[c].id = run[c].id
      <4>1. run'[c].pc \in {pc} /\ run'[c].at = run[c].at /\ run'[c].id = run[c].id
        BY <3>1, Fields DEF SameBut
      <4> QED
        BY <3>1, <4>1 DEF Goes
    <3>2. Others(c) /\ run'[c].pc \in {"succeeded", "failed"} /\ run'[c].at = run[c].at
          /\ run'[c].id = run[c].id /\ row' = row /\ run[c].pc = "work"
      BY <2>4, <3>1 DEF Executes
    <3> QED
      BY <1>4, <1>8, <1>9, <3>2 DEF Early, Executing
  <2>5. CASE Ends(c)
    <3>1. Others(c) /\ run[c].pc \in Executing /\ run'[c].pc \notin Executing \cup Early
          /\ run'[c].at = run[c].at
      BY <2>5 DEF Ends, Executing, Early
    <3>2. \A d \in Clients : run'[d].pc \notin Executing
      BY <1>4, <1>5, <3>1 DEF Others
    <3> QED
      BY <1>4, <1>7, <1>9, <3>1, <3>2
  <2>6. CASE Renews(c)
    <3>1. /\ Others(c) /\ run'[c].pc = run[c].pc /\ run'[c].at = run[c].at /\ run'[c].id = run[c].id
          /\ run'[c].seen = run[c].seen
      BY <2>6, Fields DEF Renews, SameBut
    <3>2. CASE row' = row
      BY <1>4, <1>8, <1>9, <3>1, <3>2
    <3>3. CASE row' = [row EXCEPT !.until = now + Lease, !.expires = now + TTL]
      <4>1. row'.id = row.id /\ row'.status = row.status /\ row'.until = now + Lease /\ row'.expires = now + TTL
        BY <1>1, <3>3 DEF Rows
      <4>2. \A d \in Clients : run'[d].pc = run[d].pc /\ run'[d].at = run[d].at /\ run'[d].id = run[d].id
                             /\ run'[d].at < now + Lease /\ now + Lease >= run'[d].at + Lease
                             /\ now + TTL >= run'[d].at + TTL
        BY <1>1, <1>4, <3>1 DEF Others
      <4>3. Owners' = Owners /\ Owners \subseteq Clients
        BY <4>2 DEF Owners
      <4> QED
        BY <1>3, <1>4, <1>9, <4>1, <4>2, <4>3 DEF Owned
    <3> QED
      BY <2>6, <3>2, <3>3 DEF Renews
  <2>7. CASE Crashes(c)
    <3>1. Others(c) /\ row' = row /\ run'[c].pc = "died" /\ run'[c].at = run[c].at
      BY <2>7, Fields DEF Crashes, SameBut
    <3> QED
      BY <1>4, <1>8, <1>9, <3>1 DEF Early, Executing
  <2> QED
    BY <1>9, <2>1, <2>2, <2>3, <2>4, <2>5, <2>6, <2>7 DEF CallStep
<1>10. CASE DeleteExpired
  <2>1. ASSUME NEW c \in Owners PROVE FALSE
    <3>1. c \in Clients /\ row.expires >= run[c].at + TTL /\ now < run[c].at + Span /\ row.expires <= now
      BY <1>4, <1>10, <2>1 DEF Owners, DeleteExpired
    <3> QED
      BY <1>1, <1>3, <3>1
  <2>2. UNCHANGED <<now, run>> /\ Owners' = {}
    BY <1>10, <2>1 DEF DeleteExpired, Owners
  <2> QED
    BY <1>4, <2>2 DEF Owned
<1>11. CASE Tick
  <2>1. now' = now + 1 /\ UNCHANGED <<row, run>> /\ Owners' = Owners /\ \A c \in Clients : InTime(c)
    BY <1>11 DEF Tick, Owners
  <2>2. ASSUME NEW c \in Clients, run[c].pc \in Early PROVE now + 2 < run[c].at + Lease
    <3>1. run[c].pc \notin Answers \cup {"begin", "work", "succeeded", "failed"}
      BY <2>2 DEF Early, Answers
    <3> QED
      BY <2>1, <3>1, Zenon DEF InTime
  <2>3. ASSUME NEW c \in Owners PROVE now + 1 < run[c].at + Span
    <3>1. c \in Clients /\ run[c].pc \in {"work", "succeeded", "failed"} /\ InTime(c)
      BY <2>1, <2>3 DEF Owners
    <3>2. run[c].pc \notin Answers \cup {"begin"}
      BY <3>1 DEF Answers
    <3> QED
      BY <3>1, <3>2 DEF InTime, Span
  <2>4. \A c \in Clients : run[c].at <= now' /\ (run[c].pc \in Early => now' + 1 < run[c].at + Lease)
    BY <1>1, <1>4, <2>1, <2>2
  <2>5. \A c \in Owners : now' < run[c].at + Span'
    BY <1>3, <2>1, <2>3
  <2> QED
    BY <1>4, <2>1, <2>4, <2>5 DEF Owned
<1>12. CASE UNCHANGED vars
  BY <1>3, <1>4, <1>12 DEF vars, Owned, Owners
<1> QED
  BY <1>9, <1>10, <1>11, <1>12, StepFacts DEF Next

(* One call at a time executes, or holds the lock, as long as no call         *)
(* outlives the time it owns the record for.                                 *)
THEOREM OwnerIsAlone == Spec => []OneOwner
<1>1. Init => TypeOK /\ Recorded /\ Owned
  BY InitType, RecordedInit, OwnedInit
<1>2. TypeOK /\ Recorded /\ Owned /\ [Next]_vars => TypeOK' /\ Recorded' /\ Owned'
  BY NextType, RecordedStep, OwnedStep
<1>3. Owned => OneOwner
  BY DEF Owned, OneOwner
<1> QED
  BY <1>1, <1>2, <1>3, PTL DEF Spec

-----------------------------------------------------------------------------
(* Requests only from here on: what the steps of one leave of its answer.      *)
Stored(c) ==
  /\ run[c].pc = "succeeded" /\ UNCHANGED effects /\ Goes(c, {"ok", "unavailable"})
  /\ \/ run'[c].pc = "unavailable" /\ row' = row
     \/ row.id = run[c].id =>
          row' = [row EXCEPT !.status = "succeeded", !.until = 0, !.expires = run[c].at + TTL, !.response = c]
Fails(c) == run[c].pc = "failed" /\ UNCHANGED effects /\ Goes(c, {"error"})
RequestStep(c) ==
  \/ Begins(c) \/ Reads(c) \/ Creates(c) \/ Reclaims(c) \/ Executes(c)
  \/ Stored(c) \/ Fails(c) \/ Crashes(c)

LEMMA StoreFacts ==
  ASSUME TypeOK, NEW c \in Clients, StoreSuccess(c) \/ StoreFailure(c)
  PROVE  Stored(c) \/ Fails(c)
<1>1. CASE StoreFailure(c)
  BY <1>1, GoFacts DEF StoreFailure, Fails, Answers
<1>2. CASE StoreSuccess(c)
  <2>1. PICK pc \in {"ok", "unavailable"} :
          /\ Goto(c, pc) /\ (MarkSucceeded(c, run[c].at + TTL) \/ (pc = "unavailable" /\ row' = row))
    BY <1>2 DEF StoreSuccess
  <2>2. Goes(c, {pc})
    BY <2>1, GoFacts DEF Answers
  <2>3. run'[c].pc = pc /\ Goes(c, {"ok", "unavailable"})
    BY <2>2, TypeParts DEF Goes, Calls
  <2>4. run[c].pc = "succeeded" /\ UNCHANGED effects
    BY <1>2 DEF StoreSuccess
  <2> QED
    BY <2>1, <2>3, <2>4 DEF Stored, MarkSucceeded, Matches
<1> QED
  BY <1>1, <1>2

LEMMA RequestFacts ==
  ASSUME TypeOK, Recorded, kind = "request", NEW c \in Clients, ~run[c].renewing,
         Continue(c) \/ Crash(c), UNCHANGED now
  PROVE  RequestStep(c)
<1>1. ~Renew(c) /\ ~Release(c)
  BY DEF Renew, Release
<1> QED
  BY <1>1, BeginFacts, GetReads, TakeFacts, ExecuteFacts, StoreFacts, CrashFacts DEF Continue, RequestStep

(* The tag of a call: when it began, and when and how it took the record.      *)
SameTag(c) == run'[c].at = run[c].at /\ run'[c].beat = run[c].beat /\ run'[c].via = run[c].via

LEMMA Tags ==
  ASSUME TypeOK, NEW c \in Clients
  PROVE  /\ \A pcs : Goes(c, pcs) => SameTag(c)
         /\ \A pc : Finds(c, pc) => SameTag(c)
         /\ run'[c] = [run[c] EXCEPT !.pc = "replayed", !.data = row.response] => SameTag(c)
         /\ Begins(c) => run'[c].beat = run[c].beat /\ run'[c].via = run[c].via
         /\ Crashes(c) => SameTag(c)
<1>1. run[c] \in Calls
  BY TypeParts
<1>2. ASSUME NEW pcs, Goes(c, pcs) PROVE SameTag(c)
  BY <1>1, <1>2 DEF Goes, Calls, SameTag
<1>3. ASSUME NEW pc, Finds(c, pc) PROVE SameTag(c)
  BY <1>1, <1>3 DEF Finds, Calls, SameTag
<1>4. run'[c] = [run[c] EXCEPT !.pc = "replayed", !.data = row.response] => SameTag(c)
  BY <1>1 DEF Calls, SameTag
<1>5. Begins(c) => run'[c].beat = run[c].beat /\ run'[c].via = run[c].via
  BY <1>1 DEF Begins, Calls
<1>6. Crashes(c) => SameTag(c)
  BY <1>1 DEF Crashes, Calls, SameTag
<1> QED
  BY <1>2, <1>3, <1>4, <1>5, <1>6

(* How far a request is, and what it has done by then.                        *)
Fresh == Early \cup {"begin"}
Progress(c) ==
  /\ ~run[c].renewing /\ run[c].beat <= now
  /\ run[c].pc \in Fresh => run[c].via = None
  /\ run[c].pc = "reclaim" => run[c].seen = "failed_retryable"
  /\ run[c].pc \in {"succeeded", "ok"} => c \in effects
  /\ c \in effects => run[c].pc \in {"succeeded", "ok", "unavailable", "died"}
Progressing ==
  /\ kind = "system" => effects = {}
  /\ kind = "request" => \A c \in Clients : Progress(c)

LEMMA ProgressInit == Init => Progressing
BY DEF Init, Progressing, Progress, Early, Fresh

LEMMA ProgressCall ==
  ASSUME TypeOK, Recorded, kind = "request", NEW c \in Clients, Progress(c), RequestStep(c), UNCHANGED now
  PROVE  Progress(c)' /\ effects \subseteq effects' /\ effects' \subseteq effects \cup {c}
<1>1. run[c].beat <= now /\ now \in Nat /\ ~run[c].renewing
  BY TypeParts, IdempotencyAssumption DEF Progress
<1>2. CASE Begins(c)
  <2>1. run'[c].pc = "create" /\ run'[c].renewing = run[c].renewing /\ run[c].pc = "begin"
        /\ run'[c].beat = run[c].beat /\ run'[c].via = run[c].via /\ effects' = effects
    BY <1>2, Fields, Tags DEF Begins
  <2> QED
    BY <1>1, <2>1 DEF Progress, Fresh, Early
<1>3. CASE Reads(c)
  <2>1. effects' = effects /\ run[c].pc \in Early
    BY <1>3 DEF Reads, Early
  <2>2. c \notin effects /\ run[c].via = None
    BY <2>1 DEF Progress, Early, Fresh
  <2>3. CASE Goes(c, {"get", "getAgain"} \cup (Answers \ {"replayed", "ok"}))
    <3>1. SameTag(c) /\ run'[c].renewing = run[c].renewing
          /\ run'[c].pc \in {"get", "getAgain"} \cup (Answers \ {"replayed", "ok"})
      BY <2>3, Fields, Tags
    <3>2. run'[c].pc \notin {"reclaim", "succeeded", "ok"}
      BY <3>1 DEF Answers
    <3> QED
      BY <1>1, <2>1, <2>2, <3>1, <3>2 DEF Progress, SameTag
  <2>4. CASE run'[c] = [run[c] EXCEPT !.pc = "replayed", !.data = row.response]
    <3>1. SameTag(c) /\ run'[c].renewing = run[c].renewing /\ run'[c].pc = "replayed"
      BY <2>4, Fields, Tags
    <3> QED
      BY <1>1, <2>1, <2>2, <3>1 DEF Progress, SameTag
  <2>5. ASSUME NEW pc \in {"reclaim", "reclaimExpired"}, Finds(c, pc),
               pc = "reclaim" => row.status = "failed_retryable"
        PROVE  Progress(c)'
    <3>1. SameTag(c)
      BY <2>5, Tags
    <3>2. run'[c].renewing = run[c].renewing /\ run'[c].seen = row.status /\ SameBut(c, pc)
      BY <2>5, Fields
    <3> QED
      BY <1>1, <2>1, <2>2, <2>5, <3>1, <3>2 DEF Progress, SameTag, SameBut
  <2> QED
    BY <1>3, <2>1, <2>3, <2>4, <2>5 DEF Reads
<1>4. CASE Creates(c) \/ Reclaims(c)
  <2>1. run[c].pc \in Early /\ effects' = effects /\ run'[c].pc \in {"work", "unavailable"}
        /\ run'[c].beat = now /\ (run'[c].renewing => kind = "system")
    BY <1>4 DEF Creates, Reclaims, Own1, Early
  <2>2. c \notin effects
    BY <2>1 DEF Progress, Early
  <2> QED
    BY <1>1, <2>1, <2>2 DEF Progress, Fresh, Early
<1>5. CASE Executes(c)
  <2>1. ASSUME NEW pc, Goes(c, {pc})
        PROVE  run'[c].pc = pc /\ SameTag(c) /\ run'[c].renewing = run[c].renewing
    <3>1. run'[c].pc \in {pc} /\ run'[c].renewing = run[c].renewing
      BY <2>1, Fields
    <3> QED
      BY <2>1, <3>1, Tags
  <2>2. run[c].pc = "work" /\ c \notin effects
    BY <1>5 DEF Executes, Progress
  <2>3. CASE run'[c].pc = "succeeded" /\ SameTag(c) /\ ~run'[c].renewing /\ effects' = effects \cup {c}
    BY <1>1, <2>2, <2>3 DEF Progress, SameTag, Fresh, Early
  <2>4. CASE run'[c].pc = "failed" /\ SameTag(c) /\ ~run'[c].renewing /\ effects' = effects
    BY <1>1, <2>2, <2>4 DEF Progress, SameTag, Fresh, Early
  <2> QED
    BY <1>1, <1>5, <2>1, <2>3, <2>4 DEF Executes
<1>6. CASE Stored(c)
  <2>1. run'[c].pc \in {"ok", "unavailable"} /\ run'[c].renewing = run[c].renewing
    BY <1>6, Fields DEF Stored
  <2>2. SameTag(c) /\ effects' = effects /\ run[c].pc = "succeeded"
    BY <1>6, Tags DEF Stored
  <2> QED
    BY <1>1, <2>1, <2>2 DEF Progress, SameTag, Fresh, Early
<1>7. CASE Fails(c)
  <2>1. run'[c].pc \in {"error"} /\ run'[c].renewing = run[c].renewing
    BY <1>7, Fields DEF Fails
  <2>2. SameTag(c) /\ effects' = effects /\ run[c].pc = "failed"
    BY <1>7, Tags DEF Fails
  <2> QED
    BY <1>1, <2>1, <2>2 DEF Progress, SameTag, Fresh, Early
<1>8. CASE Crashes(c)
  <2>1. run'[c].pc = "died" /\ ~run'[c].renewing /\ SameTag(c) /\ effects' = effects
    BY <1>8, Fields, Tags DEF Crashes, SameBut
  <2> QED
    BY <1>1, <2>1 DEF Progress, SameTag, Fresh, Early
<1> QED
  BY <1>2, <1>3, <1>4, <1>5, <1>6, <1>7, <1>8 DEF RequestStep

LEMMA ProgressStep ==
  ASSUME TypeOK, Recorded, Progressing, [Next]_vars PROVE Progressing'
<1>1. kind' = kind /\ kind \in {"request", "system"}
  BY TypeParts, IdempotencyAssumption DEF Next, vars, setup
<1>2. CASE kind = "system"
  <2>1. \A c \in Clients : run[c].pc \notin {"succeeded", "failed"} /\ ~Execute(c)
    BY <1>2 DEF Recorded, Execute
  <2>2. UNCHANGED effects
    BY <2>1 DEF Next, Continue, Begin, CreateProcessing, GetExisting, GetAgain, TryReclaim, StoreSuccess,
                StoreFailure, Release, Renew, Crash, DeleteExpired, Tick, vars
  <2> QED
    BY <1>1, <1>2, <2>2 DEF Progressing
<1>3. CASE kind = "request"
  <2>1. \A c \in Clients : Progress(c)
    BY <1>3 DEF Progressing
  <2>2. ASSUME NEW c \in Clients, RequestStep(c), UNCHANGED now PROVE \A d \in Clients : Progress(d)'
    <3>1. Progress(c)' /\ effects \subseteq effects' /\ effects' \subseteq effects \cup {c}
      BY <1>3, <2>1, <2>2, ProgressCall
    <3>2. Others(c)
      BY <2>2 DEF RequestStep, Begins, Reads, Goes, Finds, Creates, Reclaims, Own1, Executes, Stored, Fails, Crashes
    <3>3. ASSUME NEW d \in Clients, d # c PROVE Progress(d)'
      BY <2>1, <2>2, <3>1, <3>2, <3>3 DEF Progress, Others
    <3> QED
      BY <3>1, <3>3
  <2>3. CASE DeleteExpired \/ UNCHANGED vars
    BY <1>1, <1>3, <2>1, <2>3 DEF DeleteExpired, vars, Progress, Progressing
  <2>4. CASE Tick
    <3>1. now' = now + 1 /\ UNCHANGED <<run, effects>>
      BY <2>4 DEF Tick
    <3>2. \A c \in Clients : run[c].beat <= now + 1
      BY <2>1, TypeParts, IdempotencyAssumption DEF Progress, Calls
    <3> QED
      BY <1>1, <1>3, <2>1, <3>1, <3>2 DEF Progress, Progressing
  <2>5. \A c \in Clients : ~run[c].renewing
    BY <2>1 DEF Progress
  <2>6. CASE \E c \in Clients : (Continue(c) \/ Crash(c)) /\ UNCHANGED now
    BY <1>1, <1>3, <2>2, <2>5, <2>6, RequestFacts DEF Progressing
  <2> QED
    BY <2>3, <2>4, <2>6 DEF Next
<1> QED
  BY <1>1, <1>2, <1>3

(* While no request outlives its record: what one has effected stays on       *)
(* record, and keeps the others out, until its TTL is over or somebody        *)
(* reclaims the record as expired although it is fresh.                       *)
Standing(c) ==
  /\ row.id = run[c].id /\ row.expires >= run[c].at + TTL /\ \A d \in Owners : d = c
  /\ row.status = "processing" \/ (row.status = "succeeded" /\ row.response = c)
  /\ run[c].pc = "ok" => row.status = "succeeded"
InForce(c) == now < run[c].at + TTL /\ \A e \in Clients : ~ReclaimedFresh(e, c)
Separate(c, d) == c = d \/ Apart(c, d) \/ \E e \in Clients : ReclaimedFresh(e, c) \/ ReclaimedFresh(e, d)
Kept ==
  faults \cap {"long", "slow"} = {} /\ kind = "request" =>
    /\ \A c \in effects : InForce(c) => Standing(c)
    /\ \A c \in effects, d \in effects \cup Owners : Separate(c, d)

LEMMA KeptInit == Init => Kept
BY DEF Init, Kept

(* A step of one call leaves the tags of those that have taken the record.    *)
LEMMA TagsStand ==
  ASSUME TypeOK, Recorded, kind = "request", \A d \in Clients : Progress(d),
         NEW c \in Clients, RequestStep(c), UNCHANGED now
  PROVE  /\ Others(c)
         /\ \A d \in effects \cup Owners : SameTag(d)
         /\ \A d \in effects \cup Owners, e \in Clients : ReclaimedFresh(e, d) => ReclaimedFresh(e, d)'
         /\ ~(Creates(c) \/ Reclaims(c)) =>
              \A d \in effects \cup Owners, e \in Clients : ReclaimedFresh(e, d)' => ReclaimedFresh(e, d)
<1>1. Others(c)
  BY DEF RequestStep, Begins, Reads, Goes, Finds, Creates, Reclaims, Own1, Executes, Stored, Fails, Crashes
<1>2. /\ ~(Creates(c) \/ Reclaims(c)) => run'[c].beat = run[c].beat /\ run'[c].via = run[c].via
      /\ ~(Begins(c) \/ Creates(c) \/ Reclaims(c)) => SameTag(c)
  BY Tags DEF RequestStep, Reads, Executes, Stored, Fails, SameTag
<1>3. Begins(c) \/ Creates(c) \/ Reclaims(c) => run[c].pc \in Fresh
  BY DEF Begins, Creates, Reclaims, Fresh, Early
<1>4. run[c].pc \in Fresh => c \notin effects \cup Owners /\ run[c].via = None
  BY DEF Progress, Fresh, Early, Owners
<1>5. \A d \in effects \cup Owners : d \in Clients /\ SameTag(d)
  BY <1>1, <1>2, <1>3, <1>4, TypeParts DEF Others, SameTag, Owners
<1>6. \A d \in effects \cup Owners, e \in Clients : ReclaimedFresh(e, d) => ReclaimedFresh(e, d)'
  <2>1. ASSUME NEW d \in effects \cup Owners, NEW e \in Clients, ReclaimedFresh(e, d)
        PROVE  ReclaimedFresh(e, d)'
    <3>1. run'[e].beat = run[e].beat /\ run'[e].via = run[e].via
      BY <1>1, <1>2, <1>3, <1>4, <2>1 DEF Others, ReclaimedFresh, None
    <3> QED
      BY <1>5, <2>1, <3>1 DEF ReclaimedFresh, SameTag
  <2> QED
    BY <2>1
<1>7. ASSUME ~(Creates(c) \/ Reclaims(c)), NEW d \in effects \cup Owners, NEW e \in Clients,
             ReclaimedFresh(e, d)'
      PROVE  ReclaimedFresh(e, d)
  <2>1. run'[e].beat = run[e].beat /\ run'[e].via = run[e].via
    BY <1>1, <1>2, <1>7 DEF Others
  <2> QED
    BY <1>5, <1>7, <2>1 DEF ReclaimedFresh, SameTag
<1> QED
  BY <1>1, <1>5, <1>6, <1>7

LEMMA KeptStep ==
  ASSUME TypeOK, Recorded, Owned, Progressing, Kept, [Next]_vars PROVE Kept'
<1>1. /\ row \in Rows /\ run \in [Clients -> Calls] /\ now \in Nat /\ effects \subseteq Clients
      /\ \A d \in Clients : run[d].at \in Nat /\ run[d].beat \in Nat
      /\ row.expires \in Nat /\ TTL \in Nat /\ Owners \subseteq Clients
  BY TypeParts, IdempotencyAssumption DEF Rows, Calls, Owners
<1>2. kind' = kind /\ faults' = faults
  BY DEF Next, vars, setup
<1> SUFFICES ASSUME faults \cap {"long", "slow"} = {}, kind = "request" PROVE Kept'
  BY <1>2 DEF Kept
<1>3. /\ \A c \in effects : InForce(c) => Standing(c)
      /\ \A c \in effects, d \in effects \cup Owners : Separate(c, d)
      /\ \A c \in Clients : Progress(c)
  BY DEF Kept, Progressing
<1>4. /\ \A c \in Owners : /\ run[c].id = row.id /\ row.status = "processing"
                           /\ row.expires >= run[c].at + TTL
      /\ \A c, d \in Owners : c = d
  BY DEF Owned
<1>5. NoRow.status \notin {"processing", "succeeded"}
  BY DEF NoRow, None
(* As long as somebody executes, no effect of another call is in force.       *)
<1>6. ASSUME NEW c \in Owners, NEW d \in effects, InForce(d) PROVE d = c
  BY <1>3, <1>6 DEF Standing
<1>7. ASSUME NEW c \in Clients, RequestStep(c), now' = now PROVE Kept'
  <2>1. /\ Others(c) /\ \A d \in effects \cup Owners : SameTag(d)
        /\ \A d \in effects \cup Owners, e \in Clients : ReclaimedFresh(e, d) => ReclaimedFresh(e, d)'
        /\ ~(Creates(c) \/ Reclaims(c)) =>
             \A d \in effects \cup Owners, e \in Clients : ReclaimedFresh(e, d)' => ReclaimedFresh(e, d)
    BY <1>3, <1>7, TagsStand
  <2>2. \A d \in effects \cup Owners, e \in effects \cup Owners : Separate(d, e) => Separate(d, e)'
    BY <1>1, <2>1 DEF Separate, Apart, SameTag
  <2>3. \A d \in effects \cup Owners : InForce(d)' => InForce(d)
    BY <1>7, <2>1 DEF InForce, SameTag
  <2>4. \A d \in effects, e \in effects \cup Owners : Separate(d, e)'
    BY <1>3, <2>2
  <2>5. CASE Creates(c) \/ Reclaims(c)
    <3>1. /\ effects' = effects /\ run[c].pc \in Early /\ run'[c].pc \in {"work", "unavailable"}
          /\ run'[c].beat = now
      BY <2>5 DEF Creates, Reclaims, Own1, Early
    <3>2. ASSUME NEW d \in effects, InForce(d)' PROVE FALSE
      <4>1. Standing(d) /\ d \in Clients
        BY <1>1, <1>3, <2>3, <3>2
      <4>2. CASE Creates(c)
        BY <1>5, <4>1, <4>2 DEF Creates, Standing
      <4>3. CASE Reclaims(c)
        <5>1. row.status = run[c].seen /\ row.status \in {"processing", "succeeded"}
          BY <4>1, <4>3 DEF Reclaims, Reclaimable, Standing
        <5>2. run[c].pc = "reclaimExpired"
          BY <1>3, <4>3, <5>1 DEF Reclaims, Progress
        <5>3. run'[c].via = "expired" /\ run'[c].beat = now
          BY <4>3, <5>2 DEF Reclaims, Own1
        <5>4. d # c
          BY <1>3, <3>1 DEF Progress, Early
        <5>5. run'[d] = run[d] /\ run[d].beat <= now
          BY <1>3, <2>1, <4>1, <5>4 DEF Others, Progress
        <5>6. now < run'[d].at + TTL
          BY <1>7, <3>2 DEF InForce
        <5> QED
          BY <3>2, <5>3, <5>4, <5>5, <5>6 DEF InForce, ReclaimedFresh
      <4> QED
        BY <2>5, <4>2, <4>3
    <3>3. ASSUME NEW d \in effects PROVE Separate(d, c)'
      <4>1. d \in Clients /\ run'[d].at \in Nat /\ run'[c].beat = now /\ now' = now
        BY <1>1, <1>7, <2>1, <3>1, <3>3 DEF SameTag
      <4>2. CASE now < run'[d].at + TTL
        BY <3>2, <3>3, <4>1, <4>2 DEF InForce, Separate
      <4>3. CASE run'[d].at + TTL <= now
        BY <4>1, <4>3 DEF Separate, Apart
      <4> QED
        BY <1>1, <4>1, <4>2, <4>3
    <3>4. Owners' \subseteq Owners \cup {c}
      BY <2>1 DEF Owners, Others
    <3> QED
      BY <2>4, <3>1, <3>2, <3>3, <3>4 DEF Kept
  <2>6. CASE Begins(c) \/ Reads(c) \/ Crashes(c)
    <3>1. effects' = effects /\ row' = row
      BY <2>6 DEF Begins, Reads, Crashes
    <3>2. run'[c].pc \notin {"work", "succeeded", "failed", "ok"}
      <4>1. CASE Begins(c)
        BY <4>1, Fields
      <4>2. CASE Crashes(c)
        BY <4>2, Fields DEF SameBut
      <4>3. CASE Reads(c)
        <5>1. CASE Goes(c, {"get", "getAgain"} \cup (Answers \ {"replayed", "ok"}))
          <6>1. run'[c].pc \in {"get", "getAgain"} \cup (Answers \ {"replayed", "ok"})
            BY <5>1, Fields
          <6> QED
            BY <6>1 DEF Answers
        <5>2. CASE run'[c] = [run[c] EXCEPT !.pc = "replayed", !.data = row.response]
          BY <5>2, Fields
        <5>3. ASSUME NEW pc \in {"reclaim", "reclaimExpired"}, Finds(c, pc) PROVE run'[c].pc = pc
          BY <5>3, Fields DEF SameBut
        <5> QED
          BY <4>3, <5>1, <5>2, <5>3 DEF Reads
      <4> QED
        BY <2>6, <4>1, <4>2, <4>3
    <3>3. Owners' \subseteq Owners
      BY <2>1, <3>2 DEF Owners, Others
    <3>4. \A d \in effects : run'[d].id = run[d].id /\ (run'[d].pc = "ok" => run[d].pc = "ok")
      <4>1. run'[c].id = run[c].id \/ c \notin effects
        <5>1. Begins(c) \/ Crashes(c) => run'[c].id = run[c].id
          BY Fields
        <5>2. Reads(c) => c \notin effects
          BY <1>3 DEF Reads, Progress
        <5> QED
          BY <2>6, <5>1, <5>2
      <4> QED
        BY <1>1, <2>1, <3>2, <4>1 DEF Others
    <3>5. \A d \in effects : Standing(d) => Standing(d)'
      BY <2>1, <3>1, <3>3, <3>4 DEF Standing, SameTag
    <3> QED
      BY <1>3, <2>3, <2>4, <3>1, <3>3, <3>5 DEF Kept
  <2>7. CASE Executes(c)
    <3>1. /\ c \in Owners /\ c \notin effects /\ row' = row /\ effects' \subseteq effects \cup {c}
          /\ \A d \in Owners : d = c
      BY <1>3, <1>4, <2>7 DEF Executes, Owners, Progress
    <3>2. run'[c].pc \in {"succeeded", "failed"} /\ run'[c].id = run[c].id
      <4>1. ASSUME NEW pc, Goes(c, {pc}) PROVE run'[c].pc = pc /\ run'[c].id = run[c].id
        <5>1. run'[c].pc \in {pc} /\ run'[c].id = run[c].id
          BY <4>1, Fields
        <5> QED
          BY <5>1
      <4> QED
        BY <2>7, <4>1 DEF Executes
    <3>3. Owners' = {c}
      BY <2>1, <3>1, <3>2 DEF Owners, Others
    <3>4. \A d \in effects : ~InForce(d)
      BY <1>6, <3>1
    <3>5. Standing(c)'
      BY <1>4, <2>1, <3>1, <3>2, <3>3 DEF Standing, SameTag
    <3>6. \A d \in effects' : InForce(d)' => Standing(d)'
      BY <2>3, <3>1, <3>4, <3>5
    <3>7. \A d \in effects', e \in effects' \cup Owners' : Separate(d, e)'
      <4>1. \A d \in effects : Separate(c, d)' /\ Separate(d, c)'
        BY <2>4, <3>1 DEF Separate, Apart
      <4>2. Separate(c, c)'
        BY DEF Separate
      <4> QED
        BY <2>4, <3>1, <3>3, <4>1, <4>2
    <3> QED
      BY <3>6, <3>7 DEF Kept
  <2>8. CASE Stored(c) \/ Fails(c)
    <3>1. c \in Owners /\ effects' = effects /\ run'[c].pc \in {"ok", "unavailable", "error"}
          /\ run'[c].id = run[c].id
      <4>1. Stored(c) => run'[c].pc \in {"ok", "unavailable"} /\ run'[c].id = run[c].id
        BY Fields DEF Stored
      <4>2. Fails(c) => run'[c].pc \in {"error"} /\ run'[c].id = run[c].id
        BY Fields DEF Fails
      <4>3. c \in Owners /\ effects' = effects
        BY <2>8 DEF Stored, Fails, Owners
      <4> QED
        BY <2>8, <4>1, <4>2, <4>3
    <3>2. Owners' = {}
      BY <1>4, <2>1, <3>1 DEF Owners, Others
    <3>3. ASSUME NEW d \in effects, InForce(d)' PROVE Standing(d)'
      <4>1. d = c /\ Standing(c) /\ SameTag(c)
        BY <1>3, <1>6, <2>1, <2>3, <3>1, <3>3
      <4>2. Stored(c)
        BY <1>3, <2>8, <3>3, <4>1 DEF Fails, Progress
      <4>3. CASE run'[c].pc = "unavailable" /\ row' = row
        BY <3>1, <3>2, <4>1, <4>3 DEF Standing, SameTag
      <4>4. CASE row' = [row EXCEPT !.status = "succeeded", !.until = 0, !.expires = run[c].at + TTL, !.response = c]
        <5>1. row'.id = row.id /\ row'.status = "succeeded" /\ row'.response = c /\ row'.expires = run[c].at + TTL
          BY <1>1, <4>4 DEF Rows
        <5>2. run[c].at + TTL >= run[c].at + TTL
          BY <1>1
        <5> QED
          BY <3>1, <3>2, <4>1, <5>1, <5>2 DEF Standing, SameTag
      <4>5. row.id = run[c].id
        BY <4>1 DEF Standing
      <4> QED
        BY <4>2, <4>3, <4>4, <4>5 DEF Stored
    <3> QED
      BY <2>4, <3>1, <3>2, <3>3 DEF Kept
  <2> QED
    BY <1>7, <2>5, <2>6, <2>7, <2>8 DEF RequestStep
<1>8. CASE DeleteExpired
  <2>1. UNCHANGED <<now, run, effects>> /\ Owners' = Owners /\ row.expires <= now
    BY <1>8 DEF DeleteExpired, Owners
  <2>2. \A d \in effects : ~InForce(d)
    <3>1. ASSUME NEW d \in effects, InForce(d) PROVE FALSE
      <4>1. row.expires >= run[d].at + TTL /\ now < run[d].at + TTL /\ d \in Clients
        BY <1>1, <1>3, <3>1 DEF Standing, InForce
      <4> QED
        BY <1>1, <2>1, <4>1
    <3> QED
      BY <3>1
  <2>3. \A d \in effects : InForce(d)' => InForce(d)
    BY <2>1 DEF InForce, ReclaimedFresh
  <2>4. \A d, e \in Clients : Separate(d, e)' <=> Separate(d, e)
    BY <2>1 DEF Separate, Apart, ReclaimedFresh
  <2> QED
    BY <1>1, <1>3, <2>1, <2>2, <2>3, <2>4 DEF Kept
<1>9. CASE Tick \/ UNCHANGED vars
  <2>1. UNCHANGED <<run, effects, row>> /\ Owners' = Owners /\ now' \in Nat /\ now <= now'
    BY <1>1, <1>9 DEF Tick, Owners, vars
  <2>2. ASSUME NEW d \in effects, InForce(d)' PROVE InForce(d)
    <3>1. now' < run[d].at + TTL /\ run[d].at + TTL \in Nat
      BY <1>1, <2>1, <2>2 DEF InForce
    <3>2. now < run[d].at + TTL
      BY <1>1, <2>1, <3>1
    <3> QED
      BY <2>1, <2>2, <3>2 DEF InForce, ReclaimedFresh
  <2>3. \A d, e \in Clients : Separate(d, e)' <=> Separate(d, e)
    BY <2>1 DEF Separate, Apart, ReclaimedFresh
  <2>4. \A d \in effects : Standing(d) => Standing(d)'
    BY <2>1 DEF Standing
  <2> QED
    BY <1>1, <1>3, <2>1, <2>2, <2>3, <2>4 DEF Kept
<1>10. CASE \E c \in Clients : (Continue(c) \/ Crash(c)) /\ UNCHANGED now
  <2>1. PICK c \in Clients : (Continue(c) \/ Crash(c)) /\ UNCHANGED now
    BY <1>10
  <2>2. RequestStep(c)
    BY <1>3, <2>1, RequestFacts DEF Progress
  <2> QED
    BY <1>7, <2>1, <2>2
<1> QED
  BY <1>8, <1>9, <1>10 DEF Next

LEMMA RequestsInvariant == Spec => [](TypeOK /\ Progressing /\ Kept)
<1>1. Init => TypeOK /\ Recorded /\ Owned /\ Progressing /\ Kept
  BY InitType, RecordedInit, OwnedInit, ProgressInit, KeptInit
<1>2. TypeOK /\ Recorded /\ Owned /\ Progressing /\ Kept /\ [Next]_vars =>
        TypeOK' /\ Recorded' /\ Owned' /\ Progressing' /\ Kept'
  BY NextType, RecordedStep, OwnedStep, ProgressStep, KeptStep
<1> QED
  BY <1>1, <1>2, PTL DEF Spec

(* Two executions of one key that took effect are a TTL apart, unless the      *)
(* record was reclaimed as expired although one of them had just made it      *)
(* fresh, or a call took longer than its record lived.                        *)
THEOREM EffectsStayApart == Spec => []EffectsApart
<1>1. TypeOK /\ Progressing /\ Kept => EffectsApart
  <2> SUFFICES ASSUME TypeOK, Progressing, Kept PROVE EffectsApart
    OBVIOUS
  <2>1. CASE kind = "system"
    BY <2>1 DEF Progressing, EffectsApart
  <2>2. CASE kind = "request"
    BY <2>2 DEF Kept, Separate, EffectsApart
  <2> QED
    BY <2>1, <2>2, TypeParts, IdempotencyAssumption
<1> QED
  BY <1>1, RequestsInvariant, PTL

(* Once a request was told that it succeeded, the record says so until it      *)
(* expires, unless it is reclaimed as expired before.                          *)
THEOREM SuccessIsOnRecord == Spec => []SuccessStands
<1>1. TypeOK /\ Progressing /\ Kept => SuccessStands
  BY DEF Progressing, Progress, Kept, InForce, Standing, SuccessStands
<1> QED
  BY <1>1, RequestsInvariant, PTL
=============================================================================
