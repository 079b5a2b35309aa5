-------------------------- MODULE MemoryStore_proofs --------------------------
(***************************************************************************)
(* Proofs about the memory store, for any number of callers, memories,     *)
(* namespaces and keys, however often connections are lost: types, that    *)
(* retries agree, that accesses are counted, and that the table implements *)
(* the dictionary of InMemoryStore.                                        *)
(***************************************************************************)
EXTENDS MemoryStore, TLAPS

Edits == [id : MemoryIds, content : Contents]
Forgets == [id : MemoryIds, reason : Reasons, live : BOOLEAN]

(* The types of all variables. *)
TypesKept ==
    /\ memories \in [DOMAIN memories -> MemoryRecord] /\ DOMAIN memories \subseteq MemoryIds
    /\ locks \in [MemoryIds -> Callers \cup {Null}]
    /\ pc \in [Callers -> Steps]
    /\ DOMAIN call = Callers
    /\ hits \in [Callers -> SUBSET DOMAIN memories]
    /\ held \in [Callers -> SUBSET MemoryIds]
    /\ tracked \in [MemoryIds -> Nat] /\ calls \in Nat /\ faults \in Nat

(* What a call carries by the statement it is at. *)
CallsReady ==
    \A c \in Callers :
        /\ pc[c] \in {"insert", "existing", "answer", "failed"} => call[c] \in Requests
        /\ pc[c] = "update" => call[c] \in Edits
        /\ pc[c] \in {"find", "delete"} => call[c] \in Forgets
        /\ pc[c] \in {"update", "find", "delete"} => call[c].id \in DOMAIN memories

(* A row lock is that of an UPDATE under way; a row that is locked to be   *)
(* counted lives.                                                          *)
LocksHeld ==
    /\ \A c \in Callers : /\ held[c] = {i \in MemoryIds : locks[i] = c}
                          /\ pc[c] \notin {"access", "mark"} => held[c] = {}
    /\ \A i \in MemoryIds : locks[i] # Null =>
          i \in DOMAIN memories /\ (pc[locks[i]] = "access" => ~memories[i].deleted)

IInv == TypesKept /\ CallsReady /\ LocksHeld

(* What one step does to the table and to the count of its accesses.       *)
Insertion == \E i \in MemoryIds \ DOMAIN memories, m \in Requests :
    /\ Holders(memories, m.ns, m.idem) = {}
    /\ memories' = Inserted(memories, i, m)

Edition == \E i \in DOMAIN memories, content \in Contents :
    memories' = [memories EXCEPT ![i] =
                    IF @.deleted THEN @ ELSE [@ EXCEPT !.content = content]]

Deletion == \E c \in Callers, i \in DOMAIN memories, reason \in Reasons :
    /\ pc[c] = "delete" /\ call[c].id = i /\ call[c].reason = reason
    /\ locks[i] = Null
    /\ memories' = [memories EXCEPT ![i] = [@ EXCEPT !.deleted = TRUE, !.reason = reason]]

Counting == \E ids \in SUBSET Live(memories) :
    /\ memories' = [i \in DOMAIN memories |->
                       IF i \in ids THEN [memories[i] EXCEPT !.accesses = @ + 1] ELSE memories[i]]
    /\ tracked' = [i \in MemoryIds |-> IF i \in ids THEN tracked[i] + 1 ELSE tracked[i]]

Marking == \E ids \in SUBSET DOMAIN memories :
    memories' = [i \in DOMAIN memories |->
                    IF i \in ids THEN [memories[i] EXCEPT !.consolidated = TRUE] ELSE memories[i]]

TableStep ==
    \/ Counting
    \/ UNCHANGED tracked /\ (Insertion \/ Edition \/ Deletion \/ Marking \/ UNCHANGED memories)

(* Rows stay, with the namespace and the key they were inserted with, and  *)
(* deleted if they are; only a row that is not locked is deleted.          *)
RowsStay ==
    /\ memories' \in [DOMAIN memories' -> MemoryRecord] /\ DOMAIN memories' \subseteq MemoryIds
    /\ \A i \in DOMAIN memories :
          /\ i \in DOMAIN memories'
          /\ memories'[i].ns = memories[i].ns /\ memories'[i].idem = memories[i].idem
          /\ memories[i].deleted => memories'[i].deleted
          /\ locks[i] # Null => memories'[i].deleted = memories[i].deleted

(* What an idempotency key was answered with is the one row that has it.   *)
KeyUnique ==
    \A i, j \in DOMAIN memories :
        /\ memories[i].ns = memories[j].ns
        /\ memories[i].idem = memories[j].idem /\ memories[i].idem # Null
        => i = j

AnswersHold ==
    \A c \in Callers : pc[c] = "answer" =>
        \A i \in hits[c] : memories[i].ns = call[c].ns /\ memories[i].idem = call[c].idem

AcksHold ==
    \A a \in acks : /\ a.id \in DOMAIN memories /\ a.idem # Null
                    /\ memories[a.id].ns = a.ns /\ memories[a.id].idem = a.idem

RetryInv == KeyUnique /\ AnswersHold /\ AcksHold

(* No access was counted before the row was there. *)
CountInv == AccessesCounted /\ \A i \in MemoryIds \ DOMAIN memories : tracked[i] = 0

-----------------------------------------------------------------------------
(* The statements *)

LEMMA EditedRows ==
  ASSUME IInv, NEW i \in DOMAIN memories, NEW content
  PROVE  Edited(memories, i, content) =
            [memories EXCEPT ![i] = IF @.deleted THEN @ ELSE [@ EXCEPT !.content = content]]
<1>1. Edited(memories, i, content) =
        [j \in DOMAIN memories |-> IF j = i /\ ~memories[j].deleted
                                   THEN [memories[j] EXCEPT !.content = content]
                                   ELSE memories[j]]
  BY DEF Edited, Changed, Live
<1> QED
  BY <1>1 DEF IInv, TypesKept

LEMMA ForgottenRows ==
  ASSUME IInv, NEW i \in DOMAIN memories, NEW reason
  PROVE  Forgotten(memories, i, reason) =
            [memories EXCEPT ![i] = [@ EXCEPT !.deleted = TRUE, !.reason = reason]]
<1>1. Forgotten(memories, i, reason) =
        [j \in DOMAIN memories |-> IF j = i
                                   THEN [memories[j] EXCEPT !.deleted = TRUE, !.reason = reason]
                                   ELSE memories[j]]
  BY DEF Forgotten, Changed
<1> QED
  BY <1>1 DEF IInv, TypesKept

LEMMA AccessedRows ==
  ASSUME NEW ids \in SUBSET Live(memories)
  PROVE  Accessed(memories, ids) =
            [i \in DOMAIN memories |->
                IF i \in ids THEN [memories[i] EXCEPT !.accesses = @ + 1] ELSE memories[i]]
<1>1. ids \cap Live(memories) = ids
  OBVIOUS
<1> QED
  BY <1>1 DEF Accessed, Changed

LEMMA MarkedRows ==
  ASSUME NEW ids
  PROVE  MarkedConsolidated(memories, ids) =
            [i \in DOMAIN memories |->
                IF i \in ids THEN [memories[i] EXCEPT !.consolidated = TRUE] ELSE memories[i]]
BY DEF MarkedConsolidated, Changed

(* Every step is one of the five changes of the table, or none.            *)
LEMMA StepOnTable ==
  ASSUME IInv, NEW c \in Callers, BeginCall(c) \/ CallStep(c) \/ Retry(c) \/ CallFails(c)
  PROVE  TableStep
<1>1. CASE InsertMemory(c)
  BY <1>1 DEF InsertMemory, Goto, TableStep, Insertion, IInv, CallsReady
<1>2. CASE ApplyUpdate(c)
  <2>1. /\ call[c].id \in DOMAIN memories /\ call[c].content \in Contents
        /\ memories' = Edited(memories, call[c].id, call[c].content) /\ UNCHANGED tracked
    BY <1>2 DEF ApplyUpdate, IInv, CallsReady, Edits
  <2>2. memories' = [memories EXCEPT ![call[c].id] =
                        IF @.deleted THEN @ ELSE [@ EXCEPT !.content = call[c].content]]
    BY <2>1, EditedRows
  <2> QED
    BY <2>1, <2>2 DEF TableStep, Edition
<1>3. CASE DeleteMemory(c)
  <2>1. /\ pc[c] = "delete" /\ call[c].id \in DOMAIN memories /\ call[c].reason \in Reasons
        /\ locks[call[c].id] = Null
        /\ memories' = Forgotten(memories, call[c].id, call[c].reason) /\ UNCHANGED tracked
    BY <1>3 DEF DeleteMemory, IInv, CallsReady, Forgets
  <2>2. memories' = [memories EXCEPT ![call[c].id] =
                        [@ EXCEPT !.deleted = TRUE, !.reason = call[c].reason]]
    BY <2>1, ForgottenRows
  <2> QED
    BY <2>1, <2>2 DEF TableStep, Deletion
<1>4. CASE CommitAccess(c)
  <2>1. held[c] \in SUBSET Live(memories)
    BY <1>4, StoreAssumption DEF CommitAccess, IInv, LocksHeld, Live
  <2>2. /\ memories' = Accessed(memories, held[c])
        /\ tracked' = [i \in MemoryIds |-> IF i \in held[c] THEN tracked[i] + 1 ELSE tracked[i]]
    BY <1>4 DEF CommitAccess
  <2> QED
    BY <2>1, <2>2, AccessedRows DEF TableStep, Counting
<1>5. CASE CommitMark(c)
  <2>1. held[c] \in SUBSET DOMAIN memories
    BY StoreAssumption DEF IInv, LocksHeld
  <2>2. memories' = MarkedConsolidated(memories, held[c]) /\ UNCHANGED tracked
    BY <1>5 DEF CommitMark
  <2> QED
    BY <2>1, <2>2, MarkedRows DEF TableStep, Marking
<1>6. CASE BeginCall(c) \/ Retry(c) \/ CallFails(c)
  BY <1>6 DEF TableStep, BeginCall, BeginRemember, BeginUpdate, BeginForget, BeginRecall,
     BeginSearch, ReadBatch, Begin, Retry, CallFails
<1>7. CASE \/ FindExisting(c) \/ AnswerRemember(c) \/ GiveUp(c) \/ FindForgotten(c)
           \/ ReadMemory(c) \/ ReadHits(c) \/ (\E i \in MemoryIds : LockRow(c, i))
           \/ AbortDeadlocked(c)
  BY <1>7 DEF TableStep, FindExisting, AnswerRemember, GiveUp, FindForgotten, ReadMemory,
     ReadHits, LockRow, AbortDeadlocked
<1> QED
  BY <1>1, <1>2, <1>3, <1>4, <1>5, <1>6, <1>7 DEF CallStep

LEMMA RowCounted ==
  ASSUME NEW row \in MemoryRecord, NEW counted, counted = [row EXCEPT !.accesses = @ + 1]
  PROVE  /\ counted \in MemoryRecord
         /\ counted.ns = row.ns /\ counted.idem = row.idem /\ counted.deleted = row.deleted
BY DEF MemoryRecord

LEMMA RowMarked ==
  ASSUME NEW row \in MemoryRecord, NEW marked, marked = [row EXCEPT !.consolidated = TRUE]
  PROVE  /\ marked \in MemoryRecord
         /\ marked.ns = row.ns /\ marked.idem = row.idem /\ marked.deleted = row.deleted
         /\ marked.accesses = row.accesses
BY DEF MemoryRecord

LEMMA StillDeleted ==
  ASSUME NEW row \in MemoryRecord, row.deleted, NEW reason
  PROVE  [row EXCEPT !.deleted = TRUE, !.reason = reason] = [row EXCEPT !.reason = reason]
<1>1. row.deleted = TRUE
  BY DEF MemoryRecord
<1>2. [row EXCEPT !.deleted = TRUE] = row
  BY <1>1 DEF MemoryRecord
<1> QED
  BY <1>2

LEMMA RowsInPlace ==
  ASSUME IInv, memories' \in [DOMAIN memories -> MemoryRecord],
         \A i \in DOMAIN memories :
            /\ memories'[i].ns = memories[i].ns /\ memories'[i].idem = memories[i].idem
            /\ memories[i].deleted => memories'[i].deleted
            /\ locks[i] # Null => memories'[i].deleted = memories[i].deleted
  PROVE  RowsStay
<1>1. DOMAIN memories' = DOMAIN memories
  OBVIOUS
<1>2. memories' \in [DOMAIN memories' -> MemoryRecord] /\ DOMAIN memories' \subseteq MemoryIds
  BY <1>1 DEF IInv, TypesKept
<1> QED
  BY <1>1, <1>2 DEF RowsStay

LEMMA TableKeepsRows ==
  ASSUME IInv, TableStep
  PROVE  RowsStay
<1>1. CASE Insertion
  <2>1. PICK i \in MemoryIds \ DOMAIN memories, m \in Requests :
           memories' = [j \in DOMAIN memories \cup {i} |-> IF j = i THEN RowFor(m) ELSE memories[j]]
    BY <1>1 DEF Insertion, Inserted
  <2>2. RowFor(m) \in MemoryRecord
    BY StoreAssumption DEF RowFor, NewMemory, MemoryRecord
  <2> QED
    BY <2>1, <2>2 DEF RowsStay, IInv, TypesKept
<1>2. CASE Edition
  BY <1>2 DEF Edition, RowsStay, IInv, TypesKept, MemoryRecord
<1>3. CASE Deletion
  <2>1. PICK i \in DOMAIN memories, reason \in Reasons :
           /\ locks[i] = Null
           /\ memories' = [memories EXCEPT ![i] = [@ EXCEPT !.deleted = TRUE, !.reason = reason]]
    BY <1>3 DEF Deletion
  <2>a. /\ memories'[i] = [memories[i] EXCEPT !.deleted = TRUE, !.reason = reason]
        /\ memories[i] \in MemoryRecord
    BY <2>1 DEF IInv, TypesKept
  <2>2. /\ memories'[i] \in MemoryRecord
        /\ memories'[i].ns = memories[i].ns /\ memories'[i].idem = memories[i].idem
        /\ memories'[i].deleted = TRUE
    BY <2>a DEF MemoryRecord
  <2>3. memories' \in [DOMAIN memories -> MemoryRecord]
    BY <2>1, <2>2 DEF IInv, TypesKept
  <2>4. \A j \in DOMAIN memories \ {i} : memories'[j] = memories[j]
    BY <2>1 DEF IInv, TypesKept
  <2>5. \A j \in DOMAIN memories :
           /\ memories'[j].ns = memories[j].ns /\ memories'[j].idem = memories[j].idem
           /\ memories[j].deleted => memories'[j].deleted
           /\ locks[j] # Null => memories'[j].deleted = memories[j].deleted
    BY <2>1, <2>2, <2>4
  <2> QED
    BY <2>3, <2>5, RowsInPlace
<1>4. CASE Marking
  <2>1. PICK ids \in SUBSET DOMAIN memories : memories' =
           [i \in DOMAIN memories |->
               IF i \in ids THEN [memories[i] EXCEPT !.consolidated = TRUE] ELSE memories[i]]
    BY <1>4 DEF Marking
  <2>2. \A i \in DOMAIN memories :
           /\ memories'[i] \in MemoryRecord
           /\ memories'[i].ns = memories[i].ns /\ memories'[i].idem = memories[i].idem
           /\ memories'[i].deleted = memories[i].deleted
    BY <2>1, RowMarked DEF IInv, TypesKept
  <2>3. memories' \in [DOMAIN memories -> MemoryRecord]
    BY <2>1, <2>2
  <2> QED
    BY <2>2, <2>3, RowsInPlace
<1>5. CASE Counting
  <2>1. PICK ids \in SUBSET Live(memories) : memories' =
           [i \in DOMAIN memories |->
               IF i \in ids THEN [memories[i] EXCEPT !.accesses = @ + 1] ELSE memories[i]]
    BY <1>5 DEF Counting
  <2>2. \A i \in DOMAIN memories :
           /\ memories'[i] \in MemoryRecord
           /\ memories'[i].ns = memories[i].ns /\ memories'[i].idem = memories[i].idem
           /\ memories'[i].deleted = memories[i].deleted
    BY <2>1, RowCounted DEF IInv, TypesKept
  <2>3. memories' \in [DOMAIN memories -> MemoryRecord]
    BY <2>1, <2>2
  <2> QED
    BY <2>2, <2>3, RowsInPlace
<1>6. CASE UNCHANGED memories
  BY <1>6 DEF RowsStay, IInv, TypesKept
<1> QED
  BY <1>1, <1>2, <1>3, <1>4, <1>5, <1>6 DEF TableStep

-----------------------------------------------------------------------------
(* Types *)

(* Nothing is stored, locked or under way. *)
LEMMA TypesAtFirst == Init => IInv
BY RowAssumption, StoreAssumption
   DEF Init, IInv, TypesKept, CallsReady, LocksHeld, Steps

LEMMA LocksKept ==
  ASSUME IInv, RowsStay, NEW c \in Callers, NEW step \in Steps, Goto(c, step),
         UNCHANGED <<locks, held>>, pc[c] \notin {"access", "mark"}
  PROVE  LocksHeld'
<1>1. \A i \in MemoryIds : locks'[i] # Null =>
         i \in DOMAIN memories' /\ (pc'[locks'[i]] = "access" => ~memories'[i].deleted)
  <2> SUFFICES ASSUME NEW i \in MemoryIds, locks[i] # Null
               PROVE  /\ i \in DOMAIN memories'
                      /\ pc'[locks[i]] = "access" => ~memories'[i].deleted
    OBVIOUS
  <2>1. locks[i] \in Callers /\ i \in held[locks[i]] /\ locks[i] # c
    BY DEF IInv, TypesKept, LocksHeld
  <2>2. pc'[locks[i]] = pc[locks[i]]
    BY <2>1 DEF Goto, IInv, TypesKept
  <2> QED
    BY <2>2 DEF IInv, LocksHeld, RowsStay
<1>2. \A d \in Callers : pc'[d] \notin {"access", "mark"} => held'[d] = {}
  BY DEF Goto, IInv, TypesKept, LocksHeld
<1> QED
  BY <1>1, <1>2 DEF LocksHeld, IInv

LEMMA LocksFreed ==
  ASSUME IInv, RowsStay, NEW c \in Callers, EndTransaction(c)
  PROVE  /\ LocksHeld' /\ locks' \in [MemoryIds -> Callers \cup {Null}]
         /\ held' \in [Callers -> SUBSET MemoryIds]
         /\ hits' \in [Callers -> SUBSET DOMAIN memories']
<1>1. /\ locks' = [i \in MemoryIds |-> IF locks[i] = c THEN Null ELSE locks[i]]
      /\ held' = [held EXCEPT ![c] = {}] /\ hits' = [hits EXCEPT ![c] = {}]
      /\ pc' = [pc EXCEPT ![c] = "idle"]
  BY DEF EndTransaction, Return, Goto
<1>2. locks' \in [MemoryIds -> Callers \cup {Null}]
  BY <1>1 DEF IInv, TypesKept
<1>3. held' \in [Callers -> SUBSET MemoryIds] /\ hits' \in [Callers -> SUBSET DOMAIN memories']
  BY <1>1 DEF IInv, TypesKept, RowsStay
<1>4. \A i \in MemoryIds : locks'[i] # Null =>
         i \in DOMAIN memories' /\ (pc'[locks'[i]] = "access" => ~memories'[i].deleted)
  <2> SUFFICES ASSUME NEW i \in MemoryIds, locks'[i] # Null
               PROVE  /\ i \in DOMAIN memories'
                      /\ pc'[locks'[i]] = "access" => ~memories'[i].deleted
    OBVIOUS
  <2>1. locks'[i] = locks[i] /\ locks[i] \in Callers /\ locks[i] # c
    BY <1>1 DEF IInv, TypesKept
  <2>2. pc'[locks[i]] = pc[locks[i]]
    BY <1>1, <2>1 DEF IInv, TypesKept
  <2> QED
    BY <2>1, <2>2 DEF IInv, LocksHeld, RowsStay
<1>5. \A d \in Callers : held'[d] = {i \in MemoryIds : locks'[i] = d}
  BY <1>1, StoreAssumption DEF IInv, TypesKept, LocksHeld
<1>6. \A d \in Callers : pc'[d] \notin {"access", "mark"} => held'[d] = {}
  BY <1>1 DEF IInv, TypesKept, LocksHeld
<1> QED
  BY <1>2, <1>3, <1>4, <1>5, <1>6 DEF LocksHeld

(* A call goes on to a statement for which its request is fit.             *)
LEMMA StepTyped ==
  ASSUME IInv, RowsStay, NEW c \in Callers, NEW step \in Steps, Goto(c, step),
         DOMAIN call' = Callers, \A d \in Callers \ {c} : call'[d] = call[d],
         step \in {"insert", "existing", "answer", "failed"} => call'[c] \in Requests,
         step = "update" => call'[c] \in Edits,
         step \in {"find", "delete"} => call'[c] \in Forgets,
         step \in {"update", "find", "delete"} => call'[c].id \in DOMAIN memories,
         hits' \in [Callers -> SUBSET DOMAIN memories'],
         locks' \in [MemoryIds -> Callers \cup {Null}],
         held' \in [Callers -> SUBSET MemoryIds], LocksHeld',
         tracked' \in [MemoryIds -> Nat], calls' \in Nat, faults' \in Nat
  PROVE  IInv'
<1>1. pc' \in [Callers -> Steps] /\ pc'[c] = step /\ \A d \in Callers \ {c} : pc'[d] = pc[d]
  BY DEF Goto, IInv, TypesKept
<1>2. TypesKept'
  BY <1>1 DEF TypesKept, RowsStay
<1>3. CallsReady'
  <2>1. \A i \in DOMAIN memories : i \in DOMAIN memories'
    BY DEF RowsStay
  <2>2. ASSUME NEW d \in Callers \ {c}
        PROVE  /\ pc'[d] \in {"insert", "existing", "answer", "failed"} => call'[d] \in Requests
               /\ pc'[d] = "update" => call'[d] \in Edits
               /\ pc'[d] \in {"find", "delete"} => call'[d] \in Forgets
               /\ pc'[d] \in {"update", "find", "delete"} => call'[d].id \in DOMAIN memories'
    BY <1>1, <2>1 DEF IInv, CallsReady
  <2> QED
    BY <1>1, <2>1, <2>2 DEF CallsReady
<1> QED
  BY <1>2, <1>3 DEF IInv

(* A call comes to its end and leaves no lock or hits behind. *)
LEMMA AccessEnded ==
  ASSUME IInv, RowsStay, NEW c \in Callers, EndTransaction(c),
         tracked' \in [MemoryIds -> Nat], faults' \in Nat
  PROVE  IInv'
<1>1. /\ LocksHeld' /\ locks' \in [MemoryIds -> Callers \cup {Null}]
      /\ held' \in [Callers -> SUBSET MemoryIds]
      /\ hits' \in [Callers -> SUBSET DOMAIN memories']
  BY LocksFreed
<1>2. /\ Goto(c, "idle") /\ "idle" \in Steps /\ calls' \in Nat
      /\ DOMAIN call' = Callers /\ \A d \in Callers \ {c} : call'[d] = call[d]
  BY DEF EndTransaction, Return, IInv, TypesKept, Steps
<1> QED
  BY <1>1, <1>2, StepTyped

(* Every step keeps the types. *)
LEMMA TypesNext ==
  ASSUME IInv, NEW c \in Callers, BeginCall(c) \/ CallStep(c) \/ Retry(c) \/ CallFails(c)
  PROVE  IInv'
<1>1. RowsStay
  BY StepOnTable, TableKeepsRows
<1>2. /\ \A i \in DOMAIN memories : i \in DOMAIN memories'
      /\ \A ids \in SUBSET DOMAIN memories : ids \in SUBSET DOMAIN memories'
      /\ hits \in [Callers -> SUBSET DOMAIN memories']
      /\ \A ids \in SUBSET DOMAIN memories' :
            [hits EXCEPT ![c] = ids] \in [Callers -> SUBSET DOMAIN memories']
  BY <1>1 DEF RowsStay, IInv, TypesKept
<1> DEFINE Same == UNCHANGED <<locks, held, tracked, faults>>
<1>3. CASE BeginRemember(c) \/ BeginUpdate(c) \/ BeginForget(c)
  <2> DEFINE Fit(step, request) ==
                /\ Begin(c, step, request)
                /\ step = "insert" => request \in Requests
                /\ step = "update" => request \in Edits /\ request.id \in DOMAIN memories
                /\ step = "find" => request \in Forgets /\ request.id \in DOMAIN memories
  <2>a. BeginRemember(c) => \E request : Fit("insert", request)
    BY DEF BeginRemember
  <2>b. ASSUME BeginUpdate(c) PROVE \E request : Fit("update", request)
    <3>1. PICK i \in DOMAIN memories, content \in Contents :
             Begin(c, "update", [id |-> i, content |-> content])
      BY <2>b DEF BeginUpdate
    <3>2. Fit("update", [id |-> i, content |-> content])
      BY <3>1 DEF Edits, IInv, TypesKept
    <3> QED
      BY <3>2
  <2>c. ASSUME BeginForget(c) PROVE \E request : Fit("find", request)
    <3>1. PICK i \in DOMAIN memories, reason \in Reasons :
             Begin(c, "find", [id |-> i, reason |-> reason, live |-> i \in Live(memories)])
      BY <2>c DEF BeginForget
    <3>2. Fit("find", [id |-> i, reason |-> reason, live |-> i \in Live(memories)])
      BY <3>1 DEF Forgets, IInv, TypesKept
    <3> QED
      BY <3>2
  <2>d. PICK step \in {"insert", "update", "find"} : \E request : Fit(step, request)
    BY <1>3, <2>a, <2>b, <2>c
  <2>1. PICK request : Fit(step, request)
    BY <2>d
  <2>2. /\ Goto(c, step) /\ step \in Steps /\ Same /\ UNCHANGED hits /\ calls' \in Nat
        /\ pc[c] \notin {"access", "mark"} /\ call'[c] = request
        /\ DOMAIN call' = Callers /\ \A d \in Callers \ {c} : call'[d] = call[d]
    BY <2>1 DEF Begin, Goto, IInv, TypesKept, Steps
  <2>3. LocksHeld'
    BY <1>1, <2>2, LocksKept
  <2> QED
    BY <1>1, <1>2, <2>1, <2>2, <2>3, StepTyped DEF IInv, TypesKept
<1>4. CASE BeginRecall(c) \/ BeginSearch(c)
  <2>a. PICK step \in {"recall", "search"} : \E request : Begin(c, step, request)
    BY <1>4 DEF BeginRecall, BeginSearch
  <2>1. PICK request : Begin(c, step, request)
    BY <2>a
  <2>2. /\ Goto(c, step) /\ step \in Steps /\ Same /\ UNCHANGED hits /\ calls' \in Nat
        /\ pc[c] \notin {"access", "mark"}
        /\ DOMAIN call' = Callers /\ \A d \in Callers \ {c} : call'[d] = call[d]
    BY <2>1 DEF Begin, Goto, IInv, TypesKept, Steps
  <2>3. LocksHeld'
    BY <1>1, <2>2, LocksKept
  <2> QED
    BY <1>1, <1>2, <2>2, <2>3, StepTyped DEF IInv, TypesKept
<1>5. CASE ReadBatch(c)
  <2>1. PICK ns \in Scopes : hits' = [hits EXCEPT ![c] = Unconsolidated(memories, ns)]
    BY <1>5 DEF ReadBatch
  <2>2. hits' \in [Callers -> SUBSET DOMAIN memories']
    BY <1>2, <2>1 DEF Unconsolidated, LiveIn, Live
  <2>3. /\ Goto(c, "mark") /\ "mark" \in Steps /\ Same /\ UNCHANGED call /\ calls' \in Nat
        /\ pc[c] \notin {"access", "mark"}
    BY <1>5 DEF ReadBatch, Goto, IInv, TypesKept, Steps
  <2>4. LocksHeld'
    BY <1>1, <2>3, LocksKept
  <2> QED
    BY <1>1, <2>2, <2>3, <2>4, StepTyped DEF IInv, TypesKept
<1>6. CASE InsertMemory(c)
  <2>1. hits' \in [Callers -> SUBSET DOMAIN memories']
    BY <1>2, <1>6 DEF InsertMemory, Inserted
  <2>2. PICK step \in {"answer", "existing"} :
           Goto(c, step) /\ pc[c] = "insert" /\ Same /\ UNCHANGED <<call, calls>>
    BY <1>6 DEF InsertMemory
  <2>3. LocksHeld' /\ step \in Steps /\ call'[c] \in Requests
    BY <1>1, <2>2, LocksKept DEF Steps, IInv, CallsReady
  <2> QED
    BY <1>1, <2>1, <2>2, <2>3, StepTyped DEF IInv, TypesKept
<1>7. CASE FindExisting(c)
  <2>1. hits' \in [Callers -> SUBSET DOMAIN memories']
    BY <1>2, <1>7 DEF FindExisting, LiveHolders, Live
  <2>2. PICK step \in {"answer", "failed"} :
           Goto(c, step) /\ pc[c] = "existing" /\ Same /\ UNCHANGED <<call, calls>>
    BY <1>7 DEF FindExisting
  <2>3. LocksHeld' /\ step \in Steps /\ call'[c] \in Requests
    BY <1>1, <2>2, LocksKept DEF Steps, IInv, CallsReady
  <2> QED
    BY <1>1, <2>1, <2>2, <2>3, StepTyped DEF IInv, TypesKept
<1>8. ASSUME pc[c] \notin {"access", "mark"}, Return(c), Same, UNCHANGED calls,
             hits' = [hits EXCEPT ![c] = {}] \/ UNCHANGED hits
      PROVE  IInv'
  <2>1. /\ Goto(c, "idle") /\ "idle" \in Steps /\ DOMAIN call' = Callers
        /\ \A d \in Callers \ {c} : call'[d] = call[d]
    BY <1>8 DEF Return, IInv, TypesKept, Steps
  <2>2. LocksHeld' /\ hits' \in [Callers -> SUBSET DOMAIN memories']
    BY <1>1, <1>2, <1>8, <2>1, LocksKept
  <2> QED
    BY <1>1, <1>8, <2>1, <2>2, StepTyped DEF IInv, TypesKept
<1>9. CASE AnswerRemember(c) \/ GiveUp(c) \/ ApplyUpdate(c) \/ DeleteMemory(c)
  BY <1>8, <1>9 DEF AnswerRemember, GiveUp, ApplyUpdate, DeleteMemory
<1>10. CASE Retry(c)
  <2>1. /\ Goto(c, "insert") /\ pc[c] = "failed" /\ Same /\ UNCHANGED <<call, hits>>
        /\ calls' \in Nat /\ "insert" \in Steps /\ call'[c] \in Requests
    BY <1>10 DEF Retry, IInv, TypesKept, CallsReady, Steps
  <2>2. LocksHeld'
    BY <1>1, <2>1, LocksKept
  <2> QED
    BY <1>1, <1>2, <2>1, <2>2, StepTyped DEF IInv, TypesKept
<1>11. CASE FindForgotten(c)
  <2>1. CASE memories[call[c].id].deleted
    BY <1>8, <1>11, <2>1 DEF FindForgotten
  <2>2. CASE ~memories[call[c].id].deleted
    <3>1. /\ Goto(c, "delete") /\ pc[c] = "find" /\ Same /\ UNCHANGED <<call, hits, calls>>
          /\ "delete" \in Steps /\ call'[c] \in Forgets /\ call'[c].id \in DOMAIN memories
      BY <1>11, <2>2 DEF FindForgotten, IInv, CallsReady, Steps
    <3>2. LocksHeld'
      BY <1>1, <3>1, LocksKept
    <3> QED
      BY <1>1, <1>2, <3>1, <3>2, StepTyped DEF IInv, TypesKept
  <2> QED
    BY <2>1, <2>2
<1>12. CASE ReadMemory(c) \/ ReadHits(c)
  <2>1. CASE Return(c) /\ UNCHANGED hits
    BY <1>8, <1>12, <2>1 DEF ReadMemory, ReadHits
  <2>2. CASE Goto(c, "access") /\ UNCHANGED call
    <3>1. PICK ids \in SUBSET DOMAIN memories : hits' = [hits EXCEPT ![c] = ids] \/ UNCHANGED hits
      BY <1>12, <2>2 DEF ReadMemory, ReadHits, Candidates, SearchText, SearchSemantic,
         SearchHybrid, Best, kSubset, LiveIn, Live
    <3>2. LocksHeld' /\ Same /\ UNCHANGED calls /\ "access" \in Steps
      BY <1>1, <1>12, <2>2, LocksKept DEF ReadMemory, ReadHits, Steps
    <3>3. hits' \in [Callers -> SUBSET DOMAIN memories']
      BY <1>2, <3>1
    <3>4. /\ DOMAIN call' = Callers /\ tracked' \in [MemoryIds -> Nat]
          /\ calls' \in Nat /\ faults' \in Nat
          /\ locks' \in [MemoryIds -> Callers \cup {Null}] /\ held' \in [Callers -> SUBSET MemoryIds]
      BY <2>2, <3>2 DEF IInv, TypesKept
    <3> QED
      BY <1>1, <2>2, <3>2, <3>3, <3>4, StepTyped
  <2> QED
    BY <1>12, <2>1, <2>2 DEF ReadMemory, ReadHits
<1>13. CASE \E i \in MemoryIds : LockRow(c, i)
  <2>1. PICK i \in MemoryIds : LockRow(c, i)
    BY <1>13
  <2>2. /\ pc[c] \in {"access", "mark"} /\ locks[i] = Null /\ UNCHANGED <<memories, pc, call>>
        /\ i \in DOMAIN memories
        /\ hits' = [hits EXCEPT ![c] = @ \ {i}] /\ UNCHANGED <<tracked, calls, faults>>
        /\ \/ UNCHANGED <<locks, held>>
           \/ /\ pc[c] = "mark" \/ ~memories[i].deleted
              /\ locks' = [locks EXCEPT ![i] = c] /\ held' = [held EXCEPT ![c] = @ \cup {i}]
    BY <2>1 DEF LockRow, Live, IInv, TypesKept
  <2>3. hits' \in [Callers -> SUBSET DOMAIN memories']
    BY <2>2 DEF IInv, TypesKept
  <2>4. /\ locks' \in [MemoryIds -> Callers \cup {Null}]
        /\ held' \in [Callers -> SUBSET MemoryIds]
    BY <2>2 DEF IInv, TypesKept
  <2>5. \A d \in Callers : held'[d] = {j \in MemoryIds : locks'[j] = d}
    BY <2>2, StoreAssumption DEF IInv, TypesKept, LocksHeld
  <2>6. \A j \in MemoryIds : locks'[j] # Null =>
           j \in DOMAIN memories' /\ (pc'[locks'[j]] = "access" => ~memories'[j].deleted)
    BY <2>2 DEF IInv, TypesKept, LocksHeld
  <2>7. \A d \in Callers : pc'[d] \notin {"access", "mark"} => held'[d] = {}
    BY <2>2 DEF IInv, TypesKept, LocksHeld
  <2>8. LocksHeld'
    BY <2>5, <2>6, <2>7 DEF LocksHeld
  <2>9. CallsReady'
    BY <2>2 DEF IInv, CallsReady
  <2> QED
    BY <2>2, <2>3, <2>4, <2>8, <2>9 DEF IInv, TypesKept
<1>14. CASE CommitAccess(c)
  <2>1. tracked' \in [MemoryIds -> Nat] /\ faults' \in Nat /\ EndTransaction(c)
    BY <1>14 DEF CommitAccess, IInv, TypesKept
  <2> QED
    BY <1>1, <2>1, AccessEnded
<1>15. CASE CommitMark(c) \/ AbortDeadlocked(c)
  <2>1. tracked' \in [MemoryIds -> Nat] /\ faults' \in Nat /\ EndTransaction(c)
    BY <1>15 DEF CommitMark, AbortDeadlocked, IInv, TypesKept
  <2> QED
    BY <1>1, <2>1, AccessEnded
<1>16. CASE CallFails(c)
  <2>1. tracked' \in [MemoryIds -> Nat] /\ faults' \in Nat
    BY <1>16 DEF CallFails, IInv, TypesKept
  <2>2. CASE pc[c] \in {"insert", "existing", "answer"}
    <3>1. /\ Goto(c, "failed") /\ "failed" \in Steps /\ UNCHANGED <<locks, call, held, calls>>
          /\ hits' = [hits EXCEPT ![c] = {}] /\ call'[c] \in Requests
      BY <1>16, <2>2 DEF CallFails, IInv, CallsReady, Steps
    <3>2. LocksHeld' /\ hits' \in [Callers -> SUBSET DOMAIN memories']
      BY <1>1, <1>2, <2>2, <3>1, LocksKept
    <3> QED
      BY <1>1, <2>1, <3>1, <3>2, StepTyped DEF IInv, TypesKept
  <2>3. CASE pc[c] \notin {"insert", "existing", "answer"}
    BY <1>1, <1>16, <2>1, <2>3, AccessEnded DEF CallFails
  <2> QED
    BY <2>2, <2>3
<1> QED
  BY <1>3, <1>4, <1>5, <1>6, <1>7, <1>9, <1>10, <1>11, <1>12, <1>13, <1>14, <1>15, <1>16
     DEF BeginCall, CallStep

(* What the invariant says is more than the types. *)
LEMMA TypesFollow == IInv => TypeOK
BY DEF IInv, TypesKept, CallsReady, LocksHeld, TypeOK

(* Idle steps change nothing. *)
LEMMA TypesStutter == IInv /\ UNCHANGED vars => IInv'
BY DEF vars, IInv, TypesKept, CallsReady, LocksHeld, Live

LEMMA Typed == Spec => []IInv
<1>1. IInv /\ [Next]_vars => IInv'
  BY TypesNext, TypesStutter DEF Next
<1> QED
  BY <1>1, TypesAtFirst, PTL DEF Spec

(* TypeOK: a tool never names a row that is not there, and a row lock is   *)
(* that of an UPDATE under way.                                            *)
THEOREM TypeCorrect == Spec => []TypeOK
BY Typed, TypesFollow, PTL

-----------------------------------------------------------------------------
(* Retries *)

(* The unique index refuses a second row of a key, and no row changes its. *)
LEMMA KeyStaysUnique ==
  ASSUME IInv, KeyUnique, TableStep, RowsStay
  PROVE  KeyUnique'
<1>1. CASE Insertion
  <2>1. PICK i \in MemoryIds \ DOMAIN memories, m \in Requests :
           /\ Holders(memories, m.ns, m.idem) = {}
           /\ memories' = [j \in DOMAIN memories \cup {i} |-> IF j = i THEN RowFor(m) ELSE memories[j]]
    BY <1>1 DEF Insertion, Inserted
  <2>2. /\ DOMAIN memories' = DOMAIN memories \cup {i}
        /\ memories'[i].ns = m.ns /\ memories'[i].idem = m.idem
        /\ \A j \in DOMAIN memories : memories'[j] = memories[j]
    BY <2>1 DEF RowFor
  <2>3. \A j \in DOMAIN memories : ~(m.idem # Null /\ memories[j].ns = m.ns /\ memories[j].idem = m.idem)
    BY <2>1 DEF Holders
  <2> QED
    BY <2>2, <2>3 DEF KeyUnique
<1>2. CASE Edition \/ Deletion \/ Marking \/ Counting \/ UNCHANGED memories
  <2>1. DOMAIN memories' = DOMAIN memories
    BY <1>2 DEF Edition, Deletion, Marking, Counting
  <2> QED
    BY <2>1 DEF KeyUnique, RowsStay
<1> QED
  BY <1>1, <1>2 DEF TableStep

(* A step of one caller leaves the calls of the others alone.              *)
LEMMA OthersStay ==
  ASSUME IInv, NEW c \in Callers, BeginCall(c) \/ CallStep(c) \/ Retry(c) \/ CallFails(c),
         NEW d \in Callers, d # c
  PROVE  pc'[d] = pc[d] /\ call'[d] = call[d] /\ hits'[d] = hits[d]
BY DEF IInv, TypesKept, BeginCall, CallStep, BeginRemember, BeginUpdate, BeginForget,
   BeginRecall, BeginSearch, ReadBatch, Begin, Retry, CallFails, InsertMemory, FindExisting,
   AnswerRemember, GiveUp, ApplyUpdate, FindForgotten, DeleteMemory, ReadMemory, ReadHits,
   LockRow, CommitAccess, AbortDeadlocked, CommitMark, EndTransaction, Return, Goto

(* What the call is about to answer with has its key: the row it inserted, *)
(* or the one that was in its way.                                         *)
LEMMA AnswersStay ==
  ASSUME IInv, IInv', AnswersHold, RowsStay, NEW c \in Callers,
         BeginCall(c) \/ CallStep(c) \/ Retry(c) \/ CallFails(c)
  PROVE  AnswersHold'
<1>1. SUFFICES ASSUME NEW d \in Callers, pc'[d] = "answer", NEW i \in hits'[d]
               PROVE  memories'[i].ns = call'[d].ns /\ memories'[i].idem = call'[d].idem
  BY DEF AnswersHold
<1>2. CASE d # c
  BY <1>1, <1>2, OthersStay DEF AnswersHold, RowsStay, IInv, TypesKept
<1>3. CASE d = c /\ InsertMemory(c)
  <2>1. /\ hits' = [hits EXCEPT ![c] = {i}] /\ UNCHANGED call
        /\ memories' = Inserted(memories, i, call[c])
    BY <1>1, <1>3 DEF InsertMemory, Goto, IInv, TypesKept
  <2> QED
    BY <1>3, <2>1 DEF Inserted, RowFor
<1>4. CASE d = c /\ FindExisting(c)
  <2>1. i \in LiveHolders(memories, call[c].ns, call[c].idem) /\ UNCHANGED <<memories, call>>
    BY <1>1, <1>4 DEF FindExisting, Goto, IInv, TypesKept
  <2> QED
    BY <1>4, <2>1 DEF LiveHolders
<1>5. ASSUME d = c PROVE InsertMemory(c) \/ FindExisting(c)
  <2>1. pc'[c] = "answer" /\ pc \in [Callers -> Steps]
    BY <1>1, <1>5 DEF IInv, TypesKept
  <2>2. ~BeginCall(c) /\ ~Retry(c)
    BY <2>1 DEF BeginCall, BeginRemember, BeginUpdate, BeginForget, BeginRecall, BeginSearch,
       ReadBatch, Begin, Retry, Goto
  <2>3. ~CallFails(c) /\ ~CommitAccess(c) /\ ~CommitMark(c) /\ ~AbortDeadlocked(c)
    BY <2>1 DEF CallFails, CommitAccess, CommitMark, AbortDeadlocked, EndTransaction, Return, Goto
  <2>4. /\ ~AnswerRemember(c) /\ ~GiveUp(c) /\ ~ApplyUpdate(c) /\ ~FindForgotten(c)
        /\ ~DeleteMemory(c)
    BY <2>1 DEF AnswerRemember, GiveUp, ApplyUpdate, FindForgotten, DeleteMemory, Return, Goto
  <2>5. ~ReadMemory(c) /\ ~ReadHits(c) /\ ~\E j \in MemoryIds : LockRow(c, j)
    BY <2>1 DEF ReadMemory, ReadHits, LockRow, Return, Goto
  <2> QED
    BY <2>2, <2>3, <2>4, <2>5 DEF CallStep
<1> QED
  BY <1>1, <1>2, <1>3, <1>4, <1>5

(* An acknowledged memory stays, with the key it was acknowledged for.     *)
LEMMA AcksStay ==
  ASSUME IInv, AnswersHold, AcksHold, RowsStay, NEW c \in Callers,
         BeginCall(c) \/ CallStep(c) \/ Retry(c) \/ CallFails(c)
  PROVE  AcksHold'
<1>1. \A a \in acks : /\ a.id \in DOMAIN memories' /\ a.idem # Null
                      /\ memories'[a.id].ns = a.ns /\ memories'[a.id].idem = a.idem
  BY DEF AcksHold, RowsStay
<1>2. CASE AnswerRemember(c)
  <2>1. ASSUME NEW a \in acks', a \notin acks
        PROVE  /\ a.id \in DOMAIN memories' /\ a.idem # Null
               /\ memories'[a.id].ns = a.ns /\ memories'[a.id].idem = a.idem
    <3>1. PICK i \in hits[c] : a = [ns |-> call[c].ns, idem |-> call[c].idem, id |-> i]
      BY <1>2, <2>1 DEF AnswerRemember
    <3>2. call[c].idem # Null /\ pc[c] = "answer" /\ UNCHANGED memories
      BY <1>2, <2>1 DEF AnswerRemember
    <3>3. a.id = i /\ a.ns = call[c].ns /\ a.idem = call[c].idem
      BY <3>1
    <3> QED
      BY <3>2, <3>3 DEF AnswersHold, IInv, TypesKept
  <2> QED
    BY <1>1, <2>1 DEF AcksHold
<1>3. CASE UNCHANGED acks
  BY <1>1, <1>3 DEF AcksHold
<1>4. AnswerRemember(c) \/ UNCHANGED acks
  BY DEF BeginCall, CallStep, BeginRemember, BeginUpdate, BeginForget,
     BeginRecall, BeginSearch, ReadBatch, Begin, Retry, CallFails, InsertMemory, FindExisting,
     GiveUp, ApplyUpdate, FindForgotten, DeleteMemory, ReadMemory, ReadHits,
     LockRow, CommitAccess, AbortDeadlocked, CommitMark, EndTransaction
<1> QED
  BY <1>2, <1>3, <1>4

(* RetriesAgree: all answers to one idempotency key that name a memory     *)
(* which still lives name the same one.                                    *)
THEOREM AnswersAgree == Spec => []RetriesAgree
<1>1. Init => RetryInv
  BY DEF Init, RetryInv, KeyUnique, AnswersHold, AcksHold
<1>2. IInv /\ IInv' /\ RetryInv /\ [Next]_vars => RetryInv'
  <2>1. ASSUME IInv, IInv', RetryInv, NEW c \in Callers,
               BeginCall(c) \/ CallStep(c) \/ Retry(c) \/ CallFails(c)
        PROVE  RetryInv'
    BY <2>1, StepOnTable, TableKeepsRows, KeyStaysUnique, AnswersStay, AcksStay DEF RetryInv
  <2>2. ASSUME RetryInv, UNCHANGED vars
        PROVE  RetryInv'
    BY <2>2 DEF vars, RetryInv, KeyUnique, AnswersHold, AcksHold
  <2> QED
    BY <2>1, <2>2 DEF Next
<1>3. RetryInv => RetriesAgree
  BY DEF RetryInv, KeyUnique, AcksHold, RetriesAgree
<1> QED
  BY <1>1, <1>2, <1>3, Typed, PTL DEF Spec

-----------------------------------------------------------------------------
(* Accesses *)

LEMMA CountStays ==
  ASSUME IInv, CountInv, TableStep
  PROVE  CountInv'
<1>1. \A i \in DOMAIN memories : memories[i] \in MemoryRecord
  BY DEF IInv, TypesKept
<1>2. CASE Counting
  <2>1. PICK ids \in SUBSET Live(memories) :
           /\ memories' = [i \in DOMAIN memories |->
                 IF i \in ids THEN [memories[i] EXCEPT !.accesses = @ + 1] ELSE memories[i]]
           /\ tracked' = [i \in MemoryIds |-> IF i \in ids THEN tracked[i] + 1 ELSE tracked[i]]
    BY <1>2 DEF Counting
  <2>2. \A i \in ids : memories'[i].accesses = memories[i].accesses + 1
    BY <1>1, <2>1 DEF MemoryRecord, Live
  <2>3. DOMAIN memories' = DOMAIN memories /\ \A i \in DOMAIN memories \ ids : memories'[i] = memories[i]
    BY <2>1
  <2> QED
    BY <2>1, <2>2, <2>3 DEF CountInv, AccessesCounted, Live, IInv, TypesKept
<1>3. CASE Insertion /\ UNCHANGED tracked
  <2>1. PICK i \in MemoryIds \ DOMAIN memories, m \in Requests :
           memories' = [j \in DOMAIN memories \cup {i} |-> IF j = i THEN RowFor(m) ELSE memories[j]]
    BY <1>3 DEF Insertion, Inserted
  <2>2. memories'[i].accesses = 0 /\ tracked[i] = 0
    BY <2>1 DEF RowFor, CountInv
  <2> QED
    BY <1>3, <2>1, <2>2 DEF CountInv, AccessesCounted
<1>4. ASSUME DOMAIN memories' = DOMAIN memories, UNCHANGED tracked,
             \A i \in DOMAIN memories : memories'[i].accesses = memories[i].accesses
      PROVE  CountInv'
  BY <1>4 DEF CountInv, AccessesCounted
<1>5. CASE (Edition \/ UNCHANGED memories) /\ UNCHANGED tracked
  BY <1>1, <1>4, <1>5 DEF Edition, MemoryRecord
<1>6. CASE Deletion /\ UNCHANGED tracked
  <2>1. PICK i \in DOMAIN memories, reason \in Reasons :
           memories' = [memories EXCEPT ![i] = [@ EXCEPT !.deleted = TRUE, !.reason = reason]]
    BY <1>6 DEF Deletion
  <2>2. memories'[i] = [memories[i] EXCEPT !.deleted = TRUE, !.reason = reason]
    BY <2>1 DEF IInv, TypesKept
  <2>3. memories'[i].accesses = memories[i].accesses
    BY <1>1, <2>2 DEF MemoryRecord
  <2> QED
    BY <1>4, <1>6, <2>1, <2>3
<1>7. CASE Marking /\ UNCHANGED tracked
  BY <1>1, <1>4, <1>7, RowMarked DEF Marking
<1> QED
  BY <1>2, <1>3, <1>5, <1>6, <1>7 DEF TableStep

(* AccessesCounted: a row's count is the number of committed trackings     *)
(* that named it, however they overlap, wait and deadlock.                 *)
THEOREM EveryAccessCounts == Spec => []AccessesCounted
<1>1. Init => CountInv
  BY DEF Init, CountInv, AccessesCounted
<1>2. IInv /\ CountInv /\ [Next]_vars => CountInv'
  <2>1. ASSUME IInv, CountInv, Next
        PROVE  CountInv'
    BY <2>1, StepOnTable, CountStays DEF Next
  <2>2. ASSUME CountInv, UNCHANGED vars
        PROVE  CountInv'
    BY <2>2 DEF vars, CountInv, AccessesCounted
  <2> QED
    BY <2>1, <2>2
<1>3. CountInv => AccessesCounted
  BY DEF CountInv
<1> QED
  BY <1>1, <1>2, <1>3, Typed, PTL DEF Spec

-----------------------------------------------------------------------------
(* The dictionary *)

(* A forget that began when the memory was forgotten already writes        *)
(* nothing: it finds it deleted.                                           *)
FoundInv ==
    \A c \in Callers :
        /\ pc[c] = "find" /\ ~call[c].live => memories[call[c].id].deleted
        /\ pc[c] = "delete" => call[c].live

LEMMA FoundStays ==
  ASSUME IInv, FoundInv, RowsStay, NEW c \in Callers,
         BeginCall(c) \/ CallStep(c) \/ Retry(c) \/ CallFails(c)
  PROVE  FoundInv'
<1>1. ASSUME NEW d \in Callers, d # c
      PROVE  /\ pc'[d] = "find" /\ ~call'[d].live => memories'[call'[d].id].deleted
             /\ pc'[d] = "delete" => call'[d].live
  BY <1>1, OthersStay DEF FoundInv, RowsStay, IInv, CallsReady
<1>2. ASSUME pc'[c] = "find" PROVE BeginForget(c)
  <2>1. pc'[c] = "find" /\ pc \in [Callers -> Steps]
    BY <1>2 DEF IInv, TypesKept
  <2>2. BeginCall(c) => BeginForget(c)
    BY <2>1 DEF BeginCall, BeginRemember, BeginUpdate, BeginForget, BeginRecall, BeginSearch,
       ReadBatch, Begin, Goto
  <2>3. ~CallFails(c) /\ ~CommitAccess(c) /\ ~CommitMark(c) /\ ~AbortDeadlocked(c) /\ ~Retry(c)
    BY <2>1 DEF CallFails, CommitAccess, CommitMark, AbortDeadlocked, EndTransaction, Retry,
       Return, Goto
  <2>4. /\ ~AnswerRemember(c) /\ ~GiveUp(c) /\ ~ApplyUpdate(c) /\ ~FindForgotten(c)
        /\ ~DeleteMemory(c) /\ ~InsertMemory(c) /\ ~FindExisting(c)
    BY <2>1 DEF AnswerRemember, GiveUp, ApplyUpdate, FindForgotten, DeleteMemory, InsertMemory,
       FindExisting, Return, Goto
  <2>5. ~ReadMemory(c) /\ ~ReadHits(c) /\ ~\E j \in MemoryIds : LockRow(c, j)
    BY <2>1 DEF ReadMemory, ReadHits, LockRow, Return, Goto
  <2> QED
    BY <2>2, <2>3, <2>4, <2>5 DEF CallStep
<1>3. ASSUME pc'[c] = "delete" PROVE FindForgotten(c) /\ ~memories[call[c].id].deleted
  <2>1. pc'[c] = "delete" /\ pc \in [Callers -> Steps]
    BY <1>3 DEF IInv, TypesKept
  <2>2. ~BeginCall(c) /\ ~Retry(c)
    BY <2>1 DEF BeginCall, BeginRemember, BeginUpdate, BeginForget, BeginRecall, BeginSearch,
       ReadBatch, Begin, Retry, Goto
  <2>3. ~CallFails(c) /\ ~CommitAccess(c) /\ ~CommitMark(c) /\ ~AbortDeadlocked(c)
    BY <2>1 DEF CallFails, CommitAccess, CommitMark, AbortDeadlocked, EndTransaction, Return, Goto
  <2>4. /\ ~AnswerRemember(c) /\ ~GiveUp(c) /\ ~ApplyUpdate(c)
        /\ ~DeleteMemory(c) /\ ~InsertMemory(c) /\ ~FindExisting(c)
    BY <2>1 DEF AnswerRemember, GiveUp, ApplyUpdate, DeleteMemory, InsertMemory, FindExisting,
       Return, Goto
  <2>5. ~ReadMemory(c) /\ ~ReadHits(c) /\ ~\E j \in MemoryIds : LockRow(c, j)
    BY <2>1 DEF ReadMemory, ReadHits, LockRow, Return, Goto
  <2>6. FindForgotten(c)
    BY <2>2, <2>3, <2>4, <2>5 DEF CallStep
  <2> QED
    BY <2>1, <2>6 DEF FindForgotten, Return, Goto
<1>4. CASE pc'[c] = "find"
  <2>1. PICK i \in DOMAIN memories, reason \in Reasons :
           Begin(c, "find", [id |-> i, reason |-> reason, live |-> i \in Live(memories)])
    BY <1>2, <1>4 DEF BeginForget
  <2>2. call'[c] = [id |-> i, reason |-> reason, live |-> i \in Live(memories)]
        /\ UNCHANGED memories
    BY <2>1 DEF Begin, IInv, TypesKept
  <2>3. call'[c].id = i /\ call'[c].live = (i \in Live(memories))
    BY <2>2
  <2>4. ~call'[c].live => memories'[call'[c].id].deleted
    BY <2>1, <2>2, <2>3 DEF Live
  <2> QED
    BY <1>1, <1>4, <2>4 DEF FoundInv
<1>5. CASE pc'[c] = "delete"
  <2>1. call[c].live /\ UNCHANGED call
    BY <1>3, <1>5 DEF FindForgotten, FoundInv
  <2> QED
    BY <1>1, <1>5, <2>1 DEF FoundInv
<1>6. CASE pc'[c] \notin {"find", "delete"}
  BY <1>1, <1>6 DEF FoundInv
<1> QED
  BY <1>4, <1>5, <1>6

(* Every change of the table is one operation of the dictionary, or none,  *)
(* or a forget that overlaps another.                                      *)
LEMMA StepOfDictionary ==
  ASSUME IInv, FoundInv, TableStep, RowsStay
  PROVE  Dictionary!Next \/ (\E c \in Callers : ForgetsAgain(c)) \/ UNCHANGED memories
<1>1. \A i \in DOMAIN memories : memories[i] \in MemoryRecord
  BY DEF IInv, TypesKept
<1>2. CASE Insertion
  <2>1. PICK i \in MemoryIds \ DOMAIN memories, m \in Requests :
           /\ Holders(memories, m.ns, m.idem) = {}
           /\ memories' = [j \in DOMAIN memories \cup {i} |-> IF j = i THEN RowFor(m) ELSE memories[j]]
    BY <1>2 DEF Insertion, Inserted
  <2>2. /\ m.ns \in Scopes /\ m.key \in Keys \cup {Null} /\ m.idem \in Keys \cup {Null}
        /\ m.content \in Contents /\ m.embedded \in BOOLEAN
    BY StoreAssumption DEF NewMemory
  <2>3. RowFor(m) = [ns |-> m.ns, key |-> m.key, idem |-> m.idem, content |-> m.content,
                     embedded |-> m.embedded, deleted |-> FALSE, reason |-> Null,
                     accesses |-> 0, consolidated |-> FALSE]
    BY DEF RowFor
  <2>4. \A j \in DOMAIN memories : Dictionary!Available(j) /\ memories[j].ns = m.ns =>
           m.idem = Null \/ memories[j].idem # m.idem
    BY <2>1 DEF Holders
  <2> DEFINE Creates(ns, key, idem, content, embedded) ==
           /\ \A j \in DOMAIN memories : Dictionary!Available(j) /\ memories[j].ns = ns =>
                 idem = Null \/ memories[j].idem # idem
           /\ memories' = [j \in DOMAIN memories \cup {i} |->
                 IF j = i THEN [ns |-> ns, key |-> key, idem |-> idem, content |-> content,
                                embedded |-> embedded, deleted |-> FALSE, reason |-> Null,
                                accesses |-> 0, consolidated |-> FALSE]
                 ELSE memories[j]]
  <2>5. \E ns \in Scopes, key \in Keys \cup {Null}, idem \in Keys \cup {Null},
            content \in Contents, embedded \in BOOLEAN : Creates(ns, key, idem, content, embedded)
    <3>1. Creates(m.ns, m.key, m.idem, m.content, m.embedded)
      BY <2>1, <2>3, <2>4, Zenon
    <3> HIDE DEF Creates
    <3> QED
      BY <2>2, <3>1
  <2>6. Dictionary!Create(i)
    BY <2>5, Zenon DEF Dictionary!Create
  <2> QED
    BY <2>6 DEF Dictionary!Next
<1>3. CASE Edition
  <2>1. PICK i \in DOMAIN memories, content \in Contents :
           memories' = [memories EXCEPT ![i] =
                           IF @.deleted THEN @ ELSE [@ EXCEPT !.content = content]]
    BY <1>3 DEF Edition
  <2>2. CASE memories[i].deleted
    BY <2>1, <2>2 DEF IInv, TypesKept
  <2>3. CASE ~memories[i].deleted
    <3>1. memories' = [j \in DOMAIN memories |->
                        IF j \in {i} THEN [memories[j] EXCEPT !.content = content] ELSE memories[j]]
      BY <2>1, <2>3 DEF IInv, TypesKept
    <3>2. Dictionary!Update(i)
      BY <2>3, <3>1 DEF Dictionary!Update, Dictionary!Available, Dictionary!Replaced
    <3> QED
      BY <3>2 DEF Dictionary!Next, IInv, TypesKept
  <2> QED
    BY <2>2, <2>3
<1>4. CASE Deletion
  <2>1. PICK c \in Callers, i \in DOMAIN memories, reason \in Reasons :
           /\ pc[c] = "delete" /\ call[c].id = i /\ call[c].reason = reason
           /\ locks[i] = Null
           /\ memories' = [memories EXCEPT ![i] = [@ EXCEPT !.deleted = TRUE, !.reason = reason]]
    BY <1>4 DEF Deletion
  <2>2. CASE memories[i].deleted
    <3>1. [memories[i] EXCEPT !.deleted = TRUE, !.reason = reason] =
             [memories[i] EXCEPT !.reason = reason]
      BY <1>1, <2>2, StillDeleted
    <3>2. memories' = [memories EXCEPT ![i].reason = reason]
      BY <2>1, <3>1 DEF IInv, TypesKept
    <3>3. ForgetsAgain(c)
      BY <2>1, <2>2, <3>2 DEF ForgetsAgain, FoundInv
    <3> QED
      BY <3>3
  <2>3. CASE ~memories[i].deleted
    <3>1. memories' = [j \in DOMAIN memories |->
             IF j \in {i} THEN [memories[j] EXCEPT !.deleted = TRUE, !.reason = reason]
             ELSE memories[j]]
      BY <2>1 DEF IInv, TypesKept
    <3>2. Dictionary!SoftDelete(i)
      BY <2>3, <3>1 DEF Dictionary!SoftDelete, Dictionary!Available, Dictionary!Replaced
    <3> QED
      BY <3>2 DEF Dictionary!Next, IInv, TypesKept
  <2> QED
    BY <2>2, <2>3
<1>5. CASE Counting
  <2>1. PICK ids \in SUBSET Live(memories) :
           memories' = [i \in DOMAIN memories |->
               IF i \in ids THEN [memories[i] EXCEPT !.accesses = @ + 1] ELSE memories[i]]
    BY <1>5 DEF Counting
  <2>2. ids = {i \in ids : Dictionary!Available(i)}
    BY DEF Dictionary!Available, Live
  <2>3. Dictionary!RecordAccess(ids)
    BY <2>1, <2>2 DEF Dictionary!RecordAccess, Dictionary!Replaced
  <2>4. ids \in SUBSET MemoryIds
    BY DEF Live, IInv, TypesKept
  <2> QED
    BY <2>3, <2>4 DEF Dictionary!Next
<1>6. CASE Marking
  <2>1. PICK ids \in SUBSET DOMAIN memories :
           memories' = [i \in DOMAIN memories |->
               IF i \in ids THEN [memories[i] EXCEPT !.consolidated = TRUE] ELSE memories[i]]
    BY <1>6 DEF Marking
  <2>2. Dictionary!MarkConsolidated(ids)
    BY <2>1 DEF Dictionary!MarkConsolidated, Dictionary!Replaced
  <2>3. ids \in SUBSET MemoryIds
    BY DEF IInv, TypesKept
  <2> QED
    BY <2>2, <2>3 DEF Dictionary!Next
<1>7. CASE UNCHANGED memories
  BY <1>7
<1> QED
  BY <1>2, <1>3, <1>4, <1>5, <1>6, <1>7 DEF TableStep

(* ImplementsDictionary: the table is the dictionary the unit tests use,   *)
(* however calls overlap, fail and are repeated, but for a forget that     *)
(* overlaps another, which overwrites when and why.                        *)
THEOREM DictionaryImplemented == Spec => ImplementsDictionary
<1>1. Init => Dictionary!Init /\ FoundInv
  BY DEF Init, Dictionary!Init, FoundInv
<1>2. IInv /\ FoundInv /\ [Next]_vars =>
         FoundInv' /\ [Dictionary!Next \/ \E c \in Callers : ForgetsAgain(c)]_memories
  <2>1. ASSUME IInv, FoundInv, Next
        PROVE  /\ FoundInv'
               /\ Dictionary!Next \/ (\E c \in Callers : ForgetsAgain(c)) \/ UNCHANGED memories
    <3>1. PICK c \in Callers : BeginCall(c) \/ CallStep(c) \/ Retry(c) \/ CallFails(c)
      BY <2>1 DEF Next
    <3>2. TableStep /\ RowsStay
      BY <2>1, <3>1, StepOnTable, TableKeepsRows
    <3> QED
      BY <2>1, <3>1, <3>2, FoundStays, StepOfDictionary
  <2>2. FoundInv /\ UNCHANGED vars => FoundInv' /\ UNCHANGED memories
    BY DEF vars, FoundInv
  <2> QED
    BY <2>1, <2>2
<1> QED
  BY <1>1, <1>2, Typed, PTL DEF Spec, ImplementsDictionary

=============================================================================
