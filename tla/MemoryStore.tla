----------------------------- MODULE MemoryStore -----------------------------
(***************************************************************************)
(* Episodes in Postgres: the tools remember, update, forget, recall and    *)
(* search (integration/mcp/tools) over storage/postgres/repository.py,     *)
(* called concurrently, with failures and retries.                         *)
(*                                                                         *)
(* A statement outside a transaction commits by itself, so remember and    *)
(* forget are two commits.  record_access and mark_consolidated each write *)
(* several rows, which they lock one after the other.  A caller whose      *)
(* remember failed, or whose answer was lost, may repeat it with the same  *)
(* idempotency key.                                                        *)
(* search: the reranking decides which candidates are shown, any choice.   *)
(***************************************************************************)
EXTENDS MemoryRows

CONSTANTS
    Callers,
    Requests,           \* what remember is called with
    Limit, Overfetch,   \* hits shown, and candidates fetched for each of them
    MaxCalls,           \* bound: calls begun
    MaxFaults           \* bound: connections lost

ASSUME StoreAssumption ==
    /\ Requests \subseteq NewMemory
    /\ Limit \in Nat /\ Overfetch \in Nat /\ MaxCalls \in Nat /\ MaxFaults \in Nat
    /\ Null \notin Callers

VARIABLES
    memories,  \* the table
    locks,     \* id |-> caller whose transaction holds the row
    pc,        \* caller |-> the statement it is about to run
    call,      \* caller |-> its request
    hits,      \* caller |-> ids read, whose access or mark is to be recorded
    held,      \* caller |-> ids its transaction has locked
    acks,      \* history: answers of remember with an idempotency key
    tracked,   \* history: id |-> accesses committed
    calls, faults

vars == <<memories, locks, pc, call, hits, held, acks, tracked, calls, faults>>

Init ==
    /\ memories = <<>>
    /\ locks = [i \in MemoryIds |-> Null]
    /\ pc = [c \in Callers |-> "idle"]
    /\ call = [c \in Callers |-> Null]
    /\ hits = [c \in Callers |-> {}]
    /\ held = [c \in Callers |-> {}]
    /\ acks = {}
    /\ tracked = [i \in MemoryIds |-> 0]
    /\ calls = 0 /\ faults = 0

Begin(c, step, request) ==
    /\ pc[c] = "idle"
    /\ calls < MaxCalls
    /\ calls' = calls + 1
    /\ pc' = [pc EXCEPT ![c] = step]
    /\ call' = [call EXCEPT ![c] = request]
    /\ UNCHANGED <<memories, locks, hits, held, acks, tracked, faults>>

Goto(c, step) == pc' = [pc EXCEPT ![c] = step]

Return(c) == Goto(c, "idle") /\ call' = [call EXCEPT ![c] = Null]

-----------------------------------------------------------------------------
(* remember *)

(* Bound: an id is left for every insert under way. *)
Room(c, m) ==
    \/ Holders(memories, m.ns, m.idem) # {}
    \/ LET others == {d \in Callers \ {c} : pc[d] \in {"insert", "failed"}}
       IN  Cardinality(DOMAIN memories) + Cardinality(others) < Cardinality(MemoryIds)

BeginRemember(c) == \E m \in Requests : Room(c, m) /\ Begin(c, "insert", m)

(* INSERT ... ON CONFLICT DO NOTHING; the index makes a second insert wait *)
(* for the first, so the statement is atomic.                              *)
InsertMemory(c) ==
    LET m == call[c]
    IN  /\ pc[c] = "insert"
        /\ IF Holders(memories, m.ns, m.idem) = {}
           THEN \E i \in MemoryIds \ DOMAIN memories :
                   /\ memories' = Inserted(memories, i, m)
                   /\ hits' = [hits EXCEPT ![c] = {i}]
                   /\ Goto(c, "answer")
           ELSE Goto(c, "existing") /\ UNCHANGED <<memories, hits>>
        /\ UNCHANGED <<locks, call, held, acks, tracked, calls, faults>>

(* The SELECT after a conflict, and StorageError when it finds nothing.    *)
FindExisting(c) ==
    LET m == call[c]
        found == LiveHolders(memories, m.ns, m.idem)
    IN  /\ pc[c] = "existing"
        /\ \/ /\ found = {}
              /\ Goto(c, "failed")
              /\ UNCHANGED hits
           \/ /\ hits' = [hits EXCEPT ![c] = found]
              /\ found # {}
              /\ Goto(c, "answer")
        /\ UNCHANGED <<memories, locks, call, held, acks, tracked, calls, faults>>

AnswerRemember(c) ==
    /\ pc[c] = "answer"
    /\ acks' = IF call[c].idem = Null THEN acks
               ELSE acks \cup {[ns |-> call[c].ns, idem |-> call[c].idem, id |-> i] :
                                   i \in hits[c]}
    /\ hits' = [hits EXCEPT ![c] = {}]
    /\ Return(c)
    /\ UNCHANGED <<memories, locks, held, tracked, calls, faults>>

(* The caller of a failed remember tries again, or not. *)
Retry(c) ==
    /\ pc[c] = "failed"
    /\ calls < MaxCalls /\ Room(c, call[c])
    /\ calls' = calls + 1
    /\ Goto(c, "insert")
    /\ UNCHANGED <<memories, locks, call, hits, held, acks, tracked, faults>>

GiveUp(c) ==
    /\ pc[c] = "failed"
    /\ Return(c)
    /\ UNCHANGED <<memories, locks, hits, held, acks, tracked, calls, faults>>

-----------------------------------------------------------------------------
(* update and forget *)

BeginUpdate(c) ==
    \E i \in DOMAIN memories, content \in Contents :
        Begin(c, "update", [id |-> i, content |-> content])

(* UPDATE ... WHERE deleted_at IS NULL; no row is NotFoundError. *)
ApplyUpdate(c) ==
    /\ pc[c] = "update"
    /\ locks[call[c].id] = Null
    /\ memories' = Edited(memories, call[c].id, call[c].content)
    /\ Return(c)
    /\ UNCHANGED <<locks, hits, held, acks, tracked, calls, faults>>

(* Live: history, for ForgetsAgain. *)
BeginForget(c) ==
    \E i \in DOMAIN memories, reason \in Reasons :
        Begin(c, "find", [id |-> i, reason |-> reason, live |-> i \in Live(memories)])

(* Mutant: forget does not look at the row first. *)
FindNothing(c) ==
    /\ pc[c] = "find"
    /\ Goto(c, "delete")
    /\ UNCHANGED <<memories, locks, call, hits, held, acks, tracked, calls, faults>>

(* A row that is deleted already is answered as it is. *)
FindForgotten(c) ==
    /\ pc[c] = "find"
    /\ IF memories[call[c].id].deleted THEN Return(c) ELSE Goto(c, "delete") /\ UNCHANGED call
    /\ UNCHANGED <<memories, locks, hits, held, acks, tracked, calls, faults>>

DeleteMemory(c) ==
    /\ pc[c] = "delete"
    /\ locks[call[c].id] = Null
    /\ memories' = Forgotten(memories, call[c].id, call[c].reason)
    /\ Return(c)
    /\ UNCHANGED <<locks, hits, held, acks, tracked, calls, faults>>

-----------------------------------------------------------------------------
(* recall and search: a read, then best-effort tracking *)

BeginRecall(c) == \E ns \in Scopes, i \in MemoryIds \cup Keys :
    Begin(c, "recall", [ns |-> ns, wanted |-> i])

(* get_by_id, or get_by_key: any live row of the namespace with that key.  *)
ReadMemory(c) ==
    LET q == call[c]
        found == {i \in LiveIn(memories, q.ns) :
                      i = q.wanted \/ memories[i].key = q.wanted}
    IN  /\ pc[c] = "recall"
        /\ \/ /\ found = {}
              /\ Return(c)
              /\ UNCHANGED hits
           \/ /\ \E i \in found : hits' = [hits EXCEPT ![c] = {i}]
              /\ Goto(c, "access")
              /\ UNCHANGED call
        /\ UNCHANGED <<memories, locks, held, acks, tracked, calls, faults>>

BeginSearch(c) ==
    \E ns \in Scopes, mode \in {"text", "semantic", "hybrid"}, embedded, asOf \in BOOLEAN :
        Begin(c, "search", [ns |-> ns, mode |-> mode, embedded |-> embedded, asOf |-> asOf])

(* The candidates, reranked and cut to the limit.  A query about another   *)
(* moment (as_of) leaves no trace.                                         *)
ReadHits(c) ==
    LET q == call[c]
    IN  /\ pc[c] = "search"
        /\ \E found \in Candidates(memories, q.ns, q.mode, q.embedded, Limit * Overfetch) :
           \E shown \in kSubset(Min({Limit, Cardinality(found)}), found) :
              IF shown = {} \/ q.asOf
              THEN Return(c) /\ UNCHANGED hits
              ELSE /\ hits' = [hits EXCEPT ![c] = shown]
                   /\ Goto(c, "access")
                   /\ UNCHANGED call
        /\ UNCHANGED <<memories, locks, held, acks, tracked, calls, faults>>

-----------------------------------------------------------------------------
(* A consolidation pass: the batch is read, and marked later. *)

ReadBatch(c) ==
    \E ns \in Scopes :
        /\ pc[c] = "idle" /\ calls < MaxCalls
        /\ Unconsolidated(memories, ns) # {}
        /\ calls' = calls + 1
        /\ hits' = [hits EXCEPT ![c] = Unconsolidated(memories, ns)]
        /\ Goto(c, "mark")
        /\ UNCHANGED <<memories, locks, call, held, acks, tracked, faults>>

-----------------------------------------------------------------------------
(* The UPDATEs of several rows: record_access and mark_consolidated *)

(* The UPDATE comes to row i and locks it; record_access leaves out a row  *)
(* that was forgotten, mark_consolidated does not.                         *)
LockRow(c, i) ==
    /\ pc[c] \in {"access", "mark"}
    /\ i \in hits[c] /\ locks[i] = Null
    /\ hits' = [hits EXCEPT ![c] = @ \ {i}]
    /\ IF pc[c] = "mark" \/ i \in Live(memories)
       THEN /\ locks' = [locks EXCEPT ![i] = c]
            /\ held' = [held EXCEPT ![c] = @ \cup {i}]
       ELSE UNCHANGED <<locks, held>>
    /\ UNCHANGED <<memories, pc, call, acks, tracked, calls, faults>>

EndTransaction(c) ==
    /\ locks' = [i \in MemoryIds |-> IF locks[i] = c THEN Null ELSE locks[i]]
    /\ hits' = [hits EXCEPT ![c] = {}]
    /\ held' = [held EXCEPT ![c] = {}]
    /\ Return(c)
    /\ UNCHANGED <<acks, calls>>

CommitAccess(c) ==
    /\ pc[c] = "access"
    /\ hits[c] = {}
    /\ memories' = Accessed(memories, held[c])
    /\ tracked' = [i \in MemoryIds |-> IF i \in held[c] THEN tracked[i] + 1 ELSE tracked[i]]
    /\ EndTransaction(c)
    /\ UNCHANGED faults

CommitMark(c) ==
    /\ pc[c] = "mark"
    /\ hits[c] = {}
    /\ memories' = MarkedConsolidated(memories, held[c])
    /\ EndTransaction(c)
    /\ UNCHANGED <<tracked, faults>>

(* Every row it still wants is locked by another caller. *)
Waiting(c) ==
    /\ pc[c] \in {"access", "mark"}
    /\ hits[c] # {} /\ \A i \in hits[c] : locks[i] \notin {c, Null}

(* And one of those waits as well. *)
Deadlocked(c) == Waiting(c) /\ \E i \in hits[c] : Waiting(locks[i])

(* Mutant: the rows are counted outside a transaction. *)
AbortAfterCounting(c) ==
    /\ Deadlocked(c)
    /\ memories' = IF pc[c] = "access" THEN Accessed(memories, held[c]) ELSE memories
    /\ EndTransaction(c)
    /\ UNCHANGED <<tracked, faults>>

(* Mutant: the aborted transaction keeps its locks. *)
AbandonLocks(c) ==
    /\ Deadlocked(c)
    /\ Return(c)
    /\ UNCHANGED <<memories, locks, hits, held, acks, tracked, calls, faults>>

(* The database aborts a transaction of the deadlock.  A recall or search  *)
(* answers all the same, a pass fails.                                     *)
AbortDeadlocked(c) ==
    /\ Deadlocked(c)
    /\ EndTransaction(c)
    /\ UNCHANGED <<memories, tracked, faults>>

-----------------------------------------------------------------------------

(* A lost connection, before or after the statement committed. *)
CallFails(c) ==
    /\ pc[c] \notin {"idle", "failed"}
    /\ faults < MaxFaults
    /\ faults' = faults + 1
    /\ \/ /\ pc[c] \in {"insert", "existing", "answer"}
          /\ Goto(c, "failed")
          /\ hits' = [hits EXCEPT ![c] = {}]
          /\ UNCHANGED <<locks, call, held, acks, calls>>
       \/ /\ pc[c] \notin {"insert", "existing", "answer"}
          /\ EndTransaction(c)
    /\ UNCHANGED <<memories, tracked>>

BeginCall(c) ==
    \/ BeginRemember(c) \/ BeginUpdate(c) \/ BeginForget(c)
    \/ BeginRecall(c) \/ BeginSearch(c) \/ ReadBatch(c)

CallStep(c) ==
    \/ InsertMemory(c) \/ FindExisting(c) \/ AnswerRemember(c) \/ GiveUp(c)
    \/ ApplyUpdate(c) \/ FindForgotten(c) \/ DeleteMemory(c)
    \/ ReadMemory(c) \/ ReadHits(c)
    \/ (\E i \in MemoryIds : LockRow(c, i))
    \/ CommitAccess(c) \/ CommitMark(c) \/ AbortDeadlocked(c)

Next == \E c \in Callers : BeginCall(c) \/ CallStep(c) \/ Retry(c) \/ CallFails(c)

Spec == Init /\ [][Next]_vars

(* A call under way goes on; a row lock that is free again and again is    *)
(* given to a waiter; a deadlock is broken.                                *)
Fairness == \A c \in Callers : SF_vars(CallStep(c))

FairSpec == Spec /\ Fairness

-----------------------------------------------------------------------------
(* Properties *)

Steps == {"idle", "insert", "existing", "answer", "failed", "update", "find",
          "delete", "recall", "search", "access", "mark"}

(* Type invariant; a row lock belongs to an UPDATE of several rows that is *)
(* under way.                                                              *)
TypeOK ==
    /\ DOMAIN memories \subseteq MemoryIds
    /\ \A i \in DOMAIN memories : memories[i] \in MemoryRecord
    /\ locks \in [MemoryIds -> Callers \cup {Null}]
    /\ pc \in [Callers -> Steps]
    /\ \A c \in Callers :
          /\ pc[c] \in {"insert", "existing", "answer", "failed"} => call[c] \in Requests
          /\ pc[c] \in {"update", "find", "delete"} => call[c].id \in DOMAIN memories
          /\ hits[c] \subseteq DOMAIN memories
          /\ held[c] = {i \in MemoryIds : locks[i] = c}
          /\ pc[c] \notin {"access", "mark"} => held[c] = {}
    /\ tracked \in [MemoryIds -> Nat] /\ calls \in Nat /\ faults \in Nat

(* Answers to the same idempotency key name the same memory as long as it  *)
(* is not forgotten, whoever asked and however often the request was       *)
(* repeated after a failure or a lost answer (create).                     *)
RetriesAgree ==
    \A a, b \in acks :
        a.ns = b.ns /\ a.idem = b.idem /\ {a.id, b.id} \subseteq Live(memories) => a.id = b.id

(* access_count is the number of committed trackings that named the row:   *)
(* none is lost to another reader, and a search that is aborted half-way   *)
(* through its rows counts for none of them (record_access).               *)
AccessesCounted == \A i \in DOMAIN memories : memories[i].accesses = tracked[i]

Dictionary == INSTANCE InMemoryStore WITH records <- memories

(* c writes its moment and reason over those of a forget that came first:  *)
(* its own call began while the memory lived.                              *)
ForgetsAgain(c) ==
    /\ pc[c] = "delete" /\ call[c].live /\ memories[call[c].id].deleted
    /\ memories' = [memories EXCEPT ![call[c].id].reason = call[c].reason]

(* The table behaves as the dictionary the tools are tested with, though   *)
(* forget and remember read a row in one statement and write in another: a *)
(* forgotten memory never changes or comes back, and when and why it was   *)
(* forgotten stays as it was (soft_delete), but for one case the           *)
(* dictionary does not have: a forget that overlaps the first one.         *)
ImplementsDictionary ==
    Dictionary!Init /\ [][Dictionary!Next \/ \E c \in Callers : ForgetsAgain(c)]_memories

(* Every call comes to its end, though two searches, or a search and a     *)
(* pass, may lock the same rows in opposite orders.                        *)
CallsEnd == \A c \in Callers : pc[c] # "idle" ~> pc[c] = "idle"

(* create answers a key that no live memory holds by inserting: a remember *)
(* fails only with its connection.                                         *)
RememberAnswers ==
    [][\A c \in Callers : pc[c] # "failed" /\ pc'[c] = "failed" => faults' > faults]_vars

=============================================================================
