------------------------------- MODULE AuditLog -------------------------------
(***************************************************************************)
(* The audit log: append of storage/postgres/audit_repository.py, run by   *)
(* every mutating tool and every rumination pass, and verify_chain of      *)
(* audit/chain.py.                                                         *)
(*                                                                         *)
(* An append is one READ COMMITTED transaction: it takes the advisory lock *)
(* of its namespace, reads the tail and inserts the next row.  The lock is *)
(* keyed by hashtext(namespace), a 32-bit hash, so namespaces may share    *)
(* one.                                                                    *)
(*                                                                         *)
(* Simplifications: an event stands for actor, action, target and payload; *)
(* SHA-256 has no collisions (a hash is the tuple of what was hashed) and  *)
(* the JSON body is the same before and after its trip through JSONB.      *)
(***************************************************************************)
EXTENDS Integers, FiniteSets

CONSTANTS
    Namespaces,
    Slots, Slot,   \* namespace |-> the advisory lock it hashes to
    Appenders,     \* concurrent calls of append
    Events,
    Instants,      \* the readings of the clock
    MaxAppends,    \* bound: calls of append
    None           \* no lock owner, no tail, no request

ASSUME AuditAssumption ==
    /\ Slot \in [Namespaces -> Slots]
    /\ Instants \subseteq Nat /\ 0 \in Instants
    /\ MaxAppends \in Nat
    /\ None \notin Appenders

VARIABLES
    entries,   \* rows of audit_log
    lock,      \* slot |-> the transaction holding that advisory lock
    pc,        \* appender |-> idle, lock, tail or insert
    request,   \* appender |-> namespace, event and created_at it appends
    link,      \* appender |-> seq and prev_hash it got from the tail
    clock,
    appends    \* calls of append so far

vars == <<entries, lock, pc, request, link, clock, appends>>

-----------------------------------------------------------------------------
(* Hash chain *)

(* Zeros, the hash of nothing. *)
GenesisHash == <<>>

ComputeHash(prev, namespace, seq, event, createdAt) ==
    <<prev, namespace, seq, event, createdAt>>

Rows(ns) == {e \in entries : e.namespace = ns}

(* ORDER BY seq DESC LIMIT 1 *)
IsTail(t, ns) == t \in Rows(ns) /\ \A e \in Rows(ns) : e.seq <= t.seq

(* verify_chain finds nothing wrong with entry e: its number and link      *)
(* continue the row before it and its hash is that of its contents.        *)
Sound(e) ==
    LET before == {f \in Rows(e.namespace) : f.seq < e.seq}
    IN  /\ IF before = {}
           THEN e.seq = 1 /\ e.prev = GenesisHash
           ELSE \E f \in before : f.seq = e.seq - 1 /\ e.prev = f.hash
        /\ e.hash = ComputeHash(e.prev, e.namespace, e.seq, e.event, e.createdAt)

VerifyChain(ns) == \A e \in Rows(ns) : Sound(e)

-----------------------------------------------------------------------------

Init ==
    /\ entries = {}
    /\ lock = [s \in Slots |-> None]
    /\ pc = [p \in Appenders |-> "idle"]
    /\ request = [p \in Appenders |-> None]
    /\ link = [p \in Appenders |-> None]
    /\ clock = 0
    /\ appends = 0

(* created_at is read before the transaction begins. *)
BeginAppend(p) ==
    /\ pc[p] = "idle"
    /\ appends < MaxAppends
    /\ \E ns \in Namespaces, event \in Events :
          request' = [request EXCEPT ![p] =
              [namespace |-> ns, event |-> event, createdAt |-> clock]]
    /\ appends' = appends + 1
    /\ pc' = [pc EXCEPT ![p] = "lock"]
    /\ UNCHANGED <<entries, lock, link, clock>>

(* Mutant: no advisory lock. *)
EnterUnlocked(p) ==
    /\ pc[p] = "lock"
    /\ pc' = [pc EXCEPT ![p] = "tail"]
    /\ UNCHANGED <<entries, lock, request, link, clock, appends>>

(* pg_advisory_xact_lock(hashtext(namespace)) *)
AcquireLock(p) ==
    LET s == Slot[request[p].namespace]
    IN  /\ pc[p] = "lock"
        /\ lock[s] = None
        /\ lock' = [lock EXCEPT ![s] = p]
        /\ pc' = [pc EXCEPT ![p] = "tail"]
        /\ UNCHANGED <<entries, request, link, clock, appends>>

(* Mutant: the first entry has number 0. *)
FirstLinkFromZero == [seq |-> 0, prev |-> GenesisHash]

(* Number and link of a namespace's first entry, and of one that follows t. *)
FirstLink == [seq |-> 1, prev |-> GenesisHash]

LinkAfter(t) == [seq |-> t.seq + 1, prev |-> t.hash]

(* Mutant: the tail of the table, whatever its namespace. *)
ReadTailOfAll(p) ==
    /\ pc[p] = "tail"
    /\ \/ /\ entries = {}
          /\ link' = [link EXCEPT ![p] = FirstLink]
       \/ \E t \in entries :
             /\ \A e \in entries : e.seq <= t.seq
             /\ link' = [link EXCEPT ![p] = LinkAfter(t)]
    /\ pc' = [pc EXCEPT ![p] = "insert"]
    /\ UNCHANGED <<entries, lock, request, clock, appends>>

ReadTail(p) ==
    /\ pc[p] = "tail"
    /\ \/ /\ Rows(request[p].namespace) = {}
          /\ link' = [link EXCEPT ![p] = FirstLink]
       \/ \E t \in entries :
             /\ IsTail(t, request[p].namespace)
             /\ link' = [link EXCEPT ![p] = LinkAfter(t)]
    /\ pc' = [pc EXCEPT ![p] = "insert"]
    /\ UNCHANGED <<entries, lock, request, clock, appends>>

NewEntry(p) ==
    LET r == request[p]
        l == link[p]
    IN  [namespace |-> r.namespace, seq |-> l.seq, event |-> r.event,
         createdAt |-> r.createdAt, prev |-> l.prev,
         hash |-> ComputeHash(l.prev, r.namespace, l.seq, r.event, r.createdAt)]

(* Commit or rollback: the transaction's advisory lock goes with it. *)
EndAppend(p) ==
    /\ lock' = [s \in Slots |-> IF lock[s] = p THEN None ELSE lock[s]]
    /\ pc' = [pc EXCEPT ![p] = "idle"]
    /\ request' = [request EXCEPT ![p] = None]
    /\ link' = [link EXCEPT ![p] = None]
    /\ UNCHANGED <<clock, appends>>

(* INSERT and COMMIT.  (namespace, seq) is the primary key: a row that is  *)
(* there already would make the append fail.                               *)
InsertEntry(p) ==
    /\ pc[p] = "insert"
    /\ \A e \in Rows(request[p].namespace) : e.seq # link[p].seq
    /\ entries' = entries \cup {NewEntry(p)}
    /\ EndAppend(p)

(* Mutant: a lock of the session, which a rollback does not release. *)
FailKeepingLock(p) ==
    /\ pc[p] # "idle"
    /\ pc' = [pc EXCEPT ![p] = "idle"]
    /\ request' = [request EXCEPT ![p] = None]
    /\ link' = [link EXCEPT ![p] = None]
    /\ UNCHANGED <<entries, lock, clock, appends>>

(* StorageError, a lost connection or a crash. *)
AppendFails(p) ==
    /\ pc[p] # "idle"
    /\ EndAppend(p)
    /\ UNCHANGED entries

Tick ==
    /\ \E t \in Instants : t > clock /\ clock' = t
    /\ UNCHANGED <<entries, lock, pc, request, link, appends>>

AppendStep(p) == AcquireLock(p) \/ ReadTail(p) \/ InsertEntry(p)

Next ==
    \/ \E p \in Appenders : BeginAppend(p) \/ AppendStep(p) \/ AppendFails(p)
    \/ Tick

Spec == Init /\ [][Next]_vars

(* A transaction under way goes on, and one waiting for an advisory lock   *)
(* that is free again and again gets it (Postgres queues the waiters).     *)
Fairness == \A p \in Appenders : SF_vars(AppendStep(p))

FairSpec == Spec /\ Fairness

-----------------------------------------------------------------------------
(* Properties *)

Requests == [namespace : Namespaces, event : Events, createdAt : Instants]

(* Type invariant. *)
TypeOK ==
    /\ \A e \in entries :
          /\ e.namespace \in Namespaces /\ e.seq \in Nat \ {0}
          /\ e.event \in Events /\ e.createdAt \in Instants
    /\ lock \in [Slots -> Appenders \cup {None}]
    /\ pc \in [Appenders -> {"idle", "lock", "tail", "insert"}]
    /\ request \in [Appenders -> Requests \cup {None}]
    /\ DOMAIN link = Appenders
    /\ \A p \in Appenders :
          /\ pc[p] # "idle" => request[p] \in Requests
          /\ pc[p] = "insert" => link[p].seq \in Nat \ {0}
    /\ clock \in Instants
    /\ appends \in Nat

(* verify_audit never reports a log that only append wrote, at any moment  *)
(* it may be asked: numbers are consecutive from 1, every entry commits to *)
(* the one before it, whichever calls overlapped or failed half-way.       *)
ChainVerifies == \A ns \in Namespaces : VerifyChain(ns)

(* The number an append is about to use is free, so the primary key never  *)
(* makes it fail: the tail it read is still the tail.  What the advisory   *)
(* lock is for.                                                            *)
AppendNeverCollides ==
    \A p \in Appenders : pc[p] = "insert" =>
        \A e \in Rows(request[p].namespace) : e.seq < link[p].seq

(* The rows of a namespace, read in the order of seq, are an append-only   *)
(* log of its events.                                                      *)
Recorded ==
    [ns \in Namespaces |->
        [i \in {e.seq : e \in Rows(ns)} |-> (CHOOSE e \in Rows(ns) : e.seq = i).event]]

Log == INSTANCE AppendOnlyLog WITH log <- Recorded

LogIsAppendOnly == Log!Spec

(* Every append comes to its end, whatever fails meanwhile. *)
AppendsEnd == \A p \in Appenders : pc[p] # "idle" ~> pc[p] = "idle"

=============================================================================
