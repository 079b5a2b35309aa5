--------------------------- MODULE AuditLog_proofs ---------------------------
(***************************************************************************)
(* For any number of concurrent appends, namespaces and advisory locks:    *)
(* the audit chain always verifies, no append meets a number that is       *)
(* taken, and the table is an append-only log.                             *)
(*                                                                         *)
(* The argument: who is between the lock and the commit owns the advisory  *)
(* lock of its namespace, so between its reading of the tail and its       *)
(* insert nobody else appends to that namespace, and the row it inserts    *)
(* continues the chain.                                                    *)
(***************************************************************************)
EXTENDS AuditLog, Sequences, TLAPS

(* One transaction at a time appends to a namespace. *)
Exclusive ==
  \A p \in Appenders : pc[p] \in {"tail", "insert"} => lock[Slot[request[p].namespace]] = p

(* What p got from the tail is what the tail is. *)
LinkCurrent(p) ==
  \/ Rows(request[p].namespace) = {} /\ link[p] = FirstLink
  \/ \E t \in entries : IsTail(t, request[p].namespace) /\ link[p] = LinkAfter(t)

LinksCurrent == \A p \in Appenders : pc[p] = "insert" => LinkCurrent(p)

(* The primary key: one row for each number of a namespace. *)
KeyUnique ==
  \A e, f \in entries : e.namespace = f.namespace /\ e.seq = f.seq => e = f

ChainInv == Exclusive /\ LinksCurrent /\ KeyUnique /\ ChainVerifies

LEMMA LinkIsFree ==
  ASSUME TypeOK, LinksCurrent
  PROVE  AppendNeverCollides
<1> SUFFICES ASSUME NEW p \in Appenders, pc[p] = "insert",
                    NEW e \in Rows(request[p].namespace)
             PROVE  e.seq < link[p].seq
  BY DEF AppendNeverCollides
<1>1. PICK t \in entries : IsTail(t, request[p].namespace) /\ link[p] = LinkAfter(t)
  BY DEF LinksCurrent, LinkCurrent
<1>2. e.seq \in Nat /\ t.seq \in Nat /\ e.seq <= t.seq
  BY <1>1 DEF IsTail, Rows, TypeOK
<1>3. QED
  BY <1>1, <1>2 DEF LinkAfter

(* The row an append inserts. *)
LEMMA NewEntryFields ==
  ASSUME NEW p \in Appenders
  PROVE  /\ NewEntry(p).namespace = request[p].namespace
         /\ NewEntry(p).seq = link[p].seq
         /\ NewEntry(p).prev = link[p].prev
         /\ NewEntry(p).event = request[p].event
         /\ NewEntry(p).createdAt = request[p].createdAt
         /\ NewEntry(p).hash =
              ComputeHash(link[p].prev, request[p].namespace, link[p].seq,
                          request[p].event, request[p].createdAt)
BY DEF NewEntry

-----------------------------------------------------------------------------
(* Type correctness *)

LEMMA TypeInit == Init => TypeOK
BY AuditAssumption DEF Init, TypeOK

LEMMA TypeStep == TypeOK /\ [Next]_vars => TypeOK'
<1> SUFFICES ASSUME TypeOK, [Next]_vars PROVE TypeOK'
  OBVIOUS
<1>1. ASSUME NEW p \in Appenders, BeginAppend(p) PROVE TypeOK'
  <2>1. PICK ns \in Namespaces, event \in Events :
          request' = [request EXCEPT ![p] =
            [namespace |-> ns, event |-> event, createdAt |-> clock]]
    BY <1>1 DEF BeginAppend
  <2>2. [namespace |-> ns, event |-> event, createdAt |-> clock] \in Requests
    BY DEF TypeOK, Requests
  <2>3. QED
    BY <1>1, <2>1, <2>2 DEF BeginAppend, TypeOK
<1>2. ASSUME NEW p \in Appenders, AcquireLock(p) PROVE TypeOK'
  BY <1>2 DEF AcquireLock, TypeOK
<1>3. ASSUME NEW p \in Appenders, ReadTail(p) PROVE TypeOK'
  <2>1. PICK new : link' = [link EXCEPT ![p] = new] /\ new.seq \in Nat \ {0}
    BY <1>3 DEF ReadTail, TypeOK, FirstLink, LinkAfter
  <2>2. QED
    BY <1>3, <2>1 DEF ReadTail, TypeOK
<1>4. ASSUME NEW p \in Appenders, EndAppend(p),
             \A e \in entries' : e \in entries \/ (e = NewEntry(p) /\ pc[p] = "insert")
      PROVE  TypeOK'
  <2>1. ASSUME NEW e \in entries'
        PROVE  /\ e.namespace \in Namespaces /\ e.seq \in Nat \ {0}
               /\ e.event \in Events /\ e.createdAt \in Instants
    <3>1. CASE e \in entries
      BY <3>1 DEF TypeOK
    <3>2. CASE e = NewEntry(p) /\ pc[p] = "insert"
      BY <3>2, NewEntryFields DEF TypeOK, Requests
    <3>3. QED
      BY <1>4, <3>1, <3>2
  <2>2. lock' \in [Slots -> Appenders \cup {None}]
    BY <1>4 DEF EndAppend, TypeOK
  <2>3. QED
    BY <1>4, <2>1, <2>2 DEF EndAppend, TypeOK
<1>5. ASSUME NEW p \in Appenders, InsertEntry(p) \/ AppendFails(p) PROVE TypeOK'
  <2>1. EndAppend(p)
    BY <1>5 DEF InsertEntry, AppendFails
  <2>2. ASSUME NEW e \in entries' PROVE e \in entries \/ (e = NewEntry(p) /\ pc[p] = "insert")
    <3>1. CASE InsertEntry(p)
      BY <3>1 DEF InsertEntry
    <3>2. CASE AppendFails(p)
      BY <3>2 DEF AppendFails
    <3>3. QED
      BY <1>5, <3>1, <3>2
  <2>3. QED
    BY <1>4, <2>1, <2>2
<1>6. CASE Tick \/ UNCHANGED vars
  BY <1>6 DEF Tick, vars, TypeOK
<1>7. QED
  BY <1>1, <1>2, <1>3, <1>5, <1>6 DEF Next, AppendStep

(* Every row of the table and every append under way is well formed. *)
THEOREM TypeCorrect == Spec => []TypeOK
BY TypeInit, TypeStep, PTL DEF Spec

-----------------------------------------------------------------------------
(* The chain *)

LEMMA ChainInit == Init => ChainInv
BY DEF Init, ChainInv, Exclusive, LinksCurrent, KeyUnique, ChainVerifies, VerifyChain, Rows

(* The steps that leave the table and the others alone. *)
LEMMA SameTable ==
  ASSUME UNCHANGED entries
  PROVE  /\ KeyUnique => KeyUnique'
         /\ ChainVerifies => ChainVerifies'
BY DEF KeyUnique, ChainVerifies, VerifyChain, Sound, Rows

(* Inserting the row that continues the chain keeps it a chain. *)
LEMMA InsertExtendsChain ==
  ASSUME TypeOK, ChainInv, NEW p \in Appenders, InsertEntry(p)
  PROVE  KeyUnique' /\ ChainVerifies'
<1>0. PICK n, ns : n = NewEntry(p) /\ ns = request[p].namespace
  OBVIOUS
<1>1. /\ entries' = entries \cup {n} /\ pc[p] = "insert"
      /\ n.namespace = ns /\ n.seq = link[p].seq /\ n.prev = link[p].prev
      /\ n.hash = ComputeHash(n.prev, n.namespace, n.seq, n.event, n.createdAt)
  BY <1>0, NewEntryFields DEF InsertEntry
<1>2. \A e \in Rows(ns) : e.seq < n.seq /\ e.seq \in Nat /\ n.seq \in Nat
  BY <1>0, <1>1, LinkIsFree DEF ChainInv, AppendNeverCollides, TypeOK, Rows
<1>3. KeyUnique'
  <2> SUFFICES ASSUME NEW e \in entries', NEW f \in entries',
                      e.namespace = f.namespace, e.seq = f.seq
               PROVE  e = f
    BY DEF KeyUnique
  <2>1. \A g \in entries : g.namespace = ns => g.seq # n.seq
    BY <1>2 DEF Rows
  <2>2. QED
    BY <1>1, <2>1 DEF ChainInv, KeyUnique
<1>4. ASSUME NEW e \in entries PROVE Sound(e)'
  <2>1. Sound(e)
    BY DEF ChainInv, ChainVerifies, VerifyChain, Rows, TypeOK
  <2>2. {f \in Rows(e.namespace) : f.seq < e.seq}' = {f \in Rows(e.namespace) : f.seq < e.seq}
    <3>1. n.namespace = e.namespace => ~(n.seq < e.seq)
      BY <1>1, <1>2 DEF Rows
    <3>2. QED
      BY <1>1, <3>1 DEF Rows
  <2>3. QED
    BY <2>1, <2>2 DEF Sound
<1>5. Sound(n)'
  <2> DEFINE before == {f \in Rows(ns) : f.seq < n.seq}
  <2>1. {f \in Rows(n.namespace) : f.seq < n.seq}' = before /\ before = Rows(ns)
    <3>1. before = Rows(ns)
      BY <1>2
    <3>2. n.seq \in Nat => ~(n.seq < n.seq)
      OBVIOUS
    <3>3. n.seq \in Nat
      BY <1>1 DEF TypeOK
    <3>4. {f \in Rows(n.namespace) : f.seq < n.seq}' = before
      BY <1>1, <3>2, <3>3 DEF Rows
    <3>5. QED
      BY <3>1, <3>4
  <2>2. CASE Rows(ns) = {} /\ link[p] = FirstLink
    BY <1>1, <2>1, <2>2 DEF Sound, FirstLink
  <2>3. CASE \E t \in entries : IsTail(t, ns) /\ link[p] = LinkAfter(t)
    <3>1. PICK t \in entries : IsTail(t, ns) /\ link[p] = LinkAfter(t)
      BY <2>3
    <3>2. t \in before /\ t.seq \in Nat /\ n.seq = t.seq + 1 /\ n.prev = t.hash
      BY <1>1, <2>1, <3>1 DEF IsTail, LinkAfter, TypeOK
    <3>3. t.seq = n.seq - 1
      BY <3>2
    <3>4. QED
      BY <1>1, <2>1, <3>2, <3>3 DEF Sound
  <2>4. QED
    BY <1>0, <1>1, <2>2, <2>3 DEF ChainInv, LinksCurrent, LinkCurrent
<1>6. ChainVerifies'
  BY <1>1, <1>4, <1>5 DEF ChainVerifies, VerifyChain, Rows
<1>7. QED
  BY <1>3, <1>6

(* An append leaves the tail of the namespaces others are appending to. *)
LEMMA OthersKeepTheirTail ==
  ASSUME TypeOK, ChainInv, NEW p \in Appenders, NEW q \in Appenders, q # p,
         InsertEntry(p) \/ UNCHANGED entries,
         request'[q] = request[q], link'[q] = link[q], pc[q] = "insert"
  PROVE  LinkCurrent(q)'
<1> DEFINE ns == request[q].namespace
<1>1. LinkCurrent(q)
  BY DEF ChainInv, LinksCurrent
<1>2. {e \in entries' : e.namespace = ns} = Rows(ns)
  <2>1. CASE UNCHANGED entries
    BY <2>1 DEF Rows
  <2>2. CASE InsertEntry(p)
    <3>1. request[p].namespace # ns
      BY <2>2 DEF InsertEntry, ChainInv, Exclusive
    <3>2. QED
      BY <2>2, <3>1, NewEntryFields DEF InsertEntry, Rows
  <2>3. QED
    BY <2>1, <2>2
<1>3. Rows(request[q].namespace)' = Rows(ns)
  BY <1>2 DEF Rows
<1>4. entries \subseteq entries'
  BY DEF InsertEntry
<1>5. QED
  BY <1>1, <1>3, <1>4 DEF LinkCurrent, IsTail

LEMMA ChainStep == TypeOK /\ ChainInv /\ [Next]_vars => ChainInv'
<1> SUFFICES ASSUME TypeOK, ChainInv, [Next]_vars PROVE ChainInv'
  OBVIOUS
<1>1. ASSUME NEW p \in Appenders, BeginAppend(p) \/ AppendStep(p) \/ AppendFails(p)
      PROVE  ChainInv'
  <2>1. ASSUME NEW q \in Appenders \ {p}
        PROVE  pc'[q] = pc[q] /\ request'[q] = request[q] /\ link'[q] = link[q]
    BY <1>1 DEF BeginAppend, AppendStep, AcquireLock, ReadTail, InsertEntry, AppendFails,
                EndAppend, TypeOK
  <2>2. InsertEntry(p) \/ UNCHANGED entries
    BY <1>1 DEF BeginAppend, AppendStep, AcquireLock, ReadTail, AppendFails
  <2>3. KeyUnique' /\ ChainVerifies'
    BY <2>2, SameTable, InsertExtendsChain DEF ChainInv
  <2>4. ASSUME NEW q \in Appenders \ {p}, pc'[q] \in {"tail", "insert"}
        PROVE  lock'[Slot[request'[q].namespace]] = q
    <3>1. lock[Slot[request[q].namespace]] = q /\ Slot[request[q].namespace] \in Slots
      BY <2>1, <2>4, AuditAssumption DEF ChainInv, Exclusive, TypeOK, Requests
    <3>2. q # None
      BY AuditAssumption
    <3>3. lock'[Slot[request[q].namespace]] = q
      BY <1>1, <3>1, <3>2
         DEF BeginAppend, AppendStep, AcquireLock, ReadTail, InsertEntry, AppendFails,
             EndAppend, TypeOK
    <3>4. QED
      BY <2>1, <3>3
  <2>5. pc'[p] \in {"tail", "insert"} => lock'[Slot[request'[p].namespace]] = p
    <3>1. CASE BeginAppend(p) \/ EndAppend(p)
      BY <3>1 DEF BeginAppend, EndAppend, TypeOK
    <3>2. CASE AcquireLock(p)
      BY <3>2, AuditAssumption DEF AcquireLock, TypeOK, Requests
    <3>3. CASE ReadTail(p)
      BY <3>3 DEF ReadTail, TypeOK, ChainInv, Exclusive
    <3>4. QED
      BY <1>1, <3>1, <3>2, <3>3 DEF AppendStep, InsertEntry, AppendFails
  <2>6. Exclusive'
    BY <2>4, <2>5 DEF Exclusive
  <2>7. ASSUME NEW q \in Appenders \ {p}, pc'[q] = "insert" PROVE LinkCurrent(q)'
    BY <2>1, <2>2, <2>7, OthersKeepTheirTail
  <2>8. pc'[p] = "insert" => LinkCurrent(p)'
    <3>1. CASE ReadTail(p)
      BY <3>1 DEF ReadTail, LinkCurrent, IsTail, Rows, TypeOK
    <3>2. CASE ~ReadTail(p)
      BY <1>1, <3>2 DEF BeginAppend, AppendStep, AcquireLock, InsertEntry, AppendFails,
                        EndAppend, TypeOK
    <3>3. QED
      BY <3>1, <3>2
  <2>9. LinksCurrent'
    BY <2>7, <2>8 DEF LinksCurrent
  <2>10. QED
    BY <2>3, <2>6, <2>9 DEF ChainInv
<1>2. CASE Tick \/ UNCHANGED vars
  <2>1. UNCHANGED <<entries, lock, pc, request, link>>
    BY <1>2 DEF Tick, vars
  <2>2. KeyUnique' /\ ChainVerifies'
    BY <2>1, SameTable DEF ChainInv
  <2>3. Exclusive' /\ LinksCurrent'
    BY <2>1 DEF ChainInv, Exclusive, LinksCurrent, LinkCurrent, IsTail, Rows
  <2>4. QED
    BY <2>2, <2>3 DEF ChainInv
<1>3. QED
  BY <1>1, <1>2 DEF Next

LEMMA ChainAlways == Spec => [](TypeOK /\ ChainInv)
BY TypeInit, TypeStep, ChainInit, ChainStep, PTL DEF Spec

(* verify_audit finds every log that only append wrote valid, however many *)
(* calls overlap or fail.                                                  *)
THEOREM ChainAlwaysVerifies == Spec => []ChainVerifies
<1>1. TypeOK /\ ChainInv => ChainVerifies
  BY DEF ChainInv
<1>2. QED
  BY <1>1, ChainAlways, PTL

(* The advisory lock makes the primary key unnecessary: no append ever     *)
(* tries a number that is taken.                                           *)
THEOREM NumbersAreFree == Spec => []AppendNeverCollides
<1>1. TypeOK /\ ChainInv => AppendNeverCollides
  BY LinkIsFree DEF ChainInv
<1>2. QED
  BY <1>1, ChainAlways, PTL

-----------------------------------------------------------------------------
(* The table is an append-only log *)

(* The rows of a namespace are numbered from 1 without a gap. *)
NumbersOf(E, ns) == {e.seq : e \in {f \in E : f.namespace = ns}}

Numbers(ns) == NumbersOf(entries, ns)

Counted == \A ns \in Namespaces : \E k \in Nat : Numbers(ns) = 1 .. k

(* The events of the rows of ns in the table E, by number. *)
ByNumber(rows) ==
  [i \in {e.seq : e \in rows} |-> (CHOOSE e \in rows : e.seq = i).event]

EventsOf(E, ns) == ByNumber({e \in E : e.namespace = ns})

LEMMA EventAt ==
  ASSUME NEW E, NEW ns, NEW e \in E, e.namespace = ns,
         \A f \in E : f.namespace = ns /\ f.seq = e.seq => f = e
  PROVE  EventsOf(E, ns)[e.seq] = e.event
<1> DEFINE rows == {f \in E : f.namespace = ns}
<1>1. e \in rows /\ (CHOOSE f \in rows : f.seq = e.seq) = e
  OBVIOUS
<1>2. QED
  BY <1>1 DEF EventsOf, ByNumber

(* n is a further row of ns with the number after k, the last one in E.    *)
Continues(n, E, ns, k) ==
  /\ n.namespace = ns /\ n.seq = k + 1 /\ k \in Nat
  /\ NumbersOf(E, ns) = 1 .. k
  /\ \A e, f \in E \cup {n} : e.namespace = f.namespace /\ e.seq = f.seq => e = f
  /\ \A e \in E \cup {n} : e.event \in Events

(* Such a row adds its event to the log. *)
LEMMA RowAppendsEvent ==
  ASSUME NEW n, NEW E, NEW ns, NEW k, Continues(n, E, ns, k)
  PROVE  EventsOf(E \cup {n}, ns) = Append(EventsOf(E, ns), n.event)
<1> DEFINE old == EventsOf(E, ns)
           new == EventsOf(E \cup {n}, ns)
<1>0. PICK F : F = E \cup {n}
  OBVIOUS
<1> USE DEF NumbersOf, Continues
<1>1. DOMAIN old = 1 .. k /\ old = [i \in 1 .. k |-> old[i]]
  BY DEF EventsOf, ByNumber
<1>2. DOMAIN new = 1 .. k + 1 /\ new = [i \in 1 .. k + 1 |-> new[i]]
  <2>1. {e.seq : e \in {f \in E \cup {n} : f.namespace = ns}} = (1 .. k) \cup {k + 1}
    OBVIOUS
  <2>2. (1 .. k) \cup {k + 1} = 1 .. k + 1
    OBVIOUS
  <2>3. QED
    BY <2>1, <2>2 DEF EventsOf, ByNumber
<1>3. ASSUME NEW i \in 1 .. k
      PROVE  old[i] \in Events /\ new[i] = old[i]
  <2>1. PICK e \in E : e.namespace = ns /\ e.seq = i
    OBVIOUS
  <2>2. EventsOf(E, ns)[e.seq] = e.event
    BY <2>1, EventAt
  <2>3. EventsOf(F, ns)[e.seq] = e.event
    <3>1. e \in F /\ \A f \in F : f.namespace = ns /\ f.seq = e.seq => f = e
      BY <1>0, <2>1
    <3>2. QED
      BY <2>1, <3>1, EventAt
  <2>4. QED
    BY <1>0, <2>1, <2>2, <2>3
<1>4. new[k + 1] = n.event
  <2>1. EventsOf(F, ns)[n.seq] = n.event
    <3>1. n \in F /\ \A f \in F : f.namespace = ns /\ f.seq = n.seq => f = n
      BY <1>0
    <3>2. QED
      BY <3>1, EventAt
  <2>2. QED
    BY <1>0, <2>1
<1> HIDE DEF old, new
<1>5. old \in Seq(Events) /\ Len(old) = k
  BY <1>1, <1>3
<1>6. Append(old, n.event) = [i \in 1 .. k + 1 |-> IF i = k + 1 THEN n.event ELSE old[i]]
  BY <1>5
<1>7. new = [i \in 1 .. k + 1 |-> IF i = k + 1 THEN n.event ELSE old[i]]
  <2>1. \A i \in 1 .. k + 1 : new[i] = IF i = k + 1 THEN n.event ELSE old[i]
    BY <1>3, <1>4
  <2>2. QED
    BY <1>2, <2>1
<1>8. QED
  BY <1>6, <1>7 DEF old, new

LEMMA RecordedIsEvents ==
  /\ Recorded = [ns \in Namespaces |-> EventsOf(entries, ns)]
  /\ Recorded' = [ns \in Namespaces |-> EventsOf(entries', ns)]
BY DEF Recorded, EventsOf, ByNumber, Rows

LEMMA LogInit == Init => Counted /\ Log!Init
<1> SUFFICES ASSUME Init PROVE Counted /\ Log!Init
  OBVIOUS
<1>1. Counted
  <2>1. \A ns : Numbers(ns) = 1 .. 0
    BY DEF Init, Numbers, NumbersOf, Rows
  <2>2. QED
    BY <2>1 DEF Counted
<1>2. \A ns : EventsOf(entries, ns) = <<>>
  BY DEF Init, EventsOf, ByNumber
<1>3. QED
  BY <1>1, <1>2, RecordedIsEvents DEF Log!Init

(* An insert uses the number after the last one. *)
LEMMA InsertCounts ==
  ASSUME TypeOK, ChainInv, Counted, NEW p \in Appenders, pc[p] = "insert"
  PROVE  \E k \in Nat : /\ Numbers(request[p].namespace) = 1 .. k
                        /\ link[p].seq = k + 1
<1> DEFINE ns == request[p].namespace
<1>1. ns \in Namespaces
  BY DEF TypeOK, Requests
<1>2. PICK k \in Nat : Numbers(ns) = 1 .. k
  BY <1>1 DEF Counted
<1>3. CASE Rows(ns) = {} /\ link[p] = FirstLink
  <2>1. Numbers(ns) = {}
    BY <1>3 DEF Numbers, NumbersOf, Rows
  <2>2. k # 0 => 1 \in 1 .. k
    OBVIOUS
  <2>3. k = 0
    BY <1>2, <2>1, <2>2
  <2>4. QED
    BY <1>2, <1>3, <2>3 DEF FirstLink
<1>4. CASE \E t \in entries : IsTail(t, ns) /\ link[p] = LinkAfter(t)
  <2>1. PICK t \in entries : IsTail(t, ns) /\ link[p] = LinkAfter(t)
    BY <1>4
  <2>2. t.seq \in Numbers(ns) /\ \A i \in Numbers(ns) : i <= t.seq
    BY <2>1 DEF IsTail, Numbers, NumbersOf, Rows
  <2>3. t.seq = k
    BY <1>2, <2>2
  <2>4. QED
    BY <1>2, <2>1, <2>3 DEF LinkAfter
<1>5. QED
  BY <1>3, <1>4 DEF ChainInv, LinksCurrent, LinkCurrent

LEMMA LogStep ==
  TypeOK /\ TypeOK' /\ ChainInv /\ ChainInv' /\ Counted /\ [Next]_vars
    => Counted' /\ [Log!Next]_Recorded
<1> SUFFICES ASSUME TypeOK, TypeOK', ChainInv, ChainInv', Counted, [Next]_vars
             PROVE  Counted' /\ [Log!Next]_Recorded
  OBVIOUS
<1>1. CASE UNCHANGED entries
  BY <1>1, RecordedIsEvents DEF Counted, Numbers, NumbersOf
<1>2. ASSUME NEW p \in Appenders, InsertEntry(p)
      PROVE  Counted' /\ Log!Next
  <2>0. PICK n, ns : n = NewEntry(p) /\ ns = request[p].namespace
    OBVIOUS
  <2>1. /\ entries' = entries \cup {n} /\ pc[p] = "insert" /\ n.namespace = ns
        /\ ns \in Namespaces /\ n.seq = link[p].seq /\ n.event \in Events
    BY <1>2, <2>0, NewEntryFields DEF InsertEntry, TypeOK, Requests
  <2>2. PICK k \in Nat : Numbers(ns) = 1 .. k /\ n.seq = k + 1
    BY <2>0, <2>1, InsertCounts
  <2>3. Numbers(ns)' = 1 .. k + 1
    <3>1. Numbers(ns)' = Numbers(ns) \cup {n.seq}
      BY <2>1 DEF Numbers, NumbersOf, Rows
    <3>2. QED
      BY <2>2, <3>1
  <2>4. ASSUME NEW m \in Namespaces, m # ns
        PROVE  Numbers(m)' = Numbers(m) /\ EventsOf(entries', m) = EventsOf(entries, m)
    <3>1. {e \in entries' : e.namespace = m} = {e \in entries : e.namespace = m}
      BY <2>1, <2>4
    <3>2. QED
      BY <3>1 DEF Numbers, NumbersOf, Rows, EventsOf
  <2>5. Counted'
    BY <2>2, <2>3, <2>4 DEF Counted
  <2>6. EventsOf(entries', ns) = Append(EventsOf(entries, ns), n.event)
    <3>1. \A e, f \in entries \cup {n} : e.namespace = f.namespace /\ e.seq = f.seq => e = f
      BY <2>1 DEF ChainInv, KeyUnique
    <3>2. \A e \in entries \cup {n} : e.event \in Events
      BY <2>1 DEF TypeOK
    <3>3. NumbersOf(entries, ns) = 1 .. k
      BY <2>2 DEF Numbers
    <3>4. Continues(n, entries, ns, k)
      BY <2>1, <2>2, <3>1, <3>2, <3>3 DEF Continues
    <3>5. QED
      BY <2>1, <3>4, RowAppendsEvent
  <2>7. Log!Record(ns, n.event)
    BY <2>1, <2>4, <2>6, RecordedIsEvents DEF Log!Record
  <2>8. QED
    BY <2>1, <2>5, <2>7 DEF Log!Next
<1>3. QED
  BY <1>1, <1>2
     DEF Next, vars, AppendStep, BeginAppend, AcquireLock, ReadTail, AppendFails, Tick

(* The audit log is what ADR 0025 promises, an append-only log of the      *)
(* events of each namespace: its steps are stutters or append one event to *)
(* one namespace.                                                          *)
THEOREM ImplementsLog == Spec => LogIsAppendOnly
<1>1. Init => TypeOK /\ ChainInv /\ Counted
  BY TypeInit, ChainInit, LogInit
<1>2. TypeOK /\ ChainInv /\ Counted /\ [Next]_vars => TypeOK' /\ ChainInv' /\ Counted'
  BY TypeStep, ChainStep, LogStep
<1>3. QED
  BY <1>1, <1>2, TypeStep, ChainStep, LogInit, LogStep, PTL
     DEF Spec, LogIsAppendOnly, Log!Spec

=============================================================================
