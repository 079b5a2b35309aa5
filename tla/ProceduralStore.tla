--------------------------- MODULE ProceduralStore ---------------------------
(***************************************************************************)
(* The skills and lessons of storage/postgres/procedural_repository.py:    *)
(* create, called by a consolidation pass for every skill or lesson it     *)
(* distils, and record_outcome, called by the report_skill_outcome tool.   *)
(*                                                                         *)
(* Each is one READ COMMITTED transaction, record_outcome a single UPDATE. *)
(* Both look up the active version of a name in a snapshot, wait for its   *)
(* row lock and check their WHERE clause again on the row they get; a      *)
(* version inserted after the snapshot stays invisible to them.  The       *)
(* partial unique index on (namespace, name) of active rows is enforced at *)
(* the INSERT, the foreign key of superseded_by at the commit.             *)
(*                                                                         *)
(* Simplifications: one namespace; the contents of a version are left out; *)
(* nothing deletes a version (no code sets deleted_at); the Beta belief is *)
(* a function of the two counts, as each outcome weighs the same.          *)
(***************************************************************************)
EXTENDS Integers, FiniteSets, Folds

CONSTANTS
    Names,
    Versions,      \* the uuids rows can get
    Distillers,    \* concurrent calls of create
    Reporters,     \* concurrent calls of record_outcome
    MaxCreates,    \* bound: calls of create
    MaxReports,    \* bound: calls of record_outcome
    None           \* SQL NULL, no lock owner, no request

Procs == Distillers \cup Reporters

ASSUME ProceduralAssumption ==
    /\ Distillers \cap Reporters = {}
    /\ MaxCreates \in Nat /\ MaxReports \in Nat
    /\ IsFiniteSet(Versions)
    /\ None \notin Versions \cup Procs \cup Names

VARIABLES
    version,   \* id |-> row, None while the id is unused
    owner,     \* id |-> the transaction holding the row's lock
    pc,
    request,   \* the name a call is about
    cand,      \* rows its snapshot found
    held,      \* the row a create locked
    answer,    \* how the last call of a process ended
    creates, reports,   \* calls made so far
    found,     \* history variable: name |-> outcomes answered as recorded
    unsure     \* history variable: name |-> outcomes answered with a failure

vars == <<version, owner, pc, request, cand, held, answer, creates, reports, found, unsure>>

-----------------------------------------------------------------------------

Row == [name : Names, supersedes : Versions \cup {None}, supersededBy : Versions \cup {None},
        applied : Nat, success : Nat]

ASSUME RowAssumption == None \notin Row

Used(v)   == version[v] # None
Active(v) == Used(v) /\ version[v].supersededBy = None

ActiveVersions(n) == {v \in Versions : Active(v) /\ version[v].name = n}

(* ix_procedural_memories_active_name lets another active row of the name  *)
(* in, the one that is being replaced not counted.                         *)
IndexAdmits(n, replaced) == ActiveVersions(n) \subseteq {replaced}

(* Mutant: the counts have no default.                                     *)
NewVersionUncounted(n, supersedes) ==
    [name |-> n, supersedes |-> supersedes, supersededBy |-> None, applied |-> None, success |-> None]

NewVersion(n, supersedes) ==
    [name |-> n, supersedes |-> supersedes, supersededBy |-> None, applied |-> 0, success |-> 0]

Lock(p, v) ==
    /\ owner[v] = None
    /\ owner' = [owner EXCEPT ![v] = p]

(* Commit or rollback; the caller gets an answer.                          *)
EndCall(p, a) ==
    /\ owner' = [v \in Versions |-> IF owner[v] = p THEN None ELSE owner[v]]
    /\ pc' = [pc EXCEPT ![p] = "idle"]
    /\ request' = [request EXCEPT ![p] = None]
    /\ cand' = [cand EXCEPT ![p] = {}]
    /\ held' = [held EXCEPT ![p] = None]
    /\ answer' = [answer EXCEPT ![p] = a]
    /\ UNCHANGED <<creates, reports>>

Init ==
    /\ version = [v \in Versions |-> None]
    /\ owner = [v \in Versions |-> None]
    /\ pc = [p \in Procs |-> "idle"]
    /\ request = [p \in Procs |-> None]
    /\ cand = [p \in Procs |-> {}]
    /\ held = [p \in Procs |-> None]
    /\ answer = [p \in Procs |-> None]
    /\ creates = 0
    /\ reports = 0
    /\ found = [n \in Names |-> 0]
    /\ unsure = [n \in Names |-> 0]

-----------------------------------------------------------------------------
(* create *)

BeginCreate(p) ==
    /\ pc[p] = "idle"
    /\ creates < MaxCreates
    /\ \E n \in Names : request' = [request EXCEPT ![p] = n]
    /\ creates' = creates + 1
    /\ pc' = [pc EXCEPT ![p] = "scan"]
    /\ answer' = [answer EXCEPT ![p] = None]
    /\ UNCHANGED <<version, owner, cand, held, reports, found, unsure>>

(* The snapshot of the SELECT.                                             *)
ScanActive(p) ==
    /\ pc[p] = "scan"
    /\ cand' = [cand EXCEPT ![p] = ActiveVersions(request[p])]
    /\ pc' = [pc EXCEPT ![p] = "lock"]
    /\ UNCHANGED <<version, owner, request, held, answer, creates, reports, found, unsure>>

(* FOR UPDATE got the row and it still is active.                          *)
LockPrevious(p) ==
    /\ pc[p] = "lock"
    /\ \E v \in cand[p] :
          /\ Lock(p, v)
          /\ Active(v)
          /\ held' = [held EXCEPT ![p] = v]
    /\ pc' = [pc EXCEPT ![p] = "insert"]
    /\ UNCHANGED <<version, request, cand, answer, creates, reports, found, unsure>>

(* There was none, or it was superseded since the snapshot: such a row is  *)
(* left out of the result, and its lock kept.                              *)
FindNoPrevious(p) ==
    /\ pc[p] = "lock"
    /\ \A v \in cand[p] : owner[v] = None /\ ~Active(v)
    /\ owner' = [v \in Versions |-> IF v \in cand[p] THEN p ELSE owner[v]]
    /\ pc' = [pc EXCEPT ![p] = "insert"]
    /\ UNCHANGED <<version, request, cand, held, answer, creates, reports, found, unsure>>

(* The transaction has committed; the connection may be lost before the     *)
(* caller hears of it.                                                     *)
Commit(p) == \E a \in {"created", "failed"} : EndCall(p, a)

(* Mutant: an index on names that is not unique.                           *)
InsertAnyway(p) ==
    /\ pc[p] = "insert"
    /\ held[p] = None
    /\ \E v \in Versions :
          /\ ~Used(v)
          /\ version' = [version EXCEPT ![v] = NewVersion(request[p], None)]
    /\ EndCall(p, "created")
    /\ UNCHANGED <<found, unsure>>

InsertFirst(p) ==
    /\ pc[p] = "insert"
    /\ held[p] = None
    /\ IndexAdmits(request[p], None)
    /\ \E v \in Versions :
          /\ ~Used(v)
          /\ version' = [version EXCEPT ![v] = NewVersion(request[p], None)]
    /\ Commit(p)
    /\ UNCHANGED <<found, unsure>>

(* The previous version is closed first, which takes it out of the index,  *)
(* then the new one is inserted; both commit together.                     *)
InsertSuperseding(p) ==
    /\ pc[p] = "insert"
    /\ held[p] # None
    /\ IndexAdmits(request[p], held[p])
    /\ \E v \in Versions :
          /\ ~Used(v)
          /\ version' = [version EXCEPT ![held[p]].supersededBy = v,
                                        ![v] = NewVersion(request[p], held[p])]
    /\ Commit(p)
    /\ UNCHANGED <<found, unsure>>

(* UniqueViolationError, raised to the pass as StorageError.               *)
InsertCollides(p) ==
    /\ pc[p] = "insert"
    /\ ~IndexAdmits(request[p], held[p])
    /\ EndCall(p, "name taken")
    /\ UNCHANGED <<version, found, unsure>>

-----------------------------------------------------------------------------
(* record_outcome *)

BeginReport(p) ==
    /\ pc[p] = "idle"
    /\ reports < MaxReports
    /\ \E n \in Names : request' = [request EXCEPT ![p] = n]
    /\ reports' = reports + 1
    /\ pc' = [pc EXCEPT ![p] = "scanReport"]
    /\ answer' = [answer EXCEPT ![p] = None]
    /\ UNCHANGED <<version, owner, cand, held, creates, found, unsure>>

(* The snapshot of the UPDATE.                                             *)
ScanReport(p) ==
    /\ pc[p] = "scanReport"
    /\ cand' = [cand EXCEPT ![p] = ActiveVersions(request[p])]
    /\ pc' = [pc EXCEPT ![p] = "update"]
    /\ UNCHANGED <<version, owner, request, held, answer, creates, reports, found, unsure>>

(* The caller hears that its outcome is recorded, or of a failure after    *)
(* the UPDATE, which commits by itself: the connection is lost, or the     *)
(* audit entry cannot be appended (server.py).                             *)
CommitOutcome(p) ==
    \/ /\ EndCall(p, "recorded")
       /\ found' = [found EXCEPT ![request[p]] = @ + 1]
       /\ UNCHANGED unsure
    \/ /\ EndCall(p, "failed")
       /\ unsure' = [unsure EXCEPT ![request[p]] = @ + 1]
       /\ UNCHANGED found

(* Mutant: the row found is updated, active or not.                        *)
RecordOnFound(p) ==
    /\ pc[p] = "update"
    /\ \E v \in cand[p], s \in {0, 1} :
          /\ owner[v] = None
          /\ version' = [version EXCEPT ![v].applied = @ + 1, ![v].success = @ + s]
    /\ CommitOutcome(p)

RecordOutcome(p) ==
    /\ pc[p] = "update"
    /\ \E v \in cand[p], s \in {0, 1} :
          /\ owner[v] = None
          /\ Active(v)
          /\ version' = [version EXCEPT ![v].applied = @ + 1, ![v].success = @ + s]
    /\ CommitOutcome(p)

(* Mutant: the tool answers without looking at the row that came back.     *)
AnswerRecorded(p) ==
    /\ pc[p] = "update"
    /\ \A v \in cand[p] : owner[v] = None /\ ~Active(v)
    /\ CommitOutcome(p)
    /\ UNCHANGED version

(* No row to update: there was none, or the one found has been superseded. *)
MissOutcome(p) ==
    /\ pc[p] = "update"
    /\ \A v \in cand[p] : owner[v] = None /\ ~Active(v)
    /\ EndCall(p, "not found")
    /\ UNCHANGED <<version, found, unsure>>

-----------------------------------------------------------------------------

(* Mutant: no transaction around create.                                   *)
FailAfterClosing(p) ==
    /\ pc[p] # "idle"
    /\ IF pc[p] = "insert" /\ held[p] # None
       THEN \E v \in Versions : version' = [version EXCEPT ![held[p]].supersededBy = v]
       ELSE UNCHANGED version
    /\ EndCall(p, "failed")
    /\ UNCHANGED <<found, unsure>>

(* Mutant: a failed transaction is not rolled back.                        *)
FailKeepingLocks(p) ==
    /\ pc[p] # "idle"
    /\ pc' = [pc EXCEPT ![p] = "idle"]
    /\ UNCHANGED <<version, owner, request, cand, held, answer, creates, reports, found, unsure>>

(* StorageError, a connection lost before the commit, or a crash: rollback. *)
CallFails(p) ==
    /\ pc[p] # "idle"
    /\ EndCall(p, "failed")
    /\ unsure' = IF p \in Reporters THEN [unsure EXCEPT ![request[p]] = @ + 1] ELSE unsure
    /\ UNCHANGED <<version, found>>

CreateStep(p) ==
    \/ ScanActive(p) \/ LockPrevious(p) \/ FindNoPrevious(p)
    \/ InsertFirst(p) \/ InsertSuperseding(p) \/ InsertCollides(p)

ReportStep(p) == ScanReport(p) \/ RecordOutcome(p) \/ MissOutcome(p)

Next ==
    \/ \E p \in Distillers : BeginCreate(p) \/ CreateStep(p) \/ CallFails(p)
    \/ \E p \in Reporters : BeginReport(p) \/ ReportStep(p) \/ CallFails(p)

Spec == Init /\ [][Next]_vars

(* A transaction that can go on does; a row lock that is free again and    *)
(* again is got, as Postgres queues those who wait for it.                 *)
Fairness ==
    /\ \A p \in Distillers : SF_vars(CreateStep(p))
    /\ \A p \in Reporters : SF_vars(ReportStep(p))

FairSpec == Spec /\ Fairness

-----------------------------------------------------------------------------
(* Properties *)

(* Type invariant.                                                         *)
TypeOK ==
    /\ version \in [Versions -> Row \cup {None}]
    /\ owner \in [Versions -> Procs \cup {None}]
    /\ pc \in [Procs -> {"idle", "scan", "lock", "insert", "scanReport", "update"}]
    /\ request \in [Procs -> Names \cup {None}]
    /\ cand \in [Procs -> SUBSET Versions]
    /\ held \in [Procs -> Versions \cup {None}]
    /\ answer \in [Procs -> {None, "created", "name taken", "recorded", "not found", "failed"}]
    /\ creates \in Nat /\ reports \in Nat
    /\ found \in [Names -> Nat] /\ unsure \in [Names -> Nat]
    /\ \A p \in Procs :
          /\ pc[p] # "idle" => request[p] \in Names
          /\ held[p] # None => Used(held[p]) /\ version[held[p]].name = request[p]

(* The versions of a name are linked both ways: a superseded version's     *)
(* successor exists, names it as the one it superseded and is of the same  *)
(* name, and the other way round.  Only one version of a name superseded   *)
(* none, however many first creates met.                                   *)
Lineage ==
    /\ \A v, w \in Versions : Used(v) /\ version[v].supersededBy = w =>
          Used(w) /\ version[w].supersedes = v /\ version[w].name = version[v].name
    /\ \A v, w \in Versions : Used(w) /\ version[w].supersedes = v =>
          Used(v) /\ version[v].supersededBy = w
    /\ \A v, w \in Versions :
          /\ Used(v) /\ Used(w) /\ version[v].name = version[w].name
          /\ version[v].supersedes = None /\ version[w].supersedes = None
          => v = w

(* A name that was ever learnt keeps an active version.                    *)
NameKept == \A v \in Versions : Used(v) => ActiveVersions(version[v].name) # {}

Applied(n) ==
    MapThenFoldSet(+, 0, LAMBDA v : IF Used(v) /\ version[v].name = n THEN version[v].applied ELSE 0,
                   LAMBDA S : CHOOSE v \in S : TRUE, Versions)

(* Every outcome whose caller was told that it is recorded is counted, and *)
(* counted once, for one version of the name, whatever was superseded      *)
(* meanwhile; beyond those, at most the reports that ended with a failure  *)
(* are counted, each once, and never one that was told 'not found'.        *)
OutcomesConserved ==
    \A n \in Names : found[n] <= Applied(n) /\ Applied(n) <= found[n] + unsure[n]

CurrentVersion ==
    [n \in Names |-> IF ActiveVersions(n) = {} THEN None
                     ELSE CHOOSE v \in Versions : v \in ActiveVersions(n)]

Replaced == {v \in Versions : Used(v) /\ ~Active(v)}

TimesApplied == [v \in Versions |-> IF Used(v) THEN version[v].applied ELSE 0]

Successes == [v \in Versions |-> IF Used(v) THEN version[v].success ELSE 0]

Register ==
    INSTANCE SkillRegister WITH
        current <- CurrentVersion, past <- Replaced,
        applied <- TimesApplied, success <- Successes

(* The table implements the register of skills: one current version per    *)
(* name, replaced versions are frozen, outcomes count for the current one. *)
ImplementsRegister == Register!Spec

(* Every call ends.                                                        *)
CallsEnd == \A p \in Procs : pc[p] # "idle" ~> pc[p] = "idle"

=============================================================================
