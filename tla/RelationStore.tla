---------------------------- MODULE RelationStore ----------------------------
(***************************************************************************)
(* The relations table and everything that writes it: create_relation,     *)
(* record_feedback, list_contested and resolve_contest of                  *)
(* storage/postgres/graph_repository.py, and the rumination pass of        *)
(* rumination/run.py that calls the last two.                              *)
(*                                                                         *)
(* Writers are concurrent create_relation and record_feedback calls,       *)
(* ruminators the processes that run passes (the loop of rumination/       *)
(* loop.py and the ruminate tool).  Each repository method is one READ     *)
(* COMMITTED transaction: what it writes becomes visible at its commit,    *)
(* SELECT ... FOR UPDATE waits for the row's lock and re-checks its WHERE  *)
(* clause on the row it gets.  A pass is a sequence of such transactions   *)
(* with nothing held in between.                                           *)
(*                                                                         *)
(* Simplifications: one namespace; a relation's (subject, predicate) is a  *)
(* key and its object a model value; recorded_at is valid_from (both       *)
(* default to now(), the BEGIN of the inserting transaction); the          *)
(* confidence column is a function of alpha and beta; entities, memory     *)
(* links and metadata other than `contested` are left out; the database's  *)
(* clock and the server's are one clock, which only shows Instants.        *)
(***************************************************************************)
EXTENDS Belief, FiniteSets

CONSTANTS
    Keys, Objects,
    Ids,             \* the uuids rows can get
    Writers, Ruminators,
    Claims,          \* NewRelation values callers submit
    Reports,         \* [outcome, confidence] feedback callers submit
    MinContestAge,   \* rumination_min_contest_age_hours
    Instants,        \* the readings of the clock
    MaxCreates,      \* bound: create_relation calls
    MaxFeedback,     \* bound: record_feedback calls
    None             \* SQL NULL, no lock owner, no request

Procs == Writers \cup Ruminators

ClaimType  == [key : Keys, object : Objects, confidence : 0 .. Full, derivation : Derivations]
ReportType == [outcome : {"confirmed", "contradicted"}, confidence : 0 .. Full]

ASSUME StoreAssumption ==
    /\ Claims \subseteq ClaimType
    /\ Reports \subseteq ReportType
    /\ MinContestAge \in Nat
    /\ 0 \in Instants /\ Instants \subseteq 0 .. MaxAge
    /\ MaxCreates \in Nat /\ MaxFeedback \in Nat
    /\ Writers \cap Ruminators = {}

(* None is a value of its own. *)
ASSUME NoneAssumption ==
    /\ None \notin Ids \cup Procs \cup Int

VARIABLES
    relation,   \* id |-> row, None while the id is unused
    owner,      \* id |-> the transaction holding the row's lock
    pc,         \* where each process is
    request,    \* the claim, feedback or pair its transaction is about
    stamp,      \* writers: now() of the transaction; ruminators: the pass's `now`
    cand,       \* rows the SELECT of create_relation found, not yet visited
    held,       \* the row a writer locked
    seen,       \* the copy of that row the SELECT returned
    todo,       \* decisions of a pass not yet carried out
    audited,    \* ruminate_resolve audit entries
    clock,
    creates, feedbacks,   \* calls made so far
    evidence    \* history variable: total weight of the evidence each row got

locals == <<request, stamp, cand, held, seen>>
vars == <<relation, owner, pc, locals, todo, audited, clock, creates, feedbacks, evidence>>

-----------------------------------------------------------------------------
(* Rows *)

Row == [key : Keys, object : Objects, alpha : Nat, beta : Nat, derivation : Derivations,
        contested : BOOLEAN, validFrom : Instants, validTo : Instants \cup {None},
        supersedes : Ids \cup {None}, supersededBy : Ids \cup {None}]

ASSUME RowAssumption == None \notin Row

Used(r)   == relation[r] # None
Active(r) == Used(r) /\ relation[r].validTo = None

NewRow(claim, now, contested, supersedes) ==
    [key |-> claim.key, object |-> claim.object,
     alpha |-> FreshBelief(claim).alpha, beta |-> FreshBelief(claim).beta,
     derivation |-> claim.derivation, contested |-> contested,
     validFrom |-> now, validTo |-> None,
     supersedes |-> supersedes, supersededBy |-> None]

(* The rows list_contested returns for a key. *)
ContestedGroup(k) ==
    {r \in Ids : Active(r) /\ relation[r].contested /\ relation[r].key = k}

(* A possible outcome of one rumination decision. *)
Pairs == {d \in [winner : Ids, loser : Ids] : d.winner # d.loser}

(* What run_rumination_pass decides from the list: groups of exactly two   *)
(* rows, old enough unless forced, one of which prevails over the other.   *)
Decisions(now, force) ==
    {d \in Pairs :
        \E k \in Keys :
            /\ ContestedGroup(k) = {d.winner, d.loser}
            /\ force \/ \A r \in ContestedGroup(k) : now - relation[r].validFrom >= MinContestAge
            /\ Prevails(relation[d.winner], relation[d.loser], now)}

-----------------------------------------------------------------------------
(* Transactions *)

Unlocked(p) == [r \in Ids |-> IF owner[r] = p THEN None ELSE owner[r]]

(* Commit or rollback of a writer's transaction: locks go, so do locals. *)
EndTransaction(p) ==
    /\ owner' = Unlocked(p)
    /\ pc' = [pc EXCEPT ![p] = "idle"]
    /\ request' = [request EXCEPT ![p] = None]
    /\ stamp' = [stamp EXCEPT ![p] = 0]
    /\ cand' = [cand EXCEPT ![p] = {}]
    /\ held' = [held EXCEPT ![p] = None]
    /\ seen' = [seen EXCEPT ![p] = None]
    /\ UNCHANGED <<todo, audited, clock, creates, feedbacks>>

Lock(p, r) ==
    /\ owner[r] = None
    /\ owner' = [owner EXCEPT ![r] = p]

Init ==
    /\ relation = [r \in Ids |-> None]
    /\ owner = [r \in Ids |-> None]
    /\ pc = [p \in Procs |-> "idle"]
    /\ request = [p \in Procs |-> None]
    /\ stamp = [p \in Procs |-> 0]
    /\ cand = [p \in Procs |-> {}]
    /\ held = [p \in Procs |-> None]
    /\ seen = [p \in Procs |-> None]
    /\ todo = [p \in Procs |-> {}]
    /\ audited = {}
    /\ clock = 0
    /\ creates = 0
    /\ feedbacks = 0
    /\ evidence = [r \in Ids |-> 0]

-----------------------------------------------------------------------------
(* create_relation *)

BeginCreate(p) ==
    /\ pc[p] = "idle"
    /\ creates < MaxCreates
    /\ \E claim \in Claims : request' = [request EXCEPT ![p] = claim]
    /\ creates' = creates + 1
    /\ stamp' = [stamp EXCEPT ![p] = clock]
    /\ pc' = [pc EXCEPT ![p] = "scan"]
    /\ UNCHANGED <<relation, owner, cand, held, seen, todo, audited, clock, feedbacks, evidence>>

(* The snapshot of the SELECT: the active rows of the key, in no order. *)
ScanActive(p) ==
    /\ pc[p] = "scan"
    /\ cand' = [cand EXCEPT ![p] = {r \in Ids : Active(r) /\ relation[r].key = request[p].key}]
    /\ pc' = [pc EXCEPT ![p] = "lock"]
    /\ UNCHANGED <<relation, owner, request, stamp, held, seen, todo, audited, clock,
                   creates, feedbacks, evidence>>

(* Mutant: the SELECT without FOR UPDATE. *)
ReadPreviousUnlocked(p) ==
    /\ pc[p] = "lock"
    /\ \E r \in cand[p] :
          /\ Active(r)
          /\ held' = [held EXCEPT ![p] = r]
          /\ seen' = [seen EXCEPT ![p] = relation[r]]
    /\ pc' = [pc EXCEPT ![p] = "decide"]
    /\ UNCHANGED <<relation, owner, request, stamp, cand, todo, audited, clock, creates,
                   feedbacks, evidence>>

(* FOR UPDATE got the first row, and it is still active: fetchrow returns  *)
(* it and asks for no other.                                               *)
LockPrevious(p) ==
    /\ pc[p] = "lock"
    /\ \E r \in cand[p] :
          /\ Lock(p, r)
          /\ Active(r)
          /\ held' = [held EXCEPT ![p] = r]
          /\ seen' = [seen EXCEPT ![p] = relation[r]]
    /\ pc' = [pc EXCEPT ![p] = "decide"]
    /\ UNCHANGED <<relation, request, stamp, cand, todo, audited, clock, creates,
                   feedbacks, evidence>>

(* The row was superseded since the snapshot: valid_to IS NULL fails when  *)
(* it is re-checked on the locked row, which is left out.  Its lock stays. *)
SkipSuperseded(p) ==
    /\ pc[p] = "lock"
    /\ \E r \in cand[p] :
          /\ Lock(p, r)
          /\ ~Active(r)
          /\ cand' = [cand EXCEPT ![p] = @ \ {r}]
    /\ UNCHANGED <<relation, pc, request, stamp, held, seen, todo, audited, clock,
                   creates, feedbacks, evidence>>

(* No row left: the claim is inserted as the key's first active relation. *)
CreateFirst(p) ==
    /\ pc[p] = "lock"
    /\ cand[p] = {}
    /\ \E n \in Ids :
          /\ ~Used(n)
          /\ relation' = [relation EXCEPT ![n] = NewRow(request[p], stamp[p], FALSE, None)]
          /\ evidence' = [evidence EXCEPT ![n] = Weight[request[p].derivation] * Full]
    /\ EndTransaction(p)

(* Same object: the belief of the locked row, as it was read, is updated. *)
Corroborate(p) ==
    /\ pc[p] = "decide"
    /\ ResolveContradiction(seen[p], request[p]) = "corroborate"
    /\ LET weight == Weight[request[p].derivation]
           belief == ApplyEvidence(seen[p], request[p].confidence, weight, TRUE)
       IN  /\ relation' = [relation EXCEPT
                 ![held[p]].alpha = belief.alpha,
                 ![held[p]].beta = belief.beta,
                 ![held[p]].derivation =
                     UpgradedDerivation(seen[p].derivation, request[p].derivation)]
           /\ evidence' = [evidence EXCEPT ![held[p]] = @ + weight * Full]
    /\ EndTransaction(p)

(* The old relation is stronger: both stay active and contested. *)
Contest(p) ==
    /\ pc[p] = "decide"
    /\ ResolveContradiction(seen[p], request[p]) = "contest"
    /\ \E n \in Ids :
          /\ ~Used(n)
          /\ relation' = [relation EXCEPT ![n] = NewRow(request[p], stamp[p], TRUE, None),
                                          ![held[p]].contested = TRUE]
          /\ evidence' = [evidence EXCEPT ![n] = Weight[request[p].derivation] * Full]
    /\ EndTransaction(p)

(* It is not: the new relation takes its place. *)
Supersede(p) ==
    /\ pc[p] = "decide"
    /\ ResolveContradiction(seen[p], request[p]) = "supersede"
    /\ \E n \in Ids :
          /\ ~Used(n)
          /\ relation' = [relation EXCEPT ![n] = NewRow(request[p], stamp[p], FALSE, held[p]),
                                          ![held[p]].validTo = stamp[p],
                                          ![held[p]].supersededBy = n]
          /\ evidence' = [evidence EXCEPT ![n] = Weight[request[p].derivation] * Full]
    /\ EndTransaction(p)

-----------------------------------------------------------------------------
(* record_feedback, on any relation, active or superseded *)

BeginFeedback(p) ==
    /\ pc[p] = "idle"
    /\ feedbacks < MaxFeedback
    /\ \E r \in Ids, f \in Reports :
          /\ Used(r)
          /\ request' = [request EXCEPT ![p] =
                [relation |-> r, outcome |-> f.outcome, confidence |-> f.confidence]]
    /\ feedbacks' = feedbacks + 1
    /\ pc' = [pc EXCEPT ![p] = "lockFeedback"]
    /\ UNCHANGED <<relation, owner, stamp, cand, held, seen, todo, audited, clock,
                   creates, evidence>>

(* Mutant: the SELECT without FOR UPDATE. *)
ReadRelationUnlocked(p) ==
    /\ pc[p] = "lockFeedback"
    /\ held' = [held EXCEPT ![p] = request[p].relation]
    /\ seen' = [seen EXCEPT ![p] = relation[request[p].relation]]
    /\ pc' = [pc EXCEPT ![p] = "applyFeedback"]
    /\ UNCHANGED <<relation, owner, request, stamp, cand, todo, audited, clock, creates,
                   feedbacks, evidence>>

LockFeedback(p) ==
    /\ pc[p] = "lockFeedback"
    /\ Lock(p, request[p].relation)
    /\ held' = [held EXCEPT ![p] = request[p].relation]
    /\ seen' = [seen EXCEPT ![p] = relation[request[p].relation]]
    /\ pc' = [pc EXCEPT ![p] = "applyFeedback"]
    /\ UNCHANGED <<relation, request, stamp, cand, todo, audited, clock, creates,
                   feedbacks, evidence>>

RecordFeedback(p) ==
    /\ pc[p] = "applyFeedback"
    /\ LET belief == ApplyFeedback(seen[p], request[p].outcome, request[p].confidence)
       IN  relation' = [relation EXCEPT ![held[p]].alpha = belief.alpha,
                                        ![held[p]].beta = belief.beta]
    /\ evidence' = [evidence EXCEPT ![held[p]] = @ + FeedbackWeight * Full]
    /\ EndTransaction(p)

(* Mutant: no transaction around create_relation, and the row it replaces  *)
(* is closed before the new one is inserted.                               *)
FailAfterClosing(p) ==
    /\ pc[p] # "idle"
    /\ IF pc[p] = "decide" /\ ResolveContradiction(seen[p], request[p]) = "supersede"
       THEN relation' = [relation EXCEPT ![held[p]].validTo = stamp[p]]
       ELSE UNCHANGED relation
    /\ EndTransaction(p)
    /\ UNCHANGED evidence

(* StorageError, a lost connection or a crash: the transaction rolls back. *)
WriterFails(p) ==
    /\ pc[p] # "idle"
    /\ EndTransaction(p)
    /\ UNCHANGED <<relation, evidence>>

-----------------------------------------------------------------------------
(* run_rumination_pass *)

(* `now` is read before the pass starts. *)
BeginPass(p, force) ==
    /\ pc[p] = "idle"
    /\ stamp' = [stamp EXCEPT ![p] = clock]
    /\ pc' = [pc EXCEPT ![p] = IF force THEN "forceList" ELSE "list"]
    /\ UNCHANGED <<relation, owner, request, cand, held, seen, todo, audited, clock,
                   creates, feedbacks, evidence>>

ListContested(p) ==
    /\ pc[p] \in {"list", "forceList"}
    /\ todo' = [todo EXCEPT ![p] = Decisions(stamp[p], pc[p] = "forceList")]
    /\ pc' = [pc EXCEPT ![p] = "next"]
    /\ UNCHANGED <<relation, owner, locals, audited, clock, creates, feedbacks, evidence>>

(* Mutant: the audit entry is appended before the contest is resolved. *)
AuditThenLockWinner(p) ==
    /\ pc[p] = "next"
    /\ \E d \in todo[p] :
          /\ Lock(p, d.winner)
          /\ request' = [request EXCEPT ![p] = d]
          /\ todo' = [todo EXCEPT ![p] = @ \ {d}]
          /\ audited' = audited \cup {d}
    /\ pc' = [pc EXCEPT ![p] = "lockLoser"]
    /\ UNCHANGED <<relation, stamp, cand, held, seen, clock, creates, feedbacks, evidence>>

(* resolve_contest locks the winner, then the loser.  Neither is asked     *)
(* whether it is still active and contested.                               *)
LockWinner(p) ==
    /\ pc[p] = "next"
    /\ \E d \in todo[p] :
          /\ Lock(p, d.winner)
          /\ request' = [request EXCEPT ![p] = d]
          /\ todo' = [todo EXCEPT ![p] = @ \ {d}]
    /\ pc' = [pc EXCEPT ![p] = "lockLoser"]
    /\ UNCHANGED <<relation, stamp, cand, held, seen, audited, clock, creates,
                   feedbacks, evidence>>

LockLoser(p) ==
    /\ pc[p] = "lockLoser"
    /\ Lock(p, request[p].loser)
    /\ pc' = [pc EXCEPT ![p] = "resolve"]
    /\ UNCHANGED <<relation, locals, todo, audited, clock, creates, feedbacks, evidence>>

(* Mutant: the winner is made active, in case it was not. *)
ResolveAndReopen(p) ==
    /\ pc[p] = "resolve"
    /\ LET w == request[p].winner
           l == request[p].loser
       IN  relation' = [relation EXCEPT ![w].contested = FALSE,
                                        ![w].supersedes = l,
                                        ![w].validTo = None,
                                        ![l].contested = FALSE,
                                        ![l].validTo = stamp[p],
                                        ![l].supersededBy = w]
    /\ owner' = Unlocked(p)
    /\ pc' = [pc EXCEPT ![p] = "audit"]
    /\ UNCHANGED <<locals, todo, audited, clock, creates, feedbacks, evidence>>

ResolveContest(p) ==
    /\ pc[p] = "resolve"
    /\ LET w == request[p].winner
           l == request[p].loser
       IN  relation' = [relation EXCEPT ![w].contested = FALSE,
                                        ![w].supersedes = l,
                                        ![l].contested = FALSE,
                                        ![l].validTo = stamp[p],
                                        ![l].supersededBy = w]
    /\ owner' = Unlocked(p)
    /\ pc' = [pc EXCEPT ![p] = "audit"]
    /\ UNCHANGED <<locals, todo, audited, clock, creates, feedbacks, evidence>>

(* The audit entry is appended by a transaction of its own. *)
RecordAudit(p) ==
    /\ pc[p] = "audit"
    /\ audited' = audited \cup {request[p]}
    /\ request' = [request EXCEPT ![p] = None]
    /\ pc' = [pc EXCEPT ![p] = "next"]
    /\ UNCHANGED <<relation, owner, stamp, cand, held, seen, todo, clock, creates,
                   feedbacks, evidence>>

EndPass(p) ==
    /\ owner' = Unlocked(p)
    /\ pc' = [pc EXCEPT ![p] = "idle"]
    /\ request' = [request EXCEPT ![p] = None]
    /\ stamp' = [stamp EXCEPT ![p] = 0]
    /\ todo' = [todo EXCEPT ![p] = {}]
    /\ UNCHANGED <<relation, cand, held, seen, audited, clock, creates, feedbacks, evidence>>

FinishPass(p) ==
    /\ pc[p] = "next"
    /\ todo[p] = {}
    /\ EndPass(p)

(* Mutant: a transaction a pass abandons is not rolled back. *)
AbandonTransaction(p) ==
    /\ pc[p] # "idle"
    /\ pc' = [pc EXCEPT ![p] = "idle"]
    /\ request' = [request EXCEPT ![p] = None]
    /\ stamp' = [stamp EXCEPT ![p] = 0]
    /\ todo' = [todo EXCEPT ![p] = {}]
    /\ UNCHANGED <<relation, owner, cand, held, seen, audited, clock, creates, feedbacks,
                   evidence>>

(* Any step of a pass may raise, or the server may stop: the transaction   *)
(* under way rolls back and the rest of the pass is dropped.  The loop     *)
(* logs it and runs the next pass.                                         *)
PassFails(p) ==
    /\ pc[p] # "idle"
    /\ EndPass(p)

Tick ==
    /\ \E t \in Instants : t > clock /\ clock' = t
    /\ UNCHANGED <<relation, owner, pc, locals, todo, audited, creates, feedbacks, evidence>>

-----------------------------------------------------------------------------
(* Postgres's deadlock detector *)

(* Rows p may be waiting for: a SELECT visits its rows in any order. *)
Awaited(p) ==
    IF pc[p] = "lockLoser" THEN {request[p].loser}
    ELSE IF pc[p] = "lockFeedback" THEN {request[p].relation}
    ELSE IF pc[p] = "lock" THEN cand[p]
    ELSE {}

(* p is on a cycle of transactions each waiting for a row of the next. *)
Deadlocked(p) ==
    \E S \in SUBSET Procs :
        /\ p \in S
        /\ \E blocker \in [S -> S] :
              /\ {blocker[q] : q \in S} = S
              /\ \A q \in S : \E r \in Awaited(q) : owner[r] = blocker[q]

(* One of those on the cycle is aborted. *)
DeadlockVictim(p) ==
    /\ Deadlocked(p)
    /\ IF p \in Writers THEN WriterFails(p) ELSE PassFails(p)

-----------------------------------------------------------------------------

WriterStep(p) ==
    \/ ScanActive(p) \/ LockPrevious(p) \/ SkipSuperseded(p)
    \/ CreateFirst(p) \/ Corroborate(p) \/ Contest(p) \/ Supersede(p)
    \/ LockFeedback(p) \/ RecordFeedback(p) \/ DeadlockVictim(p)

PassStep(p) ==
    \/ ListContested(p) \/ LockWinner(p) \/ LockLoser(p) \/ ResolveContest(p)
    \/ RecordAudit(p) \/ FinishPass(p) \/ DeadlockVictim(p)

Next ==
    \/ \E p \in Writers : BeginCreate(p) \/ BeginFeedback(p) \/ WriterStep(p) \/ WriterFails(p)
    \/ \E p \in Ruminators :
          (\E force \in BOOLEAN : BeginPass(p, force)) \/ PassStep(p) \/ PassFails(p)
    \/ Tick

Spec == Init /\ [][Next]_vars

(* A transaction that can go on does.  A lock that is only free now and    *)
(* then is got in the end (Postgres queues those who wait for it).  The    *)
(* rumination loop never stops starting passes, and time goes on.  Nothing *)
(* makes callers submit claims, or calls fail.                             *)
Fairness ==
    /\ \A p \in Writers : SF_vars(WriterStep(p))
    /\ \A p \in Ruminators : SF_vars(PassStep(p)) /\ WF_vars(BeginPass(p, FALSE))
    /\ WF_vars(Tick)

FairSpec == Spec /\ Fairness

-----------------------------------------------------------------------------
(* Properties *)

WriterLabels == {"scan", "lock", "decide", "lockFeedback", "applyFeedback"}
PassLabels   == {"list", "forceList", "next", "lockLoser", "resolve", "audit"}

FeedbackType == [relation : Ids, outcome : {"confirmed", "contradicted"}, confidence : 0 .. Full]

ExistingPairs == {d \in Pairs : Used(d.winner) /\ Used(d.loser)}

(* The rows and requests p remembers exist at the step that uses them. *)
Remembers(p) ==
    /\ pc[p] \in {"scan", "lock", "decide"} => request[p] \in ClaimType
    /\ pc[p] \in {"lockFeedback", "applyFeedback"} =>
          request[p] \in FeedbackType /\ Used(request[p].relation)
    /\ pc[p] \in {"lockLoser", "resolve", "audit"} => request[p] \in ExistingPairs
    /\ pc[p] \in {"decide", "applyFeedback"} =>
          held[p] \in Ids /\ Used(held[p]) /\ seen[p] \in Row
    /\ todo[p] \subseteq ExistingPairs

(* Type invariant: every variable has its type, and no step of a           *)
(* transaction reads a row or a request that is not there.                 *)
TypeOK ==
    /\ relation \in [Ids -> Row \cup {None}]
    /\ owner \in [Ids -> Procs \cup {None}]
    /\ pc \in [Procs -> {"idle"} \cup WriterLabels \cup PassLabels]
    /\ \A p \in Writers : pc[p] \notin PassLabels
    /\ \A p \in Ruminators : pc[p] \notin WriterLabels
    /\ request \in [Procs -> ClaimType \cup FeedbackType \cup Pairs \cup {None}]
    /\ \A p \in Procs : Remembers(p)
    /\ stamp \in [Procs -> Instants]
    /\ cand \in [Procs -> SUBSET Ids]
    /\ held \in [Procs -> Ids \cup {None}]
    /\ seen \in [Procs -> Row \cup {None}]
    /\ todo \in [Procs -> SUBSET Pairs]
    /\ audited \subseteq Pairs
    /\ clock \in Instants
    /\ creates \in Nat /\ feedbacks \in Nat
    /\ evidence \in [Ids -> Nat]

(* What a transaction read under FOR UPDATE is still what the table holds  *)
(* when it writes, and a pass owns both rows it is about to update.        *)
ReadsStayCurrent ==
    \A p \in Procs :
        /\ pc[p] \in {"decide", "applyFeedback"} =>
              owner[held[p]] = p /\ seen[p] = relation[held[p]]
        /\ pc[p] \in {"lockLoser", "resolve"} => owner[request[p].winner] = p
        /\ pc[p] = "resolve" => owner[request[p].loser] = p

(* No update of a belief is lost: whatever transactions overlapped, a      *)
(* relation's belief is its prior plus all the evidence committed for it.  *)
(* What FOR UPDATE before the read-modify-write of create_relation and     *)
(* record_feedback is for.                                                 *)
EvidenceConserved ==
    \A r \in Ids : Used(r) => Mass(relation[r]) = 2 * Prior + evidence[r]

(* A key something was ever learnt about always has an active relation:    *)
(* create_relation never supersedes without a successor, and a pass never  *)
(* retires the side that the last surviving chain of successors ends in.   *)
FactNeverVanishes ==
    \A r \in Ids : Used(r) => \E s \in Ids : Active(s) /\ relation[s].key = relation[r].key

(* An audit entry of a resolution is about a loser that is superseded.     *)
AuditedLoserSuperseded ==
    \A d \in audited : Used(d.loser) /\ ~Active(d.loser)

(* create_relation's verdict holds for the rows as they are at the commit, *)
(* not only as they were read: an ingested relation takes the place of     *)
(* another only if that one does not outweigh it by the margin, and marks  *)
(* another contested only if it does.                                      *)
VerdictStillHolds ==
    [][\A r, n \in Ids :
          /\ Used(r) /\ ~Used(n)
          /\ relation'[n] # None
          /\ relation'[r] # relation[r]
          => (relation'[n].contested <=> Outweighs(relation[r], Scale, relation'[n], Scale))]_vars

(* The graph never forgets: a row stays, keeps its claim and its valid     *)
(* time's start, does not come back once superseded, does not lose         *)
(* evidence, and stays distilled once it is.                               *)
HistoryKept ==
    [][\A r \in Ids : Used(r) =>
          /\ relation'[r] # None
          /\ relation'[r].key = relation[r].key /\ relation'[r].object = relation[r].object
          /\ relation'[r].validFrom = relation[r].validFrom
          /\ ~Active(r) => relation'[r].validTo # None
          /\ relation'[r].alpha >= relation[r].alpha /\ relation'[r].beta >= relation[r].beta
          /\ relation[r].derivation = "distilled" => relation'[r].derivation = "distilled"]_vars

(* Every call and every pass comes to its end: no transaction waits for    *)
(* ever, deadlocks included.                                               *)
EverythingEnds == \A p \in Procs : pc[p] # "idle" ~> pc[p] = "idle"

=============================================================================
