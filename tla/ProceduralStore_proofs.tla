------------------------ MODULE ProceduralStore_proofs ------------------------
(***************************************************************************)
(* For any number of concurrent creates and outcomes, names and versions:  *)
(* the versions of a name form one line with one active end, the table     *)
(* implements SkillRegister, and every outcome answered as recorded is in  *)
(* the counts of one version, whose only others are of failed answers.     *)
(*                                                                         *)
(* The argument: a create that is about to replace a version owns its row  *)
(* lock, so nobody else replaces it, and a create that found none is let   *)
(* in by the unique index only if the name has no active version, which,   *)
(* as a name keeps one, means no version at all.                           *)
(***************************************************************************)
EXTENDS ProceduralStore, FiniteSetTheorems, TLAPS

(* The previous version a create is about to supersede still is active,    *)
(* and the create's transaction owns its lock.                             *)
PreviousProtected ==
  \A p \in Procs : held[p] # None =>
    pc[p] = "insert" /\ owner[held[p]] = p /\ Active(held[p])

(* What the partial unique index enforces.                                 *)
OneActive ==
  \A v, w \in Versions :
    Active(v) /\ Active(w) /\ version[v].name = version[w].name => v = w

LineInv == OneActive /\ NameKept /\ Lineage

-----------------------------------------------------------------------------
(* What the steps do to the table *)

(* A fresh version v of name n is inserted.                                *)
First(n, v) ==
  /\ ActiveVersions(n) = {}
  /\ v \in Versions /\ ~Used(v)
  /\ version' = [version EXCEPT ![v] = NewVersion(n, None)]

(* Version v takes the place of version h of name n.                       *)
Replace(n, h, v) ==
  /\ h \in Versions /\ Active(h) /\ version[h].name = n
  /\ v \in Versions /\ ~Used(v)
  /\ version' = [version EXCEPT ![h].supersededBy = v, ![v] = NewVersion(n, h)]

(* An outcome is counted for the active version v of name n.               *)
Count(n, v, s) ==
  /\ v \in Versions /\ Active(v) /\ version[v].name = n
  /\ version' = [version EXCEPT ![v].applied = @ + 1, ![v].success = @ + s]

Effect ==
  \/ UNCHANGED version
  \/ \E n \in Names :
       \/ \E v \in Versions : First(n, v)
       \/ \E h, v \in Versions : Replace(n, h, v)
       \/ \E v \in Versions, s \in {0, 1} : Count(n, v, s)

(* Rows a snapshot found are versions of the name that was asked for.      *)
ScansName ==
  \A p \in Procs :
    /\ pc[p] = "idle" => cand[p] = {}
    /\ \A v \in cand[p] : v \in Versions /\ Used(v) /\ version[v].name = request[p]

(* What a step makes of the table and of the outcomes answered. *)
Told(n) == found' = [found EXCEPT ![n] = @ + 1] /\ UNCHANGED unsure

Untold(n) == unsure' = [unsure EXCEPT ![n] = @ + 1] /\ UNCHANGED found

Answers ==
  \/ UNCHANGED <<version, found, unsure>>
  \/ \E n \in Names :
       \/ UNCHANGED version /\ Untold(n)
       \/ UNCHANGED <<found, unsure>> /\ \E v \in Versions : First(n, v)
       \/ UNCHANGED <<found, unsure>> /\ \E h, v \in Versions : Replace(n, h, v)
       \/ /\ \E v \in Versions, s \in {0, 1} : Count(n, v, s)
          /\ Told(n) \/ Untold(n)

LEMMA StepAnswers ==
  ASSUME TypeOK, ScansName, PreviousProtected, [Next]_vars
  PROVE  Answers
<1>1. ASSUME NEW p \in Distillers, InsertFirst(p) PROVE Answers
  <2>1. request[p] \in Names
    BY <1>1 DEF InsertFirst, TypeOK, Procs
  <2>2. ActiveVersions(request[p]) = {}
    BY <1>1, ProceduralAssumption DEF InsertFirst, IndexAdmits, ActiveVersions
  <2> QED
    BY <1>1, <2>1, <2>2 DEF InsertFirst, Answers, First
<1>2. ASSUME NEW p \in Distillers, InsertSuperseding(p) PROVE Answers
  <2>1. /\ request[p] \in Names /\ held[p] \in Versions
        /\ Active(held[p]) /\ version[held[p]].name = request[p]
    <3>1. p \in Procs /\ held[p] # None /\ pc[p] = "insert"
      BY <1>2 DEF InsertSuperseding, Procs
    <3>2. Active(held[p])
      BY <3>1 DEF PreviousProtected
    <3> QED
      BY <3>1, <3>2 DEF TypeOK
  <2>2. PICK v \in Versions :
          /\ ~Used(v)
          /\ version' = [version EXCEPT ![held[p]].supersededBy = v,
                                        ![v] = NewVersion(request[p], held[p])]
    BY <1>2 DEF InsertSuperseding
  <2>3. Replace(request[p], held[p], v) /\ UNCHANGED <<found, unsure>>
    BY <1>2, <2>1, <2>2 DEF Replace, InsertSuperseding
  <2> QED
    BY <2>1, <2>3 DEF Answers
<1>3. ASSUME NEW p \in Reporters, RecordOutcome(p) PROVE Answers
  <2>1. PICK v \in cand[p], s \in {0, 1} :
          /\ Active(v)
          /\ version' = [version EXCEPT ![v].applied = @ + 1, ![v].success = @ + s]
    BY <1>3 DEF RecordOutcome
  <2>2. request[p] \in Names /\ v \in Versions /\ version[v].name = request[p]
    BY <1>3, <2>1 DEF RecordOutcome, TypeOK, ScansName, Procs
  <2>3. Count(request[p], v, s) /\ (Told(request[p]) \/ Untold(request[p]))
    BY <1>3, <2>1, <2>2 DEF Count, RecordOutcome, CommitOutcome, Told, Untold
  <2> QED
    BY <2>2, <2>3 DEF Answers
<1>4. ASSUME NEW p \in Procs, CallFails(p) PROVE Answers
  <2>1. request[p] \in Names
    BY <1>4 DEF CallFails, TypeOK
  <2> QED
    BY <1>4, <2>1 DEF CallFails, Answers, Untold
<1> QED
  BY <1>1, <1>2, <1>3, <1>4
  DEF Next, vars, CreateStep, ReportStep, BeginCreate, ScanActive, LockPrevious, FindNoPrevious,
      InsertCollides, BeginReport, ScanReport, MissOutcome, Answers, Procs

LEMMA StepEffect ==
  ASSUME TypeOK, ScansName, PreviousProtected, [Next]_vars
  PROVE  Effect
BY StepAnswers DEF Answers, Effect

(* No version disappears or changes its name, no superseded one comes      *)
(* back, and an active one stays so unless it is replaced.                 *)
LEMMA EffectGrows ==
  ASSUME TypeOK, Effect
  PROVE  /\ version' \in [Versions -> Row \cup {None}]
         /\ \A v \in Versions : Used(v) => Used(v)' /\ version'[v].name = version[v].name
<1> USE RowAssumption DEF Used, Active, NewVersion
<1>1. version \in [Versions -> Row \cup {None}]
  BY DEF TypeOK
<1>2. CASE UNCHANGED version
  BY <1>1, <1>2
<1>3. ASSUME NEW n \in Names, NEW v \in Versions, First(n, v)
      PROVE  /\ version' \in [Versions -> Row \cup {None}]
             /\ \A w \in Versions : Used(w) => Used(w)' /\ version'[w].name = version[w].name
  <2>1. NewVersion(n, None) \in Row
    BY DEF Row
  <2>2. QED
    BY <1>1, <1>3, <2>1 DEF First
<1>4. ASSUME NEW n \in Names, NEW h \in Versions, NEW v \in Versions, Replace(n, h, v)
      PROVE  /\ version' \in [Versions -> Row \cup {None}]
             /\ \A w \in Versions : Used(w) => Used(w)' /\ version'[w].name = version[w].name
  <2>1. NewVersion(n, h) \in Row /\ h # v
    BY <1>4 DEF Row, Replace
  <2>2. version[h] \in Row
    BY <1>1, <1>4 DEF Replace
  <2>3. [version[h] EXCEPT !.supersededBy = v] \in Row
    BY <2>2 DEF Row
  <2>4. version' = [version EXCEPT ![h] = [version[h] EXCEPT !.supersededBy = v],
                                   ![v] = NewVersion(n, h)]
    BY <1>1, <1>4, <2>1 DEF Replace
  <2>5. [version[h] EXCEPT !.supersededBy = v].name = version[h].name
    BY <2>2 DEF Row
  <2>6. QED
    BY <1>1, <1>4, <2>1, <2>3, <2>4, <2>5 DEF Replace
<1>5. ASSUME NEW n \in Names, NEW v \in Versions, NEW s \in {0, 1}, Count(n, v, s)
      PROVE  /\ version' \in [Versions -> Row \cup {None}]
             /\ \A w \in Versions : Used(w) => Used(w)' /\ version'[w].name = version[w].name
  <2> DEFINE new == [version[v] EXCEPT !.applied = @ + 1, !.success = @ + s]
  <2>1. version[v] \in Row
    BY <1>1, <1>5 DEF Count
  <2>2. new \in Row /\ new.name = version[v].name
    <3>1. \A a, b \in Nat :
            LET row == [version[v] EXCEPT !.applied = a, !.success = b]
            IN  row \in Row /\ row.name = version[v].name
      BY <2>1 DEF Row
    <3>2. version[v].applied + 1 \in Nat /\ version[v].success + s \in Nat
      BY <2>1 DEF Row
    <3>3. QED
      BY <3>1, <3>2
  <2>3. version' = [version EXCEPT ![v] = new]
    BY <1>1, <1>5, <2>1 DEF Count, Row
  <2>4. QED
    BY <1>1, <2>2, <2>3
<1>6. QED
  BY <1>2, <1>3, <1>4, <1>5 DEF Effect

-----------------------------------------------------------------------------
(* Type correctness and protected reads *)

Base == TypeOK /\ ScansName /\ PreviousProtected

LEMMA BaseInit == Init => Base
BY ProceduralAssumption, RowAssumption
DEF Init, Base, TypeOK, ScansName, PreviousProtected, Procs

(* A step that ends p's call, whatever it wrote, as long as it took no     *)
(* other's locked row out of the active ones.                              *)
LEMMA EndKeepsBase ==
  ASSUME Base, Effect, NEW p \in Procs,
         NEW a \in {"created", "name taken", "recorded", "not found", "failed"}, EndCall(p, a),
         found' \in [Names -> Nat], unsure' \in [Names -> Nat],
         \A v \in Versions : Active(v) /\ owner[v] \notin {p, None} => Active(v)'
  PROVE  Base'
<1> USE DEF Base
<1>1. /\ version' \in [Versions -> Row \cup {None}]
      /\ \A v \in Versions : Used(v) => Used(v)' /\ version'[v].name = version[v].name
  BY EffectGrows
<1>2. TypeOK'
  BY <1>1 DEF TypeOK, EndCall
<1>3. ScansName'
  BY <1>1 DEF ScansName, TypeOK, EndCall
<1>4. PreviousProtected'
  <2> SUFFICES ASSUME NEW q \in Procs, held'[q] # None
               PROVE  /\ pc'[q] = "insert" /\ owner'[held'[q]] = q
                      /\ Active(held[q])' /\ held'[q] = held[q]
    BY DEF PreviousProtected, Active, Used
  <2>1. q # p /\ pc'[q] = pc[q] /\ held'[q] = held[q] /\ held[q] \in Versions
    BY DEF EndCall, TypeOK
  <2>2. pc[q] = "insert" /\ owner[held[q]] = q /\ Active(held[q])
    BY <2>1 DEF PreviousProtected
  <2>3. owner'[held[q]] = q
    BY <2>1, <2>2 DEF EndCall
  <2>4. QED
    BY <2>1, <2>2, <2>3, ProceduralAssumption
<1>5. QED
  BY <1>2, <1>3, <1>4

(* A step of p that writes nothing and takes no lock from another.         *)
LEMMA QuietKeepsProtected ==
  ASSUME Base, UNCHANGED version, NEW p \in Procs,
         \A v \in Versions : owner[v] # None => owner'[v] = owner[v],
         \A q \in Procs : q # p => pc'[q] = pc[q] /\ held'[q] = held[q],
         held'[p] # None =>
           pc'[p] = "insert" /\ owner'[held'[p]] = p /\ Active(held'[p])
  PROVE  PreviousProtected'
<1> SUFFICES ASSUME NEW q \in Procs, held'[q] # None
             PROVE  pc'[q] = "insert" /\ owner'[held'[q]] = q /\ Active(held'[q])
  BY DEF PreviousProtected, Active, Used
<1>1. CASE q = p
  BY <1>1
<1>2. CASE q # p
  <2>1. held'[q] = held[q] /\ pc'[q] = pc[q] /\ held[q] # None
    BY <1>2
  <2>2. pc[q] = "insert" /\ owner[held[q]] = q /\ Active(held[q])
    BY <2>1 DEF Base, PreviousProtected
  <2>3. held[q] \in Versions
    BY <2>1 DEF Base, TypeOK
  <2>4. q # None
    BY ProceduralAssumption
  <2>5. QED
    BY <2>1, <2>2, <2>3, <2>4
<1>3. QED
  BY <1>1, <1>2

(* A call that has not begun has found and locked nothing.                 *)
LEMMA NothingIdle ==
  ASSUME Base, NEW p \in Procs, pc[p] = "idle"
  PROVE  held[p] = None /\ cand[p] = {}
BY DEF Base, PreviousProtected, ScansName

LEMMA OneMore ==
  ASSUME NEW f \in [Names -> Nat], NEW n \in Names
  PROVE  [f EXCEPT ![n] = @ + 1] \in [Names -> Nat]
OBVIOUS

LEMMA BaseStep == Base /\ [Next]_vars => Base'
<1> SUFFICES ASSUME Base, [Next]_vars PROVE Base'
  OBVIOUS
<1> USE DEF Base
<1>1. Effect
  BY StepEffect
<1>2. ASSUME NEW p \in Distillers, BeginCreate(p) PROVE Base'
  <2> p \in Procs /\ held[p] = None /\ cand[p] = {}
    BY <1>2, NothingIdle DEF BeginCreate, Procs
  <2>1. PICK n \in Names : request' = [request EXCEPT ![p] = n]
    BY <1>2 DEF BeginCreate
  <2>2. TypeOK'
    <3>1. ASSUME NEW q \in Procs
          PROVE  /\ pc'[q] # "idle" => request'[q] \in Names
                 /\ held'[q] # None =>
                      Used(held'[q]) /\ version[held'[q]].name = request'[q]
      BY <1>2, <2>1 DEF BeginCreate, TypeOK
    <3>2. /\ pc' \in [Procs -> {"idle", "scan", "lock", "insert", "scanReport", "update"}]
          /\ request' \in [Procs -> Names \cup {None}]
      BY <1>2, <2>1 DEF BeginCreate, TypeOK
    <3>3. answer' \in [Procs -> {None, "created", "name taken", "recorded", "not found", "failed"}]
      BY <1>2 DEF BeginCreate, TypeOK
    <3>4. creates' \in Nat /\ reports' \in Nat
      <4>1. creates' = creates + 1 /\ reports' = reports
        BY <1>2 DEF BeginCreate
      <4>2. creates \in Nat /\ reports \in Nat
        BY DEF TypeOK
      <4>3. QED
        BY <4>1, <4>2
    <3>5. UNCHANGED <<version, owner, cand, held, found, unsure>>
      BY <1>2 DEF BeginCreate
    <3>6. QED
      BY <3>1, <3>2, <3>3, <3>4, <3>5 DEF TypeOK, Used
  <2>3. ScansName'
    BY <1>2, <2>1 DEF BeginCreate, ScansName, Used, TypeOK
  <2>4. PreviousProtected'
    BY <1>2, QuietKeepsProtected DEF BeginCreate, TypeOK
  <2>5. QED
    BY <2>2, <2>3, <2>4
<1>3. ASSUME NEW p \in Distillers, ScanActive(p) PROVE Base'
  <2>1. TypeOK'
    BY <1>3 DEF ScanActive, ActiveVersions, TypeOK, Used, Procs
  <2>2. ScansName'
    BY <1>3 DEF ScanActive, ActiveVersions, TypeOK, ScansName, Used, Active, Procs
  <2>3. held[p] = None
    BY <1>3 DEF ScanActive, PreviousProtected, Procs
  <2>4. PreviousProtected'
    BY <1>3, <2>3, QuietKeepsProtected DEF ScanActive, TypeOK, Procs
  <2>5. QED
    BY <2>1, <2>2, <2>4
<1>4. ASSUME NEW p \in Distillers, LockPrevious(p) PROVE Base'
  <2>1. PICK v \in cand[p] :
          Lock(p, v) /\ Active(v) /\ held' = [held EXCEPT ![p] = v]
    BY <1>4 DEF LockPrevious
  <2>2. v \in Versions /\ Used(v) /\ version[v].name = request[p]
    BY <2>1 DEF ScansName, Procs
  <2>3. TypeOK'
    BY <1>4, <2>1, <2>2 DEF LockPrevious, Lock, TypeOK, Used, Procs
  <2>4. ScansName'
    BY <1>4 DEF LockPrevious, ScansName, Used
  <2>5. PreviousProtected'
    BY <1>4, <2>1, <2>2, QuietKeepsProtected DEF LockPrevious, Lock, TypeOK, Procs
  <2>6. QED
    BY <2>3, <2>4, <2>5
<1>5. ASSUME NEW p \in Distillers, FindNoPrevious(p) PROVE Base'
  <2>1. TypeOK'
    BY <1>5 DEF FindNoPrevious, TypeOK, Used, Procs
  <2>2. ScansName'
    BY <1>5 DEF FindNoPrevious, ScansName, Used
  <2>3. \A v \in Versions : owner[v] # None => owner'[v] = owner[v]
    BY <1>5 DEF FindNoPrevious
  <2>4. held[p] = None
    BY <1>5 DEF FindNoPrevious, PreviousProtected, Procs
  <2>5. PreviousProtected'
    BY <1>5, <2>3, <2>4, QuietKeepsProtected DEF FindNoPrevious, TypeOK, Procs
  <2>6. QED
    BY <2>1, <2>2, <2>5
<1>6. ASSUME NEW p \in Reporters, BeginReport(p) PROVE Base'
  <2> p \in Procs /\ held[p] = None /\ cand[p] = {}
    BY <1>6, NothingIdle DEF BeginReport, Procs
  <2>1. PICK n \in Names : request' = [request EXCEPT ![p] = n]
    BY <1>6 DEF BeginReport
  <2>2. TypeOK'
    <3>1. ASSUME NEW q \in Procs
          PROVE  /\ pc'[q] # "idle" => request'[q] \in Names
                 /\ held'[q] # None =>
                      Used(held'[q]) /\ version[held'[q]].name = request'[q]
      BY <1>6, <2>1 DEF BeginReport, TypeOK
    <3>2. /\ pc' \in [Procs -> {"idle", "scan", "lock", "insert", "scanReport", "update"}]
          /\ request' \in [Procs -> Names \cup {None}]
      BY <1>6, <2>1 DEF BeginReport, TypeOK
    <3>3. answer' \in [Procs -> {None, "created", "name taken", "recorded", "not found", "failed"}]
      BY <1>6 DEF BeginReport, TypeOK
    <3>4. creates' \in Nat /\ reports' \in Nat
      <4>1. reports' = reports + 1 /\ creates' = creates
        BY <1>6 DEF BeginReport
      <4>2. creates \in Nat /\ reports \in Nat
        BY DEF TypeOK
      <4>3. QED
        BY <4>1, <4>2
    <3>5. UNCHANGED <<version, owner, cand, held, found, unsure>>
      BY <1>6 DEF BeginReport
    <3>6. QED
      BY <3>1, <3>2, <3>3, <3>4, <3>5 DEF TypeOK, Used
  <2>3. ScansName'
    BY <1>6, <2>1 DEF BeginReport, ScansName, Used, TypeOK
  <2>4. PreviousProtected'
    BY <1>6, QuietKeepsProtected DEF BeginReport, TypeOK
  <2>5. QED
    BY <2>2, <2>3, <2>4
<1>7. ASSUME NEW p \in Reporters, ScanReport(p) PROVE Base'
  <2>1. TypeOK'
    BY <1>7 DEF ScanReport, ActiveVersions, TypeOK, Used, Procs
  <2>2. ScansName'
    BY <1>7 DEF ScanReport, ActiveVersions, TypeOK, ScansName, Used, Active, Procs
  <2>3. held[p] = None
    BY <1>7 DEF ScanReport, PreviousProtected, Procs
  <2>4. PreviousProtected'
    BY <1>7, <2>3, QuietKeepsProtected DEF ScanReport, TypeOK, Procs
  <2>5. QED
    BY <2>1, <2>2, <2>4
<1>8. ASSUME NEW p \in Distillers, InsertFirst(p) PROVE Base'
  <2>1. \A v \in Versions : Active(v) => Active(v)'
    BY <1>8 DEF InsertFirst, Active, Used, TypeOK
  <2>2. PICK a \in {"created", "failed"} : EndCall(p, a)
    BY <1>8 DEF InsertFirst, Commit
  <2>3. found' \in [Names -> Nat] /\ unsure' \in [Names -> Nat]
    BY <1>8 DEF InsertFirst, TypeOK
  <2>4. QED
    BY <1>1, <2>1, <2>2, <2>3, EndKeepsBase DEF Procs
<1>9. ASSUME NEW p \in Distillers, InsertSuperseding(p) PROVE Base'
  <2>1. owner[held[p]] = p
    BY <1>9 DEF InsertSuperseding, PreviousProtected, Procs
  <2>2. \A v \in Versions : Active(v) /\ v # held[p] => Active(v)'
    BY <1>9 DEF InsertSuperseding, Active, Used, TypeOK
  <2>3. PICK a \in {"created", "failed"} : EndCall(p, a)
    BY <1>9 DEF InsertSuperseding, Commit
  <2>4. found' \in [Names -> Nat] /\ unsure' \in [Names -> Nat]
    BY <1>9 DEF InsertSuperseding, TypeOK
  <2>5. QED
    BY <1>1, <2>1, <2>2, <2>3, <2>4, EndKeepsBase DEF Procs
<1>10. ASSUME NEW p \in Reporters, RecordOutcome(p) PROVE Base'
  <2>1. PICK v \in cand[p], s \in {0, 1} :
          /\ Active(v)
          /\ version' = [version EXCEPT ![v].applied = @ + 1, ![v].success = @ + s]
    BY <1>10 DEF RecordOutcome
  <2>2. version[v] \in Row
    <3>1. v \in Versions /\ Used(v)
      BY <2>1 DEF ScansName, Procs
    <3>2. QED
      BY <3>1 DEF TypeOK, Used
  <2>3. \A w \in Versions : Active(w) => Active(w)'
    <3>1. ASSUME NEW w \in Versions, Active(w), w # v PROVE Active(w)'
      BY <2>1, <3>1 DEF Active, Used, TypeOK
    <3>2. Active(v)'
      BY <2>1, <2>2, <1>1, EffectGrows DEF Active, Used, TypeOK, ScansName, Row, Procs
    <3>3. QED
      BY <3>1, <3>2
  <2>4. PICK a \in {"recorded", "failed"} : EndCall(p, a)
    BY <1>10 DEF RecordOutcome, CommitOutcome
  <2>5. found' \in [Names -> Nat] /\ unsure' \in [Names -> Nat]
    <3>1. /\ found \in [Names -> Nat] /\ unsure \in [Names -> Nat]
          /\ request[p] \in Names
      BY <1>10 DEF RecordOutcome, TypeOK, Procs
    <3>2. \/ found' = [found EXCEPT ![request[p]] = @ + 1] /\ unsure' = unsure
          \/ unsure' = [unsure EXCEPT ![request[p]] = @ + 1] /\ found' = found
      BY <1>10 DEF RecordOutcome, CommitOutcome
    <3> QED
      BY <3>1, <3>2
  <2>6. QED
    BY <1>1, <2>3, <2>4, <2>5, EndKeepsBase DEF Procs
<1>11. ASSUME NEW p \in Procs, InsertCollides(p) \/ MissOutcome(p) \/ CallFails(p) PROVE Base'
  <2>1. PICK a \in {"name taken", "not found", "failed"} : EndCall(p, a)
    BY <1>11 DEF InsertCollides, MissOutcome, CallFails
  <2>2. UNCHANGED <<version, found>>
    BY <1>11 DEF InsertCollides, MissOutcome, CallFails
  <2>3. unsure' \in [Names -> Nat]
    <3>1. unsure \in [Names -> Nat]
      BY DEF TypeOK
    <3>2. CASE InsertCollides(p) \/ MissOutcome(p)
      BY <3>1, <3>2 DEF InsertCollides, MissOutcome
    <3>3. CASE CallFails(p)
      <4>1. request[p] \in Names
        BY <3>3 DEF CallFails, TypeOK
      <4>2. unsure' = IF p \in Reporters THEN [unsure EXCEPT ![request[p]] = @ + 1] ELSE unsure
        BY <3>3 DEF CallFails
      <4> QED
        BY <3>1, <4>1, <4>2, OneMore, Zenon
    <3> QED
      BY <1>11, <3>2, <3>3
  <2>4. QED
    BY <1>1, <2>1, <2>2, <2>3, EndKeepsBase DEF TypeOK, Active, Used
<1>12. CASE UNCHANGED vars
  BY <1>12 DEF vars, TypeOK, ScansName, PreviousProtected, Used, Active
<1>13. QED
  BY <1>2, <1>3, <1>4, <1>5, <1>6, <1>7, <1>8, <1>9, <1>10, <1>11, <1>12
  DEF Next, CreateStep, ReportStep, Procs

LEMMA BaseAlways == Spec => []Base
BY BaseInit, BaseStep, PTL DEF Spec

(* Every version, lock and call is well formed, and no call uses a row     *)
(* that is not there.                                                      *)
THEOREM TypeCorrect == Spec => []TypeOK
<1>1. Base => TypeOK
  BY DEF Base
<1>2. QED
  BY <1>1, BaseAlways, PTL

-----------------------------------------------------------------------------
(* One line of versions per name *)

(* A name without an active version has none at all.                       *)
LEMMA NoneWithoutActive ==
  ASSUME NameKept, NEW n, ActiveVersions(n) = {}, NEW v \in Versions, Used(v)
  PROVE  version[v].name # n
BY DEF NameKept

LEMMA FirstKeepsLine ==
  ASSUME TypeOK, LineInv, NEW n \in Names, NEW v \in Versions, First(n, v)
  PROVE  LineInv'
<1> USE RowAssumption, ProceduralAssumption
<1>1. \A w \in Versions : Used(w) => version[w].name # n
  BY NoneWithoutActive DEF First, LineInv
<1>2. /\ version'[v] = NewVersion(n, None)
      /\ \A w \in Versions : w # v => version'[w] = version[w]
  BY DEF First, TypeOK
<1>3. /\ version'[v].name = n /\ version'[v].supersedes = None
      /\ version'[v].supersededBy = None
      /\ NewVersion(n, None) \in Row /\ NewVersion(n, None) # None
  BY <1>2 DEF NewVersion, Row
<1>4. ~Used(v) /\ Used(v)' /\ \A w \in Versions : w # v => (Used(w)' <=> Used(w))
  BY <1>2, <1>3 DEF Used, First
<1>5. OneActive'
  BY <1>1, <1>2, <1>3, <1>4 DEF LineInv, OneActive, Active
<1>6. NameKept'
  BY <1>1, <1>2, <1>3, <1>4 DEF LineInv, NameKept, ActiveVersions, Active
<1>7. Lineage'
  BY <1>1, <1>2, <1>3, <1>4 DEF LineInv, Lineage
<1>8. QED
  BY <1>5, <1>6, <1>7 DEF LineInv

LEMMA ReplaceKeepsLine ==
  ASSUME TypeOK, LineInv, NEW n \in Names, NEW h \in Versions, NEW v \in Versions,
         Replace(n, h, v)
  PROVE  LineInv'
<1> USE RowAssumption, ProceduralAssumption
<1>1. h # v /\ Used(h) /\ ~Used(v) /\ version[h] \in Row
      /\ version[h].supersededBy = None /\ version[h].name = n
  BY DEF Replace, Active, Used, TypeOK
<1>2. /\ version'[v] = NewVersion(n, h)
      /\ version'[h] = [version[h] EXCEPT !.supersededBy = v]
      /\ \A w \in Versions : w \notin {h, v} => version'[w] = version[w]
  BY <1>1 DEF Replace, TypeOK
<1>3. /\ version'[v].name = n /\ version'[v].supersedes = h
      /\ version'[v].supersededBy = None
      /\ NewVersion(n, h) \in Row /\ NewVersion(n, h) # None
  BY <1>2 DEF NewVersion, Row
<1>4. /\ version'[h].name = n /\ version'[h].supersedes = version[h].supersedes
      /\ version'[h].supersededBy = v
      /\ version'[h] \in Row /\ version'[h] # None
  BY <1>1, <1>2 DEF Row
<1>5. /\ Used(v)' /\ Used(h)'
      /\ \A w \in Versions : w # v => (Used(w)' <=> Used(w))
  BY <1>1, <1>2, <1>3, <1>4 DEF Used
<1>6. \A w \in Versions : w # v => /\ version'[w].name = version[w].name
                                  /\ version'[w].supersedes = version[w].supersedes
  BY <1>1, <1>2, <1>4
<1>7. OneActive'
  <2>1. \A w \in Versions : Active(w)' <=> w = v \/ (w # h /\ Active(w))
    BY <1>1, <1>2, <1>3, <1>4, <1>5 DEF Active
  <2>2. \A w \in Versions : w # h /\ Active(w) => version[w].name # n
    BY <1>1 DEF LineInv, OneActive, Active
  <2>3. QED
    BY <1>1, <1>3, <1>6, <2>1, <2>2 DEF LineInv, OneActive
<1>8. NameKept'
  <2> SUFFICES ASSUME NEW w \in Versions, Used(w)'
               PROVE  \E u \in Versions : Active(u)' /\ version'[u].name = version'[w].name
    BY DEF NameKept, ActiveVersions
  <2>1. CASE version'[w].name = n
    BY <1>3, <1>5, <2>1 DEF Active
  <2>2. CASE version'[w].name # n
    <3>1. w # v /\ Used(w) /\ version[w].name # n
      BY <1>3, <1>5, <1>6, <2>2
    <3>2. PICK u \in Versions : Active(u) /\ version[u].name = version[w].name
      BY <3>1 DEF LineInv, NameKept, ActiveVersions
    <3>3. u \notin {h, v}
      BY <1>1, <3>1, <3>2 DEF Active
    <3>4. QED
      BY <1>2, <1>5, <1>6, <3>1, <3>2, <3>3 DEF Active
  <2>3. QED
    BY <2>1, <2>2
<1>9. Lineage'
  <2>1. ASSUME NEW a \in Versions, NEW b \in Versions, Used(a)', version'[a].supersededBy = b
        PROVE  Used(b)' /\ version'[b].supersedes = a /\ version'[b].name = version'[a].name
    <3>1. CASE a = h
      BY <1>3, <1>4, <1>5, <2>1, <3>1
    <3>2. CASE a = v
      BY <1>3, <2>1, <3>2
    <3>3. CASE a \notin {h, v}
      <4>1. Used(a) /\ version[a].supersededBy = b
        BY <1>2, <1>5, <2>1, <3>3
      <4>2. Used(b) /\ version[b].supersedes = a /\ version[b].name = version[a].name
        BY <4>1 DEF LineInv, Lineage
      <4>3. QED
        BY <1>1, <1>5, <1>6, <3>3, <4>2
    <3>4. QED
      BY <3>1, <3>2, <3>3
  <2>2. ASSUME NEW a \in Versions, NEW b \in Versions, Used(b)', version'[b].supersedes = a
        PROVE  Used(a)' /\ version'[a].supersededBy = b
    <3>1. CASE b = v
      BY <1>3, <1>4, <1>5, <2>2, <3>1
    <3>2. CASE b # v
      <4>1. Used(a) /\ version[a].supersededBy = b
        BY <1>5, <1>6, <2>2, <3>2 DEF LineInv, Lineage
      <4>2. QED
        BY <1>1, <1>2, <1>5, <4>1
    <3>3. QED
      BY <3>1, <3>2
  <2>3. ASSUME NEW a \in Versions, NEW b \in Versions, Used(a)', Used(b)',
               version'[a].name = version'[b].name,
               version'[a].supersedes = None, version'[b].supersedes = None
        PROVE  a = b
    <3>1. a # v /\ b # v
      BY <1>3, <2>3
    <3>2. QED
      BY <1>5, <1>6, <2>3, <3>1 DEF LineInv, Lineage
  <2>4. QED
    BY <2>1, <2>2, <2>3 DEF Lineage
<1>10. QED
  BY <1>7, <1>8, <1>9 DEF LineInv

(* Steps that leave names and links as they are.                           *)
LEMMA SameLinksKeepLine ==
  ASSUME LineInv,
         \A w \in Versions : /\ Used(w)' <=> Used(w)
                             /\ Used(w) =>
                                  /\ version'[w].name = version[w].name
                                  /\ version'[w].supersedes = version[w].supersedes
                                  /\ version'[w].supersededBy = version[w].supersededBy
  PROVE  LineInv'
<1>1. OneActive'
  BY DEF LineInv, OneActive, Active
<1>2. NameKept'
  BY DEF LineInv, NameKept, ActiveVersions, Active
<1>3. Lineage'
  BY DEF LineInv, Lineage
<1>4. QED
  BY <1>1, <1>2, <1>3 DEF LineInv

LEMMA CountKeepsLinks ==
  ASSUME TypeOK, NEW n \in Names, NEW v \in Versions, NEW s \in {0, 1}, Count(n, v, s)
  PROVE  /\ \A w \in Versions : w # v => version'[w] = version[w]
         /\ Used(v) /\ Used(v)' /\ version'[v] \in Row
         /\ version'[v].name = version[v].name
         /\ version'[v].supersedes = version[v].supersedes
         /\ version'[v].supersededBy = version[v].supersededBy
         /\ version'[v].applied = version[v].applied + 1
         /\ version'[v].success = version[v].success + s
<1> DEFINE new == [version[v] EXCEPT !.applied = version[v].applied + 1,
                                     !.success = version[v].success + s]
<1>1. Used(v) /\ version[v] \in Row
  BY DEF Count, Active, Used, TypeOK
<1>2. version' = [version EXCEPT ![v] = new]
  BY <1>1 DEF Count, TypeOK, Row
<1>3. version'[v] = new
  BY <1>2 DEF TypeOK
<1>4. version[v].applied + 1 \in Nat /\ version[v].success + s \in Nat
  BY <1>1 DEF Row
<1>5. \A a, b \in Nat :
        LET row == [version[v] EXCEPT !.applied = a, !.success = b]
        IN  /\ row \in Row /\ row.name = version[v].name
            /\ row.supersedes = version[v].supersedes
            /\ row.supersededBy = version[v].supersededBy
            /\ row.applied = a /\ row.success = b
  BY <1>1 DEF Row
<1>6. /\ new \in Row /\ new.name = version[v].name
      /\ new.supersedes = version[v].supersedes
      /\ new.supersededBy = version[v].supersededBy
      /\ new.applied = version[v].applied + 1
      /\ new.success = version[v].success + s
  BY <1>4, <1>5
<1>7. \A w \in Versions : w # v => version'[w] = version[w]
  BY <1>2 DEF TypeOK
<1>8. QED
  BY <1>1, <1>3, <1>6, <1>7, RowAssumption DEF Used

LEMMA LineStep == TypeOK /\ LineInv /\ Effect => LineInv'
<1> SUFFICES ASSUME TypeOK, LineInv, Effect PROVE LineInv'
  OBVIOUS
<1>1. CASE UNCHANGED version
  BY <1>1, SameLinksKeepLine DEF Used
<1>2. ASSUME NEW n \in Names, NEW v \in Versions, First(n, v) PROVE LineInv'
  BY <1>2, FirstKeepsLine
<1>3. ASSUME NEW n \in Names, NEW h \in Versions, NEW v \in Versions, Replace(n, h, v)
      PROVE  LineInv'
  BY <1>3, ReplaceKeepsLine
<1>4. ASSUME NEW n \in Names, NEW v \in Versions, NEW s \in {0, 1}, Count(n, v, s)
      PROVE  LineInv'
  <2>1. \A w \in Versions : w # v => version'[w] = version[w]
    BY <1>4, CountKeepsLinks
  <2>2. QED
    BY <1>4, <2>1, CountKeepsLinks, SameLinksKeepLine DEF Used
<1>5. QED
  BY <1>1, <1>2, <1>3, <1>4 DEF Effect

LEMMA LineAlways == Spec => [](Base /\ LineInv)
<1>1. Init => Base /\ LineInv
  BY BaseInit DEF Init, LineInv, OneActive, NameKept, Lineage, Active, Used
<1>2. Base /\ LineInv /\ [Next]_vars => (Base /\ LineInv)'
  BY BaseStep, LineStep, StepEffect DEF Base
<1>3. QED
  BY <1>1, <1>2, PTL DEF Spec

(* However many creates of a name overlap, its versions are linked both    *)
(* ways and only one of them superseded none.                              *)
THEOREM VersionsFormLine == Spec => []Lineage
<1>1. LineInv => Lineage
  BY DEF LineInv
<1>2. QED
  BY <1>1, LineAlways, PTL

(* A name that was ever learnt keeps an active version.                    *)
THEOREM NamesStay == Spec => []NameKept
<1>1. LineInv => NameKept
  BY DEF LineInv
<1>2. QED
  BY <1>1, LineAlways, PTL

-----------------------------------------------------------------------------
(* The table implements the register *)

(* The current version of a name is its active one.                        *)
LEMMA CurrentIsActive ==
  OneActive =>
    \A n \in Names :
      /\ ActiveVersions(n) = {} => CurrentVersion[n] = None
      /\ \A v \in ActiveVersions(n) : CurrentVersion[n] = v
<1> SUFFICES ASSUME OneActive, NEW n \in Names
             PROVE  /\ ActiveVersions(n) = {} => CurrentVersion[n] = None
                    /\ \A v \in ActiveVersions(n) : CurrentVersion[n] = v
  OBVIOUS
<1>1. ActiveVersions(n) = {} => CurrentVersion[n] = None
  BY DEF CurrentVersion
<1>2. ASSUME NEW v \in ActiveVersions(n) PROVE CurrentVersion[n] = v
  <2>1. v \in Versions /\ CurrentVersion[n] = CHOOSE w \in Versions : w \in ActiveVersions(n)
    BY <1>2 DEF CurrentVersion, ActiveVersions
  <2>2. CurrentVersion[n] \in ActiveVersions(n)
    BY <2>1
  <2>3. QED
    BY <2>2 DEF OneActive, ActiveVersions
<1>3. QED
  BY <1>1, <1>2

LEMMA CurrentNext ==
  OneActive' =>
    \A n \in Names :
      /\ ActiveVersions(n)' = {} => CurrentVersion'[n] = None
      /\ \A v \in ActiveVersions(n)' : CurrentVersion'[n] = v
<1> SUFFICES ASSUME OneActive', NEW n \in Names
             PROVE  /\ ActiveVersions(n)' = {} => CurrentVersion'[n] = None
                    /\ \A v \in ActiveVersions(n)' : CurrentVersion'[n] = v
  OBVIOUS
<1>1. ActiveVersions(n)' = {} => CurrentVersion'[n] = None
  BY DEF CurrentVersion
<1>2. ASSUME NEW v \in ActiveVersions(n)' PROVE CurrentVersion'[n] = v
  <2>1. v \in Versions /\ CurrentVersion'[n] = CHOOSE w \in Versions : w \in ActiveVersions(n)'
    BY <1>2 DEF CurrentVersion, ActiveVersions
  <2>2. CurrentVersion'[n] \in ActiveVersions(n)'
    BY <2>1
  <2>3. QED
    BY <2>2 DEF OneActive, ActiveVersions
<1>3. QED
  BY <1>1, <1>2

(* A name whose active versions stay keeps its current one.                *)
LEMMA SameCurrent ==
  ASSUME OneActive, OneActive', NEW n \in Names,
         \A v \in Versions : v \in ActiveVersions(n)' <=> v \in ActiveVersions(n)
  PROVE  CurrentVersion'[n] = CurrentVersion[n]
<1>1. ActiveVersions(n)' = ActiveVersions(n)
  BY DEF ActiveVersions
<1>2. QED
  BY <1>1, CurrentIsActive, CurrentNext

LEMMA FirstPublishes ==
  ASSUME TypeOK, LineInv, LineInv', NEW n \in Names, NEW v \in Versions, First(n, v)
  PROVE  Register!Publish(n, v)
<1> USE RowAssumption, ProceduralAssumption
<1> OneActive /\ OneActive'
  BY DEF LineInv
<1>1. /\ version'[v] = NewVersion(n, None) /\ ~Used(v)
      /\ \A w \in Versions : w # v => version'[w] = version[w]
  BY DEF First, TypeOK
<1>2. /\ version'[v].name = n /\ version'[v].supersededBy = None
      /\ version'[v].applied = 0 /\ version'[v].success = 0
      /\ NewVersion(n, None) \in Row /\ NewVersion(n, None) # None
  BY <1>1 DEF NewVersion, Row
<1>3. Active(v)' /\ Used(v)' /\ \A w \in Versions : w # v =>
        (Used(w)' <=> Used(w)) /\ (Active(w)' <=> Active(w))
  BY <1>1, <1>2 DEF Used, Active
<1>4. CurrentVersion[n] = None
  BY CurrentIsActive DEF First
<1>5. \A m \in Names : CurrentVersion[m] # v
  <2> SUFFICES ASSUME NEW m \in Names PROVE CurrentVersion[m] # v
    OBVIOUS
  <2>1. CASE ActiveVersions(m) = {}
    BY <2>1, CurrentIsActive
  <2>2. ASSUME NEW w \in ActiveVersions(m) PROVE CurrentVersion[m] # v
    BY <1>1, <2>2, CurrentIsActive DEF ActiveVersions, Active
  <2>3. QED
    BY <2>1, <2>2
<1>6. CurrentVersion' = [CurrentVersion EXCEPT ![n] = v]
  <2>1. CurrentVersion'[n] = v
    BY <1>2, <1>3, CurrentNext DEF ActiveVersions
  <2>2. ASSUME NEW m \in Names, m # n PROVE CurrentVersion'[m] = CurrentVersion[m]
    BY <1>1, <1>2, <1>3, <2>2, SameCurrent DEF ActiveVersions, Active
  <2>3. CurrentVersion = [m \in Names |-> CurrentVersion[m]]
        /\ CurrentVersion' = [m \in Names |-> CurrentVersion'[m]]
    BY DEF CurrentVersion
  <2>4. QED
    BY <2>1, <2>2, <2>3
<1>7. Replaced' = Replaced
  BY <1>1, <1>3 DEF Replaced
<1>8. TimesApplied' = TimesApplied /\ Successes' = Successes
  BY <1>1, <1>2, <1>3 DEF TimesApplied, Successes
<1>9. v \notin Replaced
  BY <1>1 DEF Replaced
<1>10. QED
  BY <1>4, <1>5, <1>6, <1>7, <1>8, <1>9 DEF Register!Publish

LEMMA ReplacePublishes ==
  ASSUME TypeOK, LineInv, LineInv', NEW n \in Names, NEW h \in Versions, NEW v \in Versions,
         Replace(n, h, v)
  PROVE  Register!Publish(n, v)
<1> USE RowAssumption, ProceduralAssumption
<1> OneActive /\ OneActive'
  BY DEF LineInv
<1>1. h # v /\ Used(h) /\ ~Used(v) /\ version[h] \in Row /\ Active(h) /\ version[h].name = n
  BY DEF Replace, Active, Used, TypeOK
<1>2. /\ version'[v] = NewVersion(n, h)
      /\ version'[h] = [version[h] EXCEPT !.supersededBy = v]
      /\ \A w \in Versions : w \notin {h, v} => version'[w] = version[w]
  BY <1>1 DEF Replace, TypeOK
<1>3. /\ version'[v].name = n /\ version'[v].supersededBy = None
      /\ version'[v].applied = 0 /\ version'[v].success = 0
      /\ NewVersion(n, h) \in Row /\ NewVersion(n, h) # None
  BY <1>2 DEF NewVersion, Row
<1>4. /\ version'[h].name = n /\ version'[h].supersededBy = v
      /\ version'[h].applied = version[h].applied /\ version'[h].success = version[h].success
      /\ version'[h] \in Row /\ version'[h] # None
  BY <1>1, <1>2 DEF Row
<1>5. /\ Active(v)' /\ Used(v)' /\ ~Active(h)' /\ Used(h)'
      /\ \A w \in Versions : w \notin {h, v} =>
           (Used(w)' <=> Used(w)) /\ (Active(w)' <=> Active(w))
  BY <1>1, <1>2, <1>3, <1>4 DEF Used, Active
<1>6. CurrentVersion[n] = h
  BY <1>1, CurrentIsActive DEF ActiveVersions
<1>7. \A m \in Names : CurrentVersion[m] # v
  <2> SUFFICES ASSUME NEW m \in Names PROVE CurrentVersion[m] # v
    OBVIOUS
  <2>1. CASE ActiveVersions(m) = {}
    BY <2>1, CurrentIsActive
  <2>2. ASSUME NEW w \in ActiveVersions(m) PROVE CurrentVersion[m] # v
    BY <1>1, <2>2, CurrentIsActive DEF ActiveVersions, Active
  <2>3. QED
    BY <2>1, <2>2
<1>8. CurrentVersion' = [CurrentVersion EXCEPT ![n] = v]
  <2>1. CurrentVersion'[n] = v
    BY <1>3, <1>5, CurrentNext DEF ActiveVersions
  <2>2. ASSUME NEW m \in Names, m # n PROVE CurrentVersion'[m] = CurrentVersion[m]
    BY <1>1, <1>2, <1>3, <1>4, <1>5, <2>2, SameCurrent DEF ActiveVersions, Active
  <2>3. CurrentVersion = [m \in Names |-> CurrentVersion[m]]
        /\ CurrentVersion' = [m \in Names |-> CurrentVersion'[m]]
    BY DEF CurrentVersion
  <2>4. QED
    BY <2>1, <2>2, <2>3
<1>9. Replaced' = Replaced \cup {h}
  BY <1>1, <1>5 DEF Replaced
<1>10. TimesApplied' = TimesApplied /\ Successes' = Successes
  BY <1>1, <1>2, <1>3, <1>4, <1>5 DEF TimesApplied, Successes
<1>11. v \notin Replaced
  BY <1>1 DEF Replaced
<1>12. QED
  BY <1>6, <1>7, <1>8, <1>9, <1>10, <1>11 DEF Register!Publish

LEMMA CountReports ==
  ASSUME TypeOK, LineInv, LineInv', NEW n \in Names, NEW v \in Versions, NEW s \in {0, 1},
         Count(n, v, s)
  PROVE  Register!Report(n, s)
<1> USE ProceduralAssumption
<1> OneActive /\ OneActive'
  BY DEF LineInv
<1>1. CurrentVersion[n] = v
  BY CurrentIsActive DEF Count, ActiveVersions
<1>2. \A w \in Versions : /\ Used(w)' <=> Used(w)
                          /\ Active(w)' <=> Active(w)
                          /\ Used(w) => version'[w].name = version[w].name
  BY CountKeepsLinks DEF Used, Active
<1>3. CurrentVersion' = CurrentVersion
  <2>1. ASSUME NEW m \in Names PROVE CurrentVersion'[m] = CurrentVersion[m]
    BY <1>2, SameCurrent DEF ActiveVersions, Active
  <2>2. CurrentVersion = [m \in Names |-> CurrentVersion[m]]
        /\ CurrentVersion' = [m \in Names |-> CurrentVersion'[m]]
    BY DEF CurrentVersion
  <2>3. QED
    BY <2>1, <2>2
<1>4. Replaced' = Replaced
  BY <1>2 DEF Replaced
<1>5. /\ Used(v) /\ Used(v)'
      /\ version'[v].applied = version[v].applied + 1
      /\ version'[v].success = version[v].success + s
      /\ \A w \in Versions : w # v => version'[w] = version[w]
  BY CountKeepsLinks
<1>6. /\ TimesApplied' = [TimesApplied EXCEPT ![v] = @ + 1]
      /\ Successes' = [Successes EXCEPT ![v] = @ + s]
  <2>1. /\ TimesApplied'[v] = TimesApplied[v] + 1
        /\ Successes'[v] = Successes[v] + s
    BY <1>5 DEF TimesApplied, Successes
  <2>2. ASSUME NEW w \in Versions, w # v
        PROVE  TimesApplied'[w] = TimesApplied[w] /\ Successes'[w] = Successes[w]
    BY <1>2, <1>5, <2>2 DEF TimesApplied, Successes
  <2>3. /\ TimesApplied = [w \in Versions |-> TimesApplied[w]]
        /\ TimesApplied' = [w \in Versions |-> TimesApplied'[w]]
        /\ Successes = [w \in Versions |-> Successes[w]]
        /\ Successes' = [w \in Versions |-> Successes'[w]]
    BY DEF TimesApplied, Successes
  <2>4. QED
    BY <2>1, <2>2, <2>3
<1>7. QED
  BY <1>1, <1>3, <1>4, <1>6 DEF Register!Report

LEMMA RegisterInit == Init => Register!Init
<1> SUFFICES ASSUME Init PROVE Register!Init
  OBVIOUS
<1>1. \A v \in Versions : ~Used(v)
  BY DEF Init, Used
<1>2. \A n : ActiveVersions(n) = {}
  BY <1>1 DEF ActiveVersions, Active
<1>3. CurrentVersion = [n \in Names |-> None]
  BY <1>2 DEF CurrentVersion
<1>4. Replaced = {}
  BY <1>1 DEF Replaced
<1>5. TimesApplied = [v \in Versions |-> 0] /\ Successes = [v \in Versions |-> 0]
  BY <1>1 DEF TimesApplied, Successes
<1>6. QED
  BY <1>3, <1>4, <1>5 DEF Register!Init

LEMMA RegisterStep ==
  Base /\ LineInv /\ LineInv' /\ [Next]_vars
    => [Register!Next]_<<CurrentVersion, Replaced, TimesApplied, Successes>>
<1> SUFFICES ASSUME Base, LineInv, LineInv', [Next]_vars
             PROVE  [Register!Next]_<<CurrentVersion, Replaced, TimesApplied, Successes>>
  OBVIOUS
<1>1. TypeOK /\ Effect
  BY StepEffect DEF Base
<1>2. CASE UNCHANGED version
  <2>1. ASSUME NEW n \in Names PROVE CurrentVersion'[n] = CurrentVersion[n]
    BY <1>2, SameCurrent DEF LineInv, ActiveVersions, Active, Used
  <2>2. CurrentVersion' = CurrentVersion
    <3>1. /\ CurrentVersion = [n \in Names |-> CurrentVersion[n]]
          /\ CurrentVersion' = [n \in Names |-> CurrentVersion'[n]]
      BY DEF CurrentVersion
    <3>2. QED
      BY <2>1, <3>1
  <2>3. Replaced' = Replaced /\ TimesApplied' = TimesApplied /\ Successes' = Successes
    BY <1>2 DEF Replaced, TimesApplied, Successes, Active, Used
  <2>4. QED
    BY <2>2, <2>3
<1>3. ASSUME NEW n \in Names, NEW v \in Versions, First(n, v) PROVE Register!Next
  BY <1>1, <1>3, FirstPublishes DEF Register!Next
<1>4. ASSUME NEW n \in Names, NEW h \in Versions, NEW v \in Versions, Replace(n, h, v)
      PROVE  Register!Next
  BY <1>1, <1>4, ReplacePublishes DEF Register!Next
<1>5. ASSUME NEW n \in Names, NEW v \in Versions, NEW s \in {0, 1}, Count(n, v, s)
      PROVE  Register!Next
  BY <1>1, <1>5, CountReports DEF Register!Next
<1>6. QED
  BY <1>1, <1>2, <1>3, <1>4, <1>5 DEF Effect

(* The table implements the register of skills: one current version per    *)
(* name, replaced versions frozen, an outcome counted for the current one. *)
THEOREM RegisterImplemented == Spec => ImplementsRegister
BY LineAlways, RegisterInit, RegisterStep, PTL DEF Spec, ImplementsRegister, Register!Spec

-----------------------------------------------------------------------------
(* Sums over the versions *)

(* A set of naturals that holds 0 and, with a number, the next one, holds  *)
(* all of them.                                                            *)
LEMMA AllNaturals ==
  ASSUME NEW T \in SUBSET Nat, 0 \in T, \A n \in T : n + 1 \in T
  PROVE  T = Nat
<1> SUFFICES ASSUME Nat \ T # {} PROVE FALSE
  OBVIOUS
<1> DEFINE Less == {z \in Nat \X Nat : z[1] < z[2]}
<1>1. IsWellFoundedOn(Less, Nat)
  BY NatLessThanWellFounded DEF OpToRel
<1>2. PICK x \in Nat \ T : \A y \in Nat \ T : <<y, x>> \notin Less
  <2> HIDE DEF Less
  <2>1. Nat \ T \subseteq Nat
    OBVIOUS
  <2> QED
    BY <1>1, <2>1, WFMin
<1>3. x # 0 /\ x - 1 \in Nat
  OBVIOUS
<1>4. x - 1 \in T
  <2>1. <<x - 1, x>> \in Less
    BY <1>3
  <2> HIDE DEF Less
  <2> QED
    BY <1>2, <1>3, <2>1
<1>5. (x - 1) + 1 \in T /\ (x - 1) + 1 = x
  BY <1>3, <1>4
<1> QED
  BY <1>5

Chosen(s) == CHOOSE v \in s : TRUE

(* h adds up the weights w of sets of versions. *)
AddsUp(h, w) ==
  \A s \in SUBSET Versions : h[s] = IF s = {} THEN 0 ELSE w[Chosen(s)] + h[s \ {Chosen(s)}]

LEMMA FiniteParts ==
  \A s \in SUBSET Versions : Cardinality(s) \in Nat /\ (Cardinality(s) = 0 => s = {})
BY ProceduralAssumption, FS_Subset, FS_CardinalityType, FS_EmptySet

LEMMA SmallerParts ==
  \A s \in SUBSET Versions : s # {} =>
     /\ Chosen(s) \in s /\ Chosen(s) \in Versions /\ s \ {Chosen(s)} \in SUBSET Versions
     /\ Cardinality(s \ {Chosen(s)}) = Cardinality(s) - 1
<1>1. \A s : s # {} => Chosen(s) \in s
  BY DEF Chosen
<1> QED
  BY <1>1, ProceduralAssumption, FS_Subset, FS_RemoveElement

(* Sums exist. *)
LEMMA SumsExist ==
  ASSUME NEW w \in [Versions -> Nat]
  PROVE  \E h \in [SUBSET Versions -> Nat] : AddsUp(h, w)
<1> DEFINE Level(n) == {s \in SUBSET Versions : Cardinality(s) <= n}
           Solves(h, n) == \A s \in Level(n) :
              h[s] = IF s = {} THEN 0 ELSE w[Chosen(s)] + h[s \ {Chosen(s)}]
           Solved == {n \in Nat : \E h \in [Level(n) -> Nat] : Solves(h, n)}
<1>0. \A s \in SUBSET Versions : Cardinality(s) \in Nat /\ (Cardinality(s) = 0 => s = {})
  BY FiniteParts
<1>1. 0 \in Solved
  <2> DEFINE h == [s \in Level(0) |-> 0]
  <2>1. \A s \in Level(0) : s = {}
    BY <1>0
  <2>2. h \in [Level(0) -> Nat] /\ Solves(h, 0)
    BY <2>1
  <2> QED
    BY <2>2
<1>2. ASSUME NEW n \in Solved PROVE n + 1 \in Solved
  <2>1. PICK g \in [Level(n) -> Nat] : Solves(g, n)
    OBVIOUS
  <2> DEFINE h == [s \in Level(n + 1) |->
                     IF s = {} THEN 0 ELSE w[Chosen(s)] + g[s \ {Chosen(s)}]]
  <2>2. \A s \in Level(n + 1) : s # {} => s \ {Chosen(s)} \in Level(n) /\ Chosen(s) \in Versions
    BY <1>0, SmallerParts
  <2>3. \A s \in Level(n) : s \in Level(n + 1) /\ h[s] = g[s]
    BY <1>0, <2>1
  <2>4. h \in [Level(n + 1) -> Nat]
    BY <2>2
  <2>5. Solves(h, n + 1)
    BY <2>2, <2>3
  <2> HIDE DEF Level, Solves, h
  <2> QED
    BY <2>4, <2>5
<1>3. Solved = Nat
  <2> HIDE DEF Solved
  <2>1. Solved \in SUBSET Nat
    BY DEF Solved
  <2> QED
    BY <1>1, <1>2, <2>1, AllNaturals
<1>4. Level(Cardinality(Versions)) = SUBSET Versions /\ Cardinality(Versions) \in Nat
  BY <1>0, ProceduralAssumption, FS_Subset
<1>5. PICK h \in [Level(Cardinality(Versions)) -> Nat] : Solves(h, Cardinality(Versions))
  <2> HIDE DEF Level, Solves
  <2> QED
    BY <1>3, <1>4
<1> QED
  BY <1>4, <1>5 DEF AddsUp

Raised(w, v, d) == [w EXCEPT ![v] = w[v] + d]

(* One weight that grows by d makes the sum grow by d. *)
LEMMA SumGrows ==
  ASSUME NEW w \in [Versions -> Nat], NEW h, AddsUp(h, w), NEW v \in Versions, NEW d \in Nat,
         NEW x, x = Raised(w, v, d), NEW g, AddsUp(g, x)
  PROVE  g[Versions] = h[Versions] + d
<1> DEFINE Agree(s) == h[s] \in Nat /\ g[s] = h[s] + (IF v \in s THEN d ELSE 0)
           Done == {n \in Nat : \A s \in SUBSET Versions : Cardinality(s) = n => Agree(s)}
<1>0. \A s \in SUBSET Versions : Cardinality(s) \in Nat /\ (Cardinality(s) = 0 => s = {})
  BY FiniteParts
<1>1. 0 \in Done
  <2>1. h[{}] = 0 /\ g[{}] = 0
    BY DEF AddsUp
  <2>2. Agree({})
    BY <2>1
  <2> QED
    BY <1>0, <2>2
<1>2. ASSUME NEW n \in Done PROVE n + 1 \in Done
  <2> SUFFICES ASSUME NEW s \in SUBSET Versions, Cardinality(s) = n + 1 PROVE Agree(s)
    OBVIOUS
  <2>1. PICK y, t : y = Chosen(s) /\ t = s \ {y}
    OBVIOUS
  <2>2. s # {}
    <3>1. Cardinality({}) = 0
      BY FS_EmptySet
    <3>2. n + 1 # 0
      OBVIOUS
    <3> HIDE DEF Done, Agree
    <3> QED
      BY <3>1, <3>2
  <2>3. y \in s /\ t \in SUBSET Versions /\ Cardinality(t) = n
    BY <2>1, <2>2, SmallerParts
  <2>4. Agree(t)
    BY <2>3
  <2>5. h[s] = w[y] + h[t] /\ g[s] = x[y] + g[t]
    BY <2>1, <2>2 DEF AddsUp
  <2>6. w[y] \in Nat /\ x[y] = IF y = v THEN w[y] + d ELSE w[y]
    BY <2>3 DEF Raised
  <2>7. v \in s <=> v = y \/ v \in t
    BY <2>1, <2>3
  <2>8. v \in t => v # y
    BY <2>1
  <2> QED
    BY <2>4, <2>5, <2>6, <2>7, <2>8
<1>3. Done = Nat
  <2> HIDE DEF Done
  <2>1. Done \in SUBSET Nat
    BY DEF Done
  <2> QED
    BY <1>1, <1>2, <2>1, AllNaturals
<1>4. Agree(Versions)
  BY <1>0, <1>3
<1> QED
  BY <1>4

(* A sum is a number. *)
LEMMA SumIsNatural ==
  ASSUME NEW w \in [Versions -> Nat], NEW h, AddsUp(h, w)
  PROVE  h[Versions] \in Nat
<1> DEFINE Done == {n \in Nat : \A s \in SUBSET Versions : Cardinality(s) = n => h[s] \in Nat}
<1>0. \A s \in SUBSET Versions : Cardinality(s) \in Nat /\ (Cardinality(s) = 0 => s = {})
  BY FiniteParts
<1>1. 0 \in Done
  BY <1>0 DEF AddsUp
<1>2. ASSUME NEW n \in Done PROVE n + 1 \in Done
  <2> SUFFICES ASSUME NEW s \in SUBSET Versions, Cardinality(s) = n + 1 PROVE h[s] \in Nat
    OBVIOUS
  <2>1. CASE s = {}
    BY <2>1 DEF AddsUp
  <2>2. CASE s # {}
    <3>1. /\ Chosen(s) \in Versions /\ s \ {Chosen(s)} \in SUBSET Versions
          /\ Cardinality(s \ {Chosen(s)}) = n
      BY <2>2, SmallerParts
    <3>2. h[s \ {Chosen(s)}] \in Nat
      BY <3>1
    <3>3. h[s] = w[Chosen(s)] + h[s \ {Chosen(s)}]
      BY <2>2 DEF AddsUp
    <3> HIDE DEF Done
    <3> QED
      BY <3>1, <3>2, <3>3
  <2> QED
    BY <2>1, <2>2
<1>3. Done = Nat
  <2> HIDE DEF Done
  <2>1. Done \in SUBSET Nat
    BY DEF Done
  <2> QED
    BY <1>1, <1>2, <2>1, AllNaturals
<1> QED
  BY <1>0, <1>3

-----------------------------------------------------------------------------
(* Outcomes *)

(* Applied over the rows of any table. *)
AppliedIn(table, n) ==
    MapThenFoldSet(+, 0, LAMBDA v : IF table[v] # None /\ table[v].name = n THEN table[v].applied ELSE 0,
                   LAMBDA S : CHOOSE v \in S : TRUE, Versions)

Weights(table, n) ==
    [v \in Versions |-> IF table[v] # None /\ table[v].name = n THEN table[v].applied ELSE 0]

Table == [Versions -> Row \cup {None}]

LEMMA AppliedOfTable ==
  \A n : Applied(n) = AppliedIn(version, n) /\ Applied(n)' = AppliedIn(version', n)
BY DEF Applied, AppliedIn, Used, MapThenFoldSet

LEMMA WeightsAreCounts ==
  ASSUME NEW table \in Table, NEW n
  PROVE  Weights(table, n) \in [Versions -> Nat]
<1> SUFFICES ASSUME NEW v \in Versions, table[v] # None PROVE table[v].applied \in Nat
  BY DEF Weights
<1>1. table[v] \in Row
  BY DEF Table
<1> QED
  BY <1>1 DEF Row

LEMMA AppliedAddsUp ==
  ASSUME NEW table \in Table, NEW n
  PROVE  \E h : AddsUp(h, Weights(table, n)) /\ AppliedIn(table, n) = h[Versions]
<1> DEFINE Weight(v) == IF table[v] # None /\ table[v].name = n THEN table[v].applied ELSE 0
           Step(g, s) == IF s = {} THEN 0
                         ELSE Weight(CHOOSE v \in s : TRUE) + g[s \ {CHOOSE v \in s : TRUE}]
           iter == CHOOSE g : g = [s \in SUBSET Versions |-> Step(g, s)]
<1>1. PICK h \in [SUBSET Versions -> Nat] : AddsUp(h, Weights(table, n))
  BY WeightsAreCounts, SumsExist
<1>2. ASSUME NEW g, NEW s \in SUBSET Versions
      PROVE  Step(g, s) = IF s = {} THEN 0 ELSE Weights(table, n)[Chosen(s)] + g[s \ {Chosen(s)}]
  <2>1. CASE s = {}
    BY <2>1
  <2>2. CASE s # {}
    <3>1. Weights(table, n)[Chosen(s)] = Weight(Chosen(s))
      BY <2>2, SmallerParts DEF Weights
    <3> QED
      BY <2>2, <3>1 DEF Chosen
  <2> QED
    BY <2>1, <2>2
<1>3. h = [s \in SUBSET Versions |-> Step(h, s)]
  <2>1. \A s \in SUBSET Versions : h[s] = Step(h, s)
    <3> HIDE DEF Step
    <3> QED
      BY <1>1, <1>2 DEF AddsUp
  <2> HIDE DEF Step
  <2> QED
    BY <2>1
<1>4. iter = [s \in SUBSET Versions |-> Step(iter, s)]
  <2>1. \E g : g = [s \in SUBSET Versions |-> Step(g, s)]
    BY <1>3
  <2> HIDE DEF Step
  <2> QED
    BY <2>1
<1>5. AppliedIn(table, n) = iter[Versions]
  BY DEF AppliedIn, MapThenFoldSet
<1>6. \A s \in SUBSET Versions : iter[s] = Step(iter, s)
  <2> HIDE DEF Step, iter
  <2> QED
    BY <1>4
<1>7. AddsUp(iter, Weights(table, n))
  <2> HIDE DEF Step, iter
  <2> QED
    BY <1>2, <1>6 DEF AddsUp
<1> HIDE DEF iter
<1> QED
  BY <1>5, <1>7

(* What a row counts for n shows in the sum. *)
LEMMA AppliedGrows ==
  ASSUME NEW old \in Table, NEW new \in Table, NEW n, NEW v \in Versions, NEW d \in Nat,
         Weights(new, n) = Raised(Weights(old, n), v, d)
  PROVE  AppliedIn(new, n) = AppliedIn(old, n) + d
<1>1. PICK h : AddsUp(h, Weights(old, n)) /\ AppliedIn(old, n) = h[Versions]
  BY AppliedAddsUp
<1>2. PICK g : AddsUp(g, Weights(new, n)) /\ AppliedIn(new, n) = g[Versions]
  BY AppliedAddsUp
<1>3. Weights(old, n) \in [Versions -> Nat]
  BY WeightsAreCounts
<1>4. PICK w : w = Weights(old, n)
  OBVIOUS
<1>5. PICK x : x = Raised(w, v, d)
  OBVIOUS
<1>6. w \in [Versions -> Nat] /\ AddsUp(h, w) /\ AddsUp(g, x)
  BY <1>1, <1>2, <1>3, <1>4, <1>5
<1>7. g[Versions] = h[Versions] + d
  BY <1>5, <1>6, SumGrows
<1> QED
  BY <1>1, <1>2, <1>7

(* Tables that count the same for n have the same sum, and it is a number. *)
LEMMA AppliedStays ==
  ASSUME NEW old \in Table, NEW new \in Table, NEW n, Weights(new, n) = Weights(old, n),
         Versions # {}
  PROVE  AppliedIn(new, n) = AppliedIn(old, n)
<1>1. PICK v \in Versions : TRUE
  OBVIOUS
<1>2. Weights(old, n) \in [Versions -> Nat]
  BY WeightsAreCounts
<1>3. Weights(old, n) = Raised(Weights(old, n), v, 0)
  BY <1>2 DEF Raised
<1>4. AppliedIn(new, n) = AppliedIn(old, n) + 0 /\ AppliedIn(old, n) = AppliedIn(old, n) + 0
  BY <1>3, AppliedGrows
<1> QED
  BY <1>4

(* Inserting a version counts nothing. *)
LEMMA InsertCountsNothing ==
  ASSUME TypeOK, NEW n \in Names, NEW v \in Versions, NEW h \in Versions,
         First(n, v) \/ Replace(n, h, v), NEW m \in Names
  PROVE  Weights(version', m) = Weights(version, m)
<1> USE RowAssumption DEF Used, Active
<1>1. version \in [Versions -> Row \cup {None}]
  BY DEF TypeOK
<1>2. \A x : NewVersion(n, x).applied = 0 /\ NewVersion(n, x).name = n
  BY DEF NewVersion
<1>3. CASE First(n, v)
  <2>1. version' = [version EXCEPT ![v] = NewVersion(n, None)] /\ version[v] = None
    BY <1>3 DEF First
  <2>2. \A w \in Versions : w # v => version'[w] = version[w]
    BY <1>1, <2>1
  <2>3. version'[v].applied = 0
    BY <1>1, <1>2, <2>1
  <2> QED
    BY <2>1, <2>2, <2>3 DEF Weights
<1>4. CASE Replace(n, h, v)
  <2> DEFINE closed == [version[h] EXCEPT !.supersededBy = v]
  <2>1. h # v /\ version[h] \in Row /\ version[h] # None /\ version[v] = None
    BY <1>1, <1>4 DEF Replace
  <2>2. version' = [version EXCEPT ![h] = closed, ![v] = NewVersion(n, h)]
    BY <1>1, <1>4, <2>1 DEF Replace
  <2>3. closed \in Row /\ closed.name = version[h].name /\ closed.applied = version[h].applied
    BY <2>1 DEF Row
  <2> HIDE DEF closed
  <2>4. \A w \in Versions : w # v /\ w # h => version'[w] = version[w]
    BY <1>1, <2>2
  <2>5. version'[v].applied = 0 /\ version'[h] = closed /\ closed # None
    BY <1>1, <1>2, <2>1, <2>2, <2>3
  <2> QED
    BY <2>1, <2>3, <2>4, <2>5 DEF Weights
<1> QED
  BY <1>3, <1>4

(* An outcome counts one for its name, nothing for another. *)
LEMMA CountCountsOne ==
  ASSUME TypeOK, NEW n \in Names, NEW v \in Versions, NEW s \in {0, 1}, Count(n, v, s)
  PROVE  /\ Weights(version', n) = Raised(Weights(version, n), v, 1)
         /\ \A m \in Names \ {n} : Weights(version', m) = Weights(version, m)
<1> USE RowAssumption DEF Used, Active
<1> DEFINE row == [version[v] EXCEPT !.applied = version[v].applied + 1,
                                     !.success = version[v].success + s]
<1>1. version \in [Versions -> Row \cup {None}]
  BY DEF TypeOK
<1>2. version[v] \in Row /\ version[v] # None /\ version[v].name = n
  BY <1>1 DEF Count
<1>3. version' = [version EXCEPT ![v] = row]
  BY <1>1, <1>2 DEF Count, Row
<1>4. row.name = n /\ row.applied = version[v].applied + 1 /\ row \in Row
  <2>1. \A a, b \in Nat :
          LET x == [version[v] EXCEPT !.applied = a, !.success = b]
          IN  x.name = version[v].name /\ x.applied = a /\ x \in Row
    BY <1>2 DEF Row
  <2>2. version[v].applied + 1 \in Nat /\ version[v].success + s \in Nat
    BY <1>2 DEF Row
  <2> QED
    BY <1>2, <2>1, <2>2
<1> HIDE DEF row
<1>5. version'[v] = row /\ row # None /\ \A w \in Versions : w # v => version'[w] = version[w]
  BY <1>1, <1>3, <1>4
<1> QED
  BY <1>2, <1>4, <1>5 DEF Weights, Raised

LEMMA AppliedIsNatural ==
  ASSUME NEW table \in Table, NEW n
  PROVE  AppliedIn(table, n) \in Nat
<1>1. PICK h : AddsUp(h, Weights(table, n)) /\ AppliedIn(table, n) = h[Versions]
  BY AppliedAddsUp
<1>2. PICK w : w = Weights(table, n)
  OBVIOUS
<1>3. w \in [Versions -> Nat] /\ AddsUp(h, w)
  BY <1>1, <1>2, WeightsAreCounts
<1>4. h[Versions] \in Nat
  BY <1>3, SumIsNatural
<1> QED
  BY <1>1, <1>4

LEMMA OutcomesStep == Base /\ OutcomesConserved /\ [Next]_vars => OutcomesConserved'
<1> SUFFICES ASSUME Base, OutcomesConserved, [Next]_vars, NEW m \in Names
             PROVE  found'[m] <= Applied(m)' /\ Applied(m)' <= found'[m] + unsure'[m]
  BY DEF OutcomesConserved
<1>1. /\ found[m] <= Applied(m) /\ Applied(m) <= found[m] + unsure[m]
      /\ TypeOK /\ found \in [Names -> Nat] /\ unsure \in [Names -> Nat]
  BY DEF OutcomesConserved, Base, TypeOK
<1>2. version \in Table /\ version' \in Table
  BY BaseStep DEF Table, Base, TypeOK
<1>3. Applied(m) = AppliedIn(version, m) /\ Applied(m)' = AppliedIn(version', m)
  BY AppliedOfTable
<1>4. Answers
  BY StepAnswers DEF Base
<1>5. Applied(m) \in Nat /\ found[m] \in Nat /\ unsure[m] \in Nat
  BY <1>1, <1>2, <1>3, AppliedIsNatural
<1>6. CASE UNCHANGED <<version, found, unsure>>
  BY <1>1, <1>3, <1>6
<1>7. ASSUME NEW n \in Names, UNCHANGED version, Untold(n)
      PROVE  found'[m] <= Applied(m)' /\ Applied(m)' <= found'[m] + unsure'[m]
  <2>1. Applied(m)' = Applied(m) /\ found'[m] = found[m]
    BY <1>3, <1>7 DEF Untold
  <2>2. unsure'[m] = unsure[m] \/ unsure'[m] = unsure[m] + 1
    BY <1>1, <1>7 DEF Untold
  <2> QED
    BY <1>1, <1>5, <2>1, <2>2
<1>8. ASSUME NEW n \in Names, NEW v \in Versions, NEW h \in Versions,
             First(n, v) \/ Replace(n, h, v), UNCHANGED <<found, unsure>>
      PROVE  found'[m] <= Applied(m)' /\ Applied(m)' <= found'[m] + unsure'[m]
  <2>1. Weights(version', m) = Weights(version, m)
    BY <1>1, <1>8, InsertCountsNothing
  <2>2. AppliedIn(version', m) = AppliedIn(version, m)
    BY <1>2, <2>1, AppliedStays
  <2> QED
    BY <1>1, <1>3, <1>8, <2>2
<1>9. ASSUME NEW n \in Names, NEW v \in Versions, NEW s \in {0, 1}, Count(n, v, s),
             Told(n) \/ Untold(n)
      PROVE  found'[m] <= Applied(m)' /\ Applied(m)' <= found'[m] + unsure'[m]
  <2>1. CASE m = n
    <3>1. Applied(m)' = Applied(m) + 1
      BY <1>1, <1>2, <1>3, <1>9, <2>1, CountCountsOne, AppliedGrows
    <3>2. \/ found'[m] = found[m] + 1 /\ unsure'[m] = unsure[m]
          \/ found'[m] = found[m] /\ unsure'[m] = unsure[m] + 1
      BY <1>1, <1>9, <2>1 DEF Told, Untold
    <3> QED
      BY <1>1, <1>5, <3>1, <3>2
  <2>2. CASE m # n
    <3>1. Applied(m)' = Applied(m)
      BY <1>1, <1>2, <1>3, <1>9, <2>2, CountCountsOne, AppliedStays
    <3>2. found'[m] = found[m] /\ unsure'[m] = unsure[m]
      BY <1>1, <1>9, <2>2 DEF Told, Untold
    <3> QED
      BY <1>1, <3>1, <3>2
  <2> QED
    BY <2>1, <2>2
<1> QED
  BY <1>4, <1>6, <1>7, <1>8, <1>9 DEF Answers

LEMMA OutcomesInit == Init => OutcomesConserved
<1> SUFFICES ASSUME Init, NEW n \in Names PROVE Applied(n) = 0
  BY DEF Init, OutcomesConserved
<1>1. version \in Table /\ \A v \in Versions : version[v] = None
  BY DEF Init, Table
<1>2. PICK h : AddsUp(h, Weights(version, n)) /\ AppliedIn(version, n) = h[Versions]
  BY <1>1, AppliedAddsUp
<1>3. \A v \in Versions : Weights(version, n)[v] = 0
  BY <1>1 DEF Weights
<1> DEFINE Done == {k \in Nat : \A s \in SUBSET Versions : Cardinality(s) = k => h[s] = 0}
<1>4. \A s \in SUBSET Versions : Cardinality(s) \in Nat /\ (Cardinality(s) = 0 => s = {})
  BY FiniteParts
<1>5. 0 \in Done
  BY <1>2, <1>4 DEF AddsUp
<1>6. ASSUME NEW k \in Done PROVE k + 1 \in Done
  <2> SUFFICES ASSUME NEW s \in SUBSET Versions, Cardinality(s) = k + 1 PROVE h[s] = 0
    OBVIOUS
  <2>1. CASE s = {}
    BY <1>2, <2>1 DEF AddsUp
  <2>2. CASE s # {}
    <3>1. /\ Chosen(s) \in Versions /\ s \ {Chosen(s)} \in SUBSET Versions
          /\ Cardinality(s \ {Chosen(s)}) = k
      BY <2>2, SmallerParts
    <3>2. h[s \ {Chosen(s)}] = 0
      BY <3>1
    <3>3. h[s] = Weights(version, n)[Chosen(s)] + h[s \ {Chosen(s)}]
      BY <1>2, <2>2 DEF AddsUp
    <3>4. Weights(version, n)[Chosen(s)] = 0
      BY <1>3, <3>1
    <3> QED
      BY <3>2, <3>3, <3>4
  <2> QED
    BY <2>1, <2>2
<1>7. Done = Nat
  <2> HIDE DEF Done
  <2>1. Done \in SUBSET Nat
    BY DEF Done
  <2> QED
    BY <1>5, <1>6, <2>1, AllNaturals
<1>8. h[Versions] = 0
  BY <1>4, <1>7
<1> QED
  BY <1>2, <1>8, AppliedOfTable

(* Every outcome answered as recorded is counted, for a version of its     *)
(* name, however many versions were superseded meanwhile; beyond those, no *)
(* more than the reports that ended with a failure are (record_outcome).   *)
THEOREM OutcomesCounted == Spec => []OutcomesConserved
<1>1. Init => Base /\ OutcomesConserved
  BY BaseInit, OutcomesInit
<1>2. Base /\ OutcomesConserved /\ [Next]_vars => (Base /\ OutcomesConserved)'
  BY BaseStep, OutcomesStep
<1> QED
  BY <1>1, <1>2, PTL DEF Spec

=============================================================================
