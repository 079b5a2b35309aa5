------------------------ MODULE RelationStore_proofs ------------------------
(***************************************************************************)
(* Theorems about RelationStore, for every number of writers and           *)
(* ruminators, every set of claims and every setting of the belief         *)
(* parameters.                                                             *)
(***************************************************************************)
EXTENDS RelationStore, TLAPS

USE DEF Derivations

-----------------------------------------------------------------------------
(* Lemmas about beliefs *)

(* Products of weights and confidences are natural numbers. *)
LEMMA Product == \A a, b \in Nat : a * b \in Nat
  OBVIOUS

(* An evidence event of a source moves a belief's mass by the same amount  *)
(* whatever its confidence and whichever side it supports.                 *)
LEMMA EvidenceMass ==
  ASSUME NEW b, b.alpha \in Nat, b.beta \in Nat,
         NEW c \in 0 .. Full, NEW w \in Nat, NEW s \in BOOLEAN
  PROVE  /\ ApplyEvidence(b, c, w, s) \in Beliefs
         /\ ApplyEvidence(b, c, w, s).alpha >= b.alpha
         /\ ApplyEvidence(b, c, w, s).beta >= b.beta
         /\ Mass(ApplyEvidence(b, c, w, s)) = Mass(b) + w * Full
<1>1. c \in Nat /\ Full \in Nat /\ Full - c \in Nat
  BY BeliefAssumption
<1>2. PICK f \in Nat, a \in Nat : f = w * c /\ a = w * (Full - c)
  BY <1>1, Product
<1>3. f + a = w * Full
  BY <1>1, <1>2
<1>4. \/ ApplyEvidence(b, c, w, s) = [alpha |-> b.alpha + f, beta |-> b.beta + a]
      \/ ApplyEvidence(b, c, w, s) = [alpha |-> b.alpha + a, beta |-> b.beta + f]
  BY <1>2 DEF ApplyEvidence
<1>5. \A e : \/ e = [alpha |-> b.alpha + f, beta |-> b.beta + a]
             \/ e = [alpha |-> b.alpha + a, beta |-> b.beta + f]
          => /\ e \in Beliefs
             /\ e.alpha >= b.alpha
             /\ e.beta >= b.beta
             /\ e.alpha + e.beta = b.alpha + b.beta + (f + a)
  BY DEF Beliefs
<1>6. QED
  BY <1>3, <1>4, <1>5 DEF Mass

(* A new row is a row, with the prior and one event behind it. *)
LEMMA NewRowType ==
  ASSUME NEW claim \in ClaimType, NEW now \in Instants, NEW ct \in BOOLEAN,
         NEW s \in Ids \cup {None}
  PROVE  /\ NewRow(claim, now, ct, s) \in Row
         /\ Mass(NewRow(claim, now, ct, s)) = 2 * Prior + Weight[claim.derivation] * Full
<1>1. Uninformed.alpha \in Nat /\ Uninformed.beta \in Nat /\ Mass(Uninformed) = 2 * Prior
  BY BeliefAssumption DEF Uninformed, Mass
<1>2. claim.confidence \in 0 .. Full /\ Weight[claim.derivation] \in Nat
  BY BeliefAssumption DEF ClaimType
<1>3. /\ FreshBelief(claim) \in Beliefs
      /\ Mass(FreshBelief(claim)) = 2 * Prior + Weight[claim.derivation] * Full
  BY <1>1, <1>2, EvidenceMass DEF FreshBelief
<1>4. QED
  BY <1>3 DEF NewRow, Row, ClaimType, Beliefs, Mass

-----------------------------------------------------------------------------
(* Type correctness *)

(* No row disappears. *)
Grows == \A r \in Ids : Used(r) => Used(r)'

(* Process q goes on where it was, with what it had. *)
Undisturbed(q) ==
  /\ pc'[q] = pc[q]
  /\ request'[q] = request[q]
  /\ held'[q] = held[q]
  /\ seen'[q] = seen[q]
  /\ todo'[q] = todo[q]

LEMMA PairsGrow ==
  ASSUME Grows
  PROVE  \A d : d \in ExistingPairs => d \in ExistingPairs'
BY DEF Grows, ExistingPairs, Pairs

(* What a process remembers exists as long as it does not move. *)
LEMMA OthersRemember ==
  ASSUME TypeOK, Grows, NEW q \in Procs, Undisturbed(q)
  PROVE  Remembers(q)'
<1>1. Remembers(q)
  BY DEF TypeOK
<1>2. request[q] \in FeedbackType => request[q].relation \in Ids
  BY DEF FeedbackType
<1>3. QED
  BY <1>1, <1>2, PairsGrow DEF Remembers, Undisturbed, Grows

(* One row inserted and another one changed. *)
LEMMA InsertAndUpdate ==
  ASSUME TypeOK, NEW n \in Ids, NEW h \in Ids, ~Used(n), Used(h),
         NEW a \in Row, NEW b \in Row,
         relation' = [relation EXCEPT ![n] = a, ![h] = b]
  PROVE  relation' \in [Ids -> Row \cup {None}] /\ Grows
BY RowAssumption DEF TypeOK, Grows, Used

(* The steps of writers that insert or change rows. *)
LEMMA WriteTypes ==
  ASSUME TypeOK, NEW p \in Writers,
         CreateFirst(p) \/ Corroborate(p) \/ Contest(p) \/ Supersede(p) \/ RecordFeedback(p)
  PROVE  /\ relation' \in [Ids -> Row \cup {None}]
         /\ evidence' \in [Ids -> Nat]
         /\ Grows
         /\ EndTransaction(p)
<1>0. p \in Procs /\ Remembers(p)
  BY DEF Procs, TypeOK
<1> DEFINE claim == request[p]
           h == held[p]
           w == Weight[claim.derivation]
<1>1. CASE CreateFirst(p)
  <2>1. claim \in ClaimType
    BY <1>0, <1>1 DEF CreateFirst, Remembers
  <2>2. NewRow(claim, stamp[p], FALSE, None) \in Row
    BY <1>0, <2>1, NewRowType DEF TypeOK
  <2>3. w * Full \in Nat
    BY <2>1, BeliefAssumption, Product DEF ClaimType
  <2>4. PICK n \in Ids :
          /\ relation' = [relation EXCEPT ![n] = NewRow(claim, stamp[p], FALSE, None)]
          /\ evidence' = [evidence EXCEPT ![n] = w * Full]
    BY <1>1 DEF CreateFirst
  <2>5. QED
    BY <1>1, <2>2, <2>3, <2>4, RowAssumption DEF TypeOK, Grows, Used, CreateFirst
<1>2. CASE Corroborate(p)
  <2>1. claim \in ClaimType /\ h \in Ids /\ relation[h] \in Row /\ seen[p] \in Row
    BY <1>0, <1>2 DEF Corroborate, Remembers, TypeOK, Used
  <2> DEFINE b == ApplyEvidence(seen[p], claim.confidence, w, TRUE)
             d == UpgradedDerivation(seen[p].derivation, claim.derivation)
  <2>2. w \in Nat /\ w * Full \in Nat /\ claim.confidence \in 0 .. Full
    BY <2>1, BeliefAssumption, Product DEF ClaimType
  <2>3. b.alpha \in Nat /\ b.beta \in Nat
    BY <2>1, <2>2, EvidenceMass DEF Row, Beliefs
  <2>4. d \in Derivations
    BY <2>1 DEF Row, ClaimType, UpgradedDerivation
  <2>5. /\ relation' = [relation EXCEPT ![h] =
              [relation[h] EXCEPT !.alpha = b.alpha, !.beta = b.beta, !.derivation = d]]
        /\ evidence' = [evidence EXCEPT ![h] = @ + w * Full]
    BY <1>2, <2>1 DEF Corroborate, TypeOK
  <2> HIDE DEF b, d, w
  <2>6. [relation[h] EXCEPT !.alpha = b.alpha, !.beta = b.beta, !.derivation = d] \in Row
    BY <2>1, <2>3, <2>4 DEF Row
  <2>7. QED
    BY <1>2, <2>1, <2>2, <2>5, <2>6, RowAssumption DEF TypeOK, Grows, Used, Corroborate
<1>3. CASE Contest(p)
  <2>1. claim \in ClaimType /\ h \in Ids /\ relation[h] \in Row
    BY <1>0, <1>3 DEF Contest, Remembers, TypeOK, Used
  <2>2. NewRow(claim, stamp[p], TRUE, None) \in Row
    BY <1>0, <2>1, NewRowType DEF TypeOK
  <2>3. w * Full \in Nat
    BY <2>1, BeliefAssumption, Product DEF ClaimType
  <2>4. PICK n \in Ids :
          /\ ~Used(n)
          /\ relation' = [relation EXCEPT ![n] = NewRow(claim, stamp[p], TRUE, None),
                                          ![h].contested = TRUE]
          /\ evidence' = [evidence EXCEPT ![n] = w * Full]
    BY <1>3 DEF Contest
  <2>5. relation' = [relation EXCEPT ![n] = NewRow(claim, stamp[p], TRUE, None),
                                     ![h] = [relation[h] EXCEPT !.contested = TRUE]]
    BY <2>1, <2>4, RowAssumption DEF TypeOK, Used
  <2>6. [relation[h] EXCEPT !.contested = TRUE] \in Row
    BY <2>1 DEF Row
  <2>7. relation' \in [Ids -> Row \cup {None}] /\ Grows
    <3> DEFINE a == NewRow(claim, stamp[p], TRUE, None)
               b == [relation[h] EXCEPT !.contested = TRUE]
    <3>1. /\ a \in Row /\ b \in Row /\ n \in Ids /\ h \in Ids /\ ~Used(n) /\ Used(h)
          /\ relation' = [relation EXCEPT ![n] = a, ![h] = b]
      BY <2>1, <2>2, <2>4, <2>5, <2>6, RowAssumption DEF Used
    <3> HIDE DEF a, b, h
    <3>2. QED
      BY <3>1, InsertAndUpdate
  <2>8. EndTransaction(p)
    BY <1>3 DEF Contest
  <2>9. evidence' \in [Ids -> Nat]
    BY <2>3, <2>4 DEF TypeOK
  <2>10. QED
    BY <2>7, <2>8, <2>9
<1>4. CASE Supersede(p)
  <2>1. claim \in ClaimType /\ h \in Ids /\ relation[h] \in Row /\ stamp[p] \in Instants
    BY <1>0, <1>4, ZenonT(60) DEF Supersede, Remembers, TypeOK, Used
  <2>2. NewRow(claim, stamp[p], FALSE, h) \in Row
    BY <2>1, NewRowType
  <2>3. w * Full \in Nat
    BY <2>1, BeliefAssumption, Product DEF ClaimType
  <2>4. PICK n \in Ids :
          /\ ~Used(n)
          /\ relation' = [relation EXCEPT ![n] = NewRow(claim, stamp[p], FALSE, h),
                                          ![h].validTo = stamp[p],
                                          ![h].supersededBy = n]
          /\ evidence' = [evidence EXCEPT ![n] = w * Full]
    BY <1>4 DEF Supersede
  <2>5. relation' = [relation EXCEPT ![n] = NewRow(claim, stamp[p], FALSE, h),
                        ![h] = [relation[h] EXCEPT !.validTo = stamp[p], !.supersededBy = n]]
    BY <2>1, <2>4, RowAssumption DEF TypeOK, Used
  <2>6. [relation[h] EXCEPT !.validTo = stamp[p], !.supersededBy = n] \in Row
    BY <2>1, <2>4 DEF Row
  <2>7. relation' \in [Ids -> Row \cup {None}] /\ Grows
    <3> DEFINE a == NewRow(claim, stamp[p], FALSE, h)
               b == [relation[h] EXCEPT !.validTo = stamp[p], !.supersededBy = n]
    <3>1. /\ a \in Row /\ b \in Row /\ n \in Ids /\ h \in Ids /\ ~Used(n) /\ Used(h)
          /\ relation' = [relation EXCEPT ![n] = a, ![h] = b]
      BY <2>1, <2>2, <2>4, <2>5, <2>6, RowAssumption DEF Used
    <3> HIDE DEF a, b, h
    <3>2. QED
      BY <3>1, InsertAndUpdate
  <2>8. EndTransaction(p)
    BY <1>4 DEF Supersede
  <2>9. evidence' \in [Ids -> Nat]
    BY <2>3, <2>4 DEF TypeOK
  <2>10. QED
    BY <2>7, <2>8, <2>9
<1>5. CASE RecordFeedback(p)
  <2>1. /\ request[p] \in FeedbackType
        /\ h \in Ids /\ relation[h] \in Row /\ seen[p] \in Row
    BY <1>0, <1>5 DEF RecordFeedback, Remembers, TypeOK, Used
  <2> DEFINE b == ApplyFeedback(seen[p], request[p].outcome, request[p].confidence)
  <2>2. FeedbackWeight \in Nat /\ FeedbackWeight * Full \in Nat
    BY BeliefAssumption, Product
  <2>3. b.alpha \in Nat /\ b.beta \in Nat
    BY <2>1, <2>2, EvidenceMass DEF Row, Beliefs, ApplyFeedback, FeedbackType
  <2>4. /\ relation' = [relation EXCEPT ![h] =
              [relation[h] EXCEPT !.alpha = b.alpha, !.beta = b.beta]]
        /\ evidence' = [evidence EXCEPT ![h] = @ + FeedbackWeight * Full]
    BY <1>5, <2>1 DEF RecordFeedback, TypeOK
  <2> HIDE DEF b
  <2>5. [relation[h] EXCEPT !.alpha = b.alpha, !.beta = b.beta] \in Row
    BY <2>1, <2>3 DEF Row
  <2>6. QED
    BY <1>5, <2>1, <2>2, <2>4, <2>5, RowAssumption DEF TypeOK, Grows, Used, RecordFeedback
<1>6. QED
  BY <1>1, <1>2, <1>3, <1>4, <1>5

(* Everything of the type invariant but what processes remember. *)
Shape ==
  /\ relation \in [Ids -> Row \cup {None}]
  /\ owner \in [Ids -> Procs \cup {None}]
  /\ pc \in [Procs -> {"idle"} \cup WriterLabels \cup PassLabels]
  /\ \A p \in Writers : pc[p] \notin PassLabels
  /\ \A p \in Ruminators : pc[p] \notin WriterLabels
  /\ request \in [Procs -> ClaimType \cup FeedbackType \cup Pairs \cup {None}]
  /\ stamp \in [Procs -> Instants]
  /\ cand \in [Procs -> SUBSET Ids]
  /\ held \in [Procs -> Ids \cup {None}]
  /\ seen \in [Procs -> Row \cup {None}]
  /\ todo \in [Procs -> SUBSET Pairs]
  /\ audited \subseteq Pairs
  /\ clock \in Instants
  /\ creates \in Nat /\ feedbacks \in Nat
  /\ evidence \in [Ids -> Nat]

LEMMA ShapeAndMemory == TypeOK <=> Shape /\ \A p \in Procs : Remembers(p)
BY DEF TypeOK, Shape

(* A step of p establishes the type invariant if it keeps the shape and    *)
(* the rows, leaves the others where they are, and p remembers.            *)
LEMMA StepOfOne ==
  ASSUME TypeOK, NEW p \in Procs, Shape', Grows,
         \A q \in Procs \ {p} : Undisturbed(q), Remembers(p)'
  PROVE  TypeOK'
<1>1. \A q \in Procs : Remembers(q)'
  BY OthersRemember
<1>2. QED
  BY <1>1 DEF TypeOK, Shape

(* The steps that leave the rows alone. *)
LEMMA SameRows ==
  ASSUME UNCHANGED relation
  PROVE  Grows
BY DEF Grows, Used

(* The end of a transaction keeps the shape of everything but the rows. *)
LEMMA EndTransactionType ==
  ASSUME TypeOK, NEW p \in Writers, EndTransaction(p),
         relation' \in [Ids -> Row \cup {None}], evidence' \in [Ids -> Nat], Grows
  PROVE  TypeOK'
<1>1. p \in Procs /\ 0 \in Instants
  BY StoreAssumption DEF Procs
<1>2. Shape'
  BY <1>1, ShapeAndMemory
     DEF Shape, EndTransaction, Unlocked, WriterLabels, PassLabels
<1>3. \A q \in Procs \ {p} : Undisturbed(q)
  BY DEF Undisturbed, EndTransaction, TypeOK
<1>4. Remembers(p)'
  <2>1. pc'[p] = "idle" /\ todo'[p] = todo[p]
    BY <1>1 DEF EndTransaction, TypeOK
  <2>2. todo[p] \subseteq ExistingPairs
    BY <1>1 DEF TypeOK, Remembers
  <2>3. QED
    BY <2>1, <2>2, PairsGrow DEF Remembers
<1>5. QED
  BY <1>1, <1>2, <1>3, <1>4, StepOfOne

(* So does the end of a pass. *)
LEMMA EndPassType ==
  ASSUME TypeOK, NEW p \in Ruminators, EndPass(p)
  PROVE  TypeOK'
<1>1. p \in Procs /\ 0 \in Instants
  BY StoreAssumption DEF Procs
<1>2. Shape'
  BY <1>1, ShapeAndMemory
     DEF Shape, EndPass, Unlocked, WriterLabels, PassLabels
<1>3. \A q \in Procs \ {p} : Undisturbed(q)
  BY DEF Undisturbed, EndPass, TypeOK
<1>4. Remembers(p)'
  BY <1>1 DEF EndPass, TypeOK, Remembers
<1>5. QED
  BY <1>1, <1>2, <1>3, <1>4, StepOfOne, SameRows DEF EndPass

(* The steps of a writer that only move it on. *)
LEMMA WriterMoves ==
  ASSUME TypeOK, NEW p \in Writers,
         \/ BeginCreate(p) \/ ScanActive(p) \/ LockPrevious(p) \/ SkipSuperseded(p)
         \/ BeginFeedback(p) \/ LockFeedback(p)
  PROVE  TypeOK'
<1>1. p \in Procs /\ p \notin Ruminators /\ Remembers(p) /\ Shape /\ todo[p] \subseteq ExistingPairs
  BY StoreAssumption, ShapeAndMemory DEF Procs, TypeOK, Remembers
<1>2. CASE BeginCreate(p)
  <2>1. Shape'
    BY <1>1, <1>2, StoreAssumption DEF Shape, BeginCreate, WriterLabels, PassLabels
  <2>2. Grows /\ \A q \in Procs \ {p} : Undisturbed(q)
    BY <1>2, SameRows DEF Undisturbed, BeginCreate, TypeOK
  <2>3. Remembers(p)'
    BY <1>1, <1>2, <2>2, PairsGrow, StoreAssumption DEF BeginCreate, TypeOK, Remembers
  <2>4. QED
    BY <1>1, <2>1, <2>2, <2>3, StepOfOne
<1>3. CASE ScanActive(p)
  <2>1. Shape'
    BY <1>1, <1>3 DEF Shape, ScanActive, WriterLabels, PassLabels
  <2>2. Grows /\ \A q \in Procs \ {p} : Undisturbed(q)
    BY <1>3, SameRows DEF Undisturbed, ScanActive, TypeOK
  <2>3. Remembers(p)'
    BY <1>1, <1>3, <2>2, PairsGrow DEF ScanActive, TypeOK, Remembers
  <2>4. QED
    BY <1>1, <2>1, <2>2, <2>3, StepOfOne
<1>4. CASE LockPrevious(p)
  <2>1. PICK r \in cand[p] :
          /\ owner' = [owner EXCEPT ![r] = p]
          /\ Active(r)
          /\ held' = [held EXCEPT ![p] = r]
          /\ seen' = [seen EXCEPT ![p] = relation[r]]
    BY <1>4 DEF LockPrevious, Lock
  <2>2. r \in Ids /\ Used(r) /\ relation[r] \in Row
    BY <1>1, <2>1 DEF Shape, Active, Used
  <2>3. Shape'
    BY <1>1, <1>4, <2>1, <2>2 DEF Shape, LockPrevious, WriterLabels, PassLabels
  <2>4. Grows /\ \A q \in Procs \ {p} : Undisturbed(q)
    BY <1>4, <2>1, SameRows DEF Undisturbed, LockPrevious, TypeOK
  <2>5. Remembers(p)'
    BY <1>1, <1>4, <2>1, <2>2, <2>4, PairsGrow DEF LockPrevious, TypeOK, Remembers, Used
  <2>6. QED
    BY <1>1, <2>3, <2>4, <2>5, StepOfOne
<1>5. CASE SkipSuperseded(p)
  <2>1. PICK r \in cand[p] :
          /\ owner' = [owner EXCEPT ![r] = p]
          /\ cand' = [cand EXCEPT ![p] = @ \ {r}]
    BY <1>5 DEF SkipSuperseded, Lock
  <2>2. Shape'
    BY <1>1, <1>5, <2>1 DEF Shape, SkipSuperseded
  <2>3. Grows /\ \A q \in Procs : Undisturbed(q)
    BY <1>5, SameRows DEF Undisturbed, SkipSuperseded, TypeOK
  <2>4. QED
    BY <1>1, <2>2, <2>3, OthersRemember, StepOfOne
<1>6. CASE BeginFeedback(p)
  <2>1. PICK r \in Ids, f \in Reports :
          /\ Used(r)
          /\ request' = [request EXCEPT ![p] =
                [relation |-> r, outcome |-> f.outcome, confidence |-> f.confidence]]
    BY <1>6 DEF BeginFeedback
  <2>2. [relation |-> r, outcome |-> f.outcome, confidence |-> f.confidence] \in FeedbackType
    BY <2>1, StoreAssumption DEF FeedbackType, ReportType
  <2>3. Shape'
    BY <1>1, <1>6, <2>1, <2>2 DEF Shape, BeginFeedback, WriterLabels, PassLabels
  <2>4. Grows /\ \A q \in Procs \ {p} : Undisturbed(q)
    BY <1>6, <2>1, SameRows DEF Undisturbed, BeginFeedback, TypeOK
  <2>5. Remembers(p)'
    BY <1>1, <1>6, <2>1, <2>2, <2>4, PairsGrow DEF BeginFeedback, TypeOK, Remembers, Used
  <2>6. QED
    BY <1>1, <2>3, <2>4, <2>5, StepOfOne
<1>7. CASE LockFeedback(p)
  <2>1. /\ request[p] \in FeedbackType /\ request[p].relation \in Ids
        /\ Used(request[p].relation) /\ relation[request[p].relation] \in Row
    BY <1>1, <1>7 DEF LockFeedback, Remembers, FeedbackType, Shape, Used
  <2>2. Shape'
    BY <1>1, <1>7, <2>1 DEF Shape, LockFeedback, Lock, WriterLabels, PassLabels
  <2>3. Grows /\ \A q \in Procs \ {p} : Undisturbed(q)
    BY <1>7, SameRows DEF Undisturbed, LockFeedback, TypeOK
  <2>4. Remembers(p)'
    BY <1>1, <1>7, <2>1, <2>3, PairsGrow DEF LockFeedback, TypeOK, Remembers, Used
  <2>5. QED
    BY <1>1, <2>2, <2>3, <2>4, StepOfOne
<1>8. QED
  BY <1>2, <1>3, <1>4, <1>5, <1>6, <1>7

(* The steps of a pass that change no row. *)
LEMMA PassMoves ==
  ASSUME TypeOK, NEW p \in Ruminators,
         \/ \E force \in BOOLEAN : BeginPass(p, force)
         \/ ListContested(p) \/ LockWinner(p) \/ LockLoser(p) \/ RecordAudit(p)
  PROVE  TypeOK'
<1>1. p \in Procs /\ p \notin Writers /\ Remembers(p) /\ Shape /\ todo[p] \subseteq ExistingPairs
  BY StoreAssumption, ShapeAndMemory DEF Procs, TypeOK, Remembers
<1>2. ASSUME NEW force \in BOOLEAN, BeginPass(p, force)
      PROVE  TypeOK'
  <2>1. Shape'
    BY <1>1, <1>2, StoreAssumption DEF Shape, BeginPass, WriterLabels, PassLabels
  <2>2. Grows /\ \A q \in Procs \ {p} : Undisturbed(q)
    BY <1>2, SameRows DEF Undisturbed, BeginPass, TypeOK
  <2>3. Remembers(p)'
    BY <1>1, <1>2, <2>2, PairsGrow DEF BeginPass, TypeOK, Remembers
  <2>4. QED
    BY <1>1, <2>1, <2>2, <2>3, StepOfOne
<1>3. CASE ListContested(p)
  <2>1. Decisions(stamp[p], pc[p] = "forceList") \subseteq ExistingPairs
    BY DEF Decisions, ExistingPairs, ContestedGroup, Active
  <2>2. todo' = [todo EXCEPT ![p] = Decisions(stamp[p], pc[p] = "forceList")]
    BY <1>3 DEF ListContested
  <2>3. Shape'
    BY <1>1, <1>3, <2>1, <2>2 DEF Shape, ListContested, WriterLabels, PassLabels, locals, ExistingPairs
  <2>4. Grows /\ \A q \in Procs \ {p} : Undisturbed(q)
    BY <1>3, SameRows DEF Undisturbed, ListContested, TypeOK, locals
  <2>5. Remembers(p)'
    BY <1>1, <1>3, <2>1, <2>2, <2>4, PairsGrow DEF ListContested, TypeOK, Remembers, locals
  <2>6. QED
    BY <1>1, <2>3, <2>4, <2>5, StepOfOne
<1>4. CASE LockWinner(p)
  <2>1. PICK d \in todo[p] :
          /\ owner' = [owner EXCEPT ![d.winner] = p]
          /\ request' = [request EXCEPT ![p] = d]
          /\ todo' = [todo EXCEPT ![p] = @ \ {d}]
    BY <1>4 DEF LockWinner, Lock
  <2>2. d \in ExistingPairs /\ d \in Pairs /\ d.winner \in Ids
    BY <1>1, <2>1 DEF ExistingPairs, Pairs
  <2>3. Shape'
    BY <1>1, <1>4, <2>1, <2>2 DEF Shape, LockWinner, WriterLabels, PassLabels
  <2>4. Grows /\ \A q \in Procs \ {p} : Undisturbed(q)
    BY <1>4, <2>1, SameRows DEF Undisturbed, LockWinner, TypeOK
  <2>5. Remembers(p)'
    BY <1>1, <1>4, <2>1, <2>2, <2>4, PairsGrow DEF LockWinner, TypeOK, Remembers
  <2>6. QED
    BY <1>1, <2>3, <2>4, <2>5, StepOfOne
<1>5. CASE LockLoser(p)
  <2>1. request[p].loser \in Ids
    BY <1>1, <1>5 DEF LockLoser, Remembers, ExistingPairs, Pairs
  <2>2. Shape'
    BY <1>1, <1>5, <2>1 DEF Shape, LockLoser, Lock, WriterLabels, PassLabels, locals
  <2>3. Grows /\ \A q \in Procs \ {p} : Undisturbed(q)
    BY <1>5, SameRows DEF Undisturbed, LockLoser, TypeOK, locals
  <2>4. Remembers(p)'
    BY <1>1, <1>5, <2>3, PairsGrow DEF LockLoser, TypeOK, Remembers, locals
  <2>5. QED
    BY <1>1, <2>2, <2>3, <2>4, StepOfOne
<1>6. CASE RecordAudit(p)
  <2>1. request[p] \in Pairs
    BY <1>1, <1>6 DEF RecordAudit, Remembers, ExistingPairs
  <2>2. Shape'
    BY <1>1, <1>6, <2>1 DEF Shape, RecordAudit, WriterLabels, PassLabels
  <2>3. Grows /\ \A q \in Procs \ {p} : Undisturbed(q)
    BY <1>6, SameRows DEF Undisturbed, RecordAudit, TypeOK
  <2>4. Remembers(p)'
    BY <1>1, <1>6, <2>3, PairsGrow DEF RecordAudit, TypeOK, Remembers
  <2>5. QED
    BY <1>1, <2>2, <2>3, <2>4, StepOfOne
<1>7. QED
  BY <1>2, <1>3, <1>4, <1>5, <1>6

(* resolve_contest's update of both rows. *)
LEMMA ResolveTypes ==
  ASSUME TypeOK, NEW p \in Ruminators, ResolveContest(p)
  PROVE  TypeOK' /\ Grows
<1>1. p \in Procs /\ p \notin Writers /\ Remembers(p) /\ Shape /\ pc[p] = "resolve"
  BY StoreAssumption, ShapeAndMemory DEF Procs, TypeOK, ResolveContest
<1> DEFINE w == request[p].winner
           l == request[p].loser
           a == [relation[w] EXCEPT !.contested = FALSE, !.supersedes = l]
           b == [relation[l] EXCEPT !.contested = FALSE, !.validTo = stamp[p], !.supersededBy = w]
<1>2. request[p] \in ExistingPairs /\ w \in Ids /\ l \in Ids /\ w # l
  BY <1>1 DEF Remembers, ExistingPairs, Pairs
<1>3. relation[w] \in Row /\ relation[l] \in Row /\ stamp[p] \in Instants
  BY <1>1, <1>2 DEF ExistingPairs, Used, Shape
<1>4. a \in Row /\ b \in Row
  BY <1>2, <1>3 DEF Row
<1>5. relation' = [relation EXCEPT ![w] = a, ![l] = b]
  BY <1>1, <1>2 DEF ResolveContest, Shape
<1> HIDE DEF w, l, a, b
<1>6. relation' \in [Ids -> Row \cup {None}] /\ Grows
  BY <1>1, <1>2, <1>4, <1>5, RowAssumption DEF Shape, Grows, Used
<1>7. Shape'
  <2>1. /\ owner' = Unlocked(p)
        /\ pc' = [pc EXCEPT ![p] = "audit"]
        /\ UNCHANGED <<locals, todo, audited, clock, creates, feedbacks, evidence>>
    BY DEF ResolveContest
  <2>2. owner' \in [Ids -> Procs \cup {None}]
    BY <1>1, <2>1 DEF Unlocked, Shape
  <2>3. QED
    BY <1>1, <1>6, <2>1, <2>2 DEF Shape, WriterLabels, PassLabels, locals
<1>8. \A q \in Procs \ {p} : Undisturbed(q)
  BY DEF Undisturbed, ResolveContest, TypeOK, locals
<1>9. Remembers(p)'
  BY <1>1, <1>2, <1>6, PairsGrow DEF ResolveContest, Shape, Remembers, locals
<1>10. QED
  BY <1>1, <1>6, <1>7, <1>8, <1>9, StepOfOne

LEMMA TypeInit == Init => TypeOK
<1> SUFFICES ASSUME Init PROVE TypeOK
  OBVIOUS
<1>1. Shape
  <2>1. /\ relation \in [Ids -> Row \cup {None}]
        /\ owner \in [Ids -> Procs \cup {None}]
        /\ evidence \in [Ids -> Nat]
        /\ audited \subseteq Pairs
        /\ clock \in Instants /\ creates \in Nat /\ feedbacks \in Nat
    BY StoreAssumption DEF Init
  <2>2. /\ pc \in [Procs -> {"idle"} \cup WriterLabels \cup PassLabels]
        /\ request \in [Procs -> ClaimType \cup FeedbackType \cup Pairs \cup {None}]
        /\ stamp \in [Procs -> Instants]
        /\ held \in [Procs -> Ids \cup {None}]
        /\ seen \in [Procs -> Row \cup {None}]
    BY StoreAssumption DEF Init
  <2>3. cand \in [Procs -> SUBSET Ids] /\ todo \in [Procs -> SUBSET Pairs]
    BY DEF Init
  <2>4. /\ \A p \in Writers : pc[p] \notin PassLabels
        /\ \A p \in Ruminators : pc[p] \notin WriterLabels
    BY DEF Init, Procs, WriterLabels, PassLabels
  <2>5. QED
    BY <2>1, <2>2, <2>3, <2>4 DEF Shape
<1>2. \A p \in Procs : Remembers(p)
  BY DEF Init, Remembers
<1>3. QED
  BY <1>1, <1>2, ShapeAndMemory

(* A failed writer changes no row. *)
LEMMA WriterFailsType ==
  ASSUME TypeOK, NEW p \in Writers, WriterFails(p)
  PROVE  TypeOK'
BY SameRows, EndTransactionType DEF WriterFails, TypeOK

LEMMA TypeStep == TypeOK /\ [Next]_vars => TypeOK'
<1> SUFFICES ASSUME TypeOK, [Next]_vars PROVE TypeOK'
  OBVIOUS
<1>1. ASSUME NEW p \in Writers,
             BeginCreate(p) \/ BeginFeedback(p) \/ WriterStep(p) \/ WriterFails(p)
      PROVE  TypeOK'
  <2>1. CASE CreateFirst(p) \/ Corroborate(p) \/ Contest(p) \/ Supersede(p) \/ RecordFeedback(p)
    BY <2>1, WriteTypes, EndTransactionType
  <2>2. CASE \/ BeginCreate(p) \/ ScanActive(p) \/ LockPrevious(p) \/ SkipSuperseded(p)
             \/ BeginFeedback(p) \/ LockFeedback(p)
    BY <2>2, WriterMoves
  <2>3. CASE WriterFails(p) \/ DeadlockVictim(p)
    BY <2>3, WriterFailsType DEF DeadlockVictim
  <2>4. QED
    BY <1>1, <2>1, <2>2, <2>3 DEF WriterStep
<1>2. ASSUME NEW p \in Ruminators,
             (\E force \in BOOLEAN : BeginPass(p, force)) \/ PassStep(p) \/ PassFails(p)
      PROVE  TypeOK'
  <2>1. CASE FinishPass(p) \/ PassFails(p) \/ DeadlockVictim(p)
    BY <2>1, EndPassType, StoreAssumption DEF FinishPass, PassFails, DeadlockVictim
  <2>2. CASE \/ \E force \in BOOLEAN : BeginPass(p, force)
             \/ ListContested(p) \/ LockWinner(p) \/ LockLoser(p) \/ RecordAudit(p)
    BY <2>2, PassMoves
  <2>3. CASE ResolveContest(p)
    BY <2>3, ResolveTypes
  <2>4. QED
    BY <1>2, <2>1, <2>2, <2>3 DEF PassStep
<1>3. CASE Tick \/ UNCHANGED vars
  <2>1. Grows /\ \A q \in Procs : Undisturbed(q)
    BY <1>3, SameRows DEF Tick, vars, locals, Undisturbed
  <2>2. Shape'
    BY <1>3, ShapeAndMemory DEF Shape, Tick, vars, locals
  <2>3. QED
    BY <2>1, <2>2, OthersRemember DEF TypeOK, Shape
<1>4. QED
  BY <1>1, <1>2, <1>3 DEF Next

(* In every reachable state every variable has its type, and no            *)
(* transaction of create_relation, record_feedback or a rumination pass    *)
(* works on a row or a request that is not there.                          *)
THEOREM TypeCorrect == Spec => []TypeOK
BY TypeInit, TypeStep, PTL DEF Spec

-----------------------------------------------------------------------------
(* Row locks *)

(* A step of another process leaves q's locks and the rows under them. *)
Respected(q) ==
  \A r \in Ids : owner[r] = q /\ Used(r) => owner'[r] = q /\ relation'[r] = relation[r]

LEMMA UnlockRespects ==
  ASSUME TypeOK, NEW p \in Procs, NEW q \in Procs \ {p}, owner' = Unlocked(p), NEW r \in Ids,
         owner[r] = q
  PROVE  owner'[r] = q
BY DEF Unlocked, TypeOK

LEMMA LockRespects ==
  ASSUME TypeOK, NEW p \in Procs, NEW q \in Procs \ {p}, NEW x \in Ids, Lock(p, x), NEW r \in Ids,
         owner[r] = q
  PROVE  owner'[r] = q
BY NoneAssumption DEF Lock, TypeOK

(* What q read stays current while others step. *)
LEMMA OthersCurrent ==
  ASSUME TypeOK, ReadsStayCurrent, NEW q \in Procs, Undisturbed(q), Respected(q)
  PROVE  /\ pc'[q] \in {"decide", "applyFeedback"} =>
              owner'[held'[q]] = q /\ seen'[q] = relation'[held'[q]]
         /\ pc'[q] \in {"lockLoser", "resolve"} => owner'[request'[q].winner] = q
         /\ pc'[q] = "resolve" => owner'[request'[q].loser] = q
<1>1. Remembers(q)
  BY DEF TypeOK
<1>2. pc[q] \in {"decide", "applyFeedback"} => held[q] \in Ids /\ Used(held[q])
  BY <1>1 DEF Remembers
<1>3. pc[q] \in {"lockLoser", "resolve"} =>
        /\ request[q].winner \in Ids /\ Used(request[q].winner)
        /\ request[q].loser \in Ids /\ Used(request[q].loser)
  BY <1>1 DEF Remembers, ExistingPairs, Pairs
<1>4. QED
  BY <1>2, <1>3 DEF ReadsStayCurrent, Undisturbed, Respected

(* The steps after which p has nothing read under a lock. *)
Resting == {"idle", "scan", "lock", "lockFeedback", "list", "forceList", "next", "audit"}

LEMMA RestingStep ==
  ASSUME TypeOK, ReadsStayCurrent, NEW p \in Procs,
         \A q \in Procs \ {p} : Undisturbed(q) /\ Respected(q),
         pc'[p] \in Resting
  PROVE  ReadsStayCurrent'
<1>1. pc'[p] \notin {"decide", "applyFeedback", "lockLoser", "resolve"}
  BY DEF Resting
<1>2. QED
  BY <1>1, OthersCurrent DEF ReadsStayCurrent

(* A writer changes the row it holds and rows nobody used before it. *)
LEMMA WritesOwnRow ==
  ASSUME TypeOK, ReadsStayCurrent, NEW p \in Writers,
         CreateFirst(p) \/ Corroborate(p) \/ Contest(p) \/ Supersede(p) \/ RecordFeedback(p),
         NEW r \in Ids, Used(r), owner[r] # p
  PROVE  relation'[r] = relation[r]
<1>1. p \in Procs /\ Remembers(p)
  BY DEF Procs, TypeOK
<1>2. pc[p] \in {"decide", "applyFeedback"} => held[p] \in Ids /\ held[p] # r
  BY <1>1 DEF ReadsStayCurrent, Remembers
<1>3. CASE CreateFirst(p)
  <2>1. PICK n \in Ids : ~Used(n) /\ relation' =
          [relation EXCEPT ![n] = NewRow(request[p], stamp[p], FALSE, None)]
    BY <1>3 DEF CreateFirst
  <2>2. QED
    BY <2>1 DEF TypeOK
<1>4. CASE Corroborate(p)
  BY <1>2, <1>4 DEF Corroborate, TypeOK
<1>5. CASE Contest(p)
  <2>1. PICK n \in Ids : ~Used(n) /\ relation' =
          [relation EXCEPT ![n] = NewRow(request[p], stamp[p], TRUE, None),
                           ![held[p]].contested = TRUE]
    BY <1>5 DEF Contest
  <2>2. held[p] # r
    BY <1>2, <1>5 DEF Contest
  <2>3. QED
    BY <2>1, <2>2 DEF TypeOK
<1>6. CASE Supersede(p)
  <2>1. PICK n \in Ids : ~Used(n) /\ relation' =
          [relation EXCEPT ![n] = NewRow(request[p], stamp[p], FALSE, held[p]),
                           ![held[p]].validTo = stamp[p],
                           ![held[p]].supersededBy = n]
    BY <1>6 DEF Supersede
  <2>2. held[p] # r
    BY <1>2, <1>6 DEF Supersede
  <2>3. QED
    BY <2>1, <2>2 DEF TypeOK
<1>7. CASE RecordFeedback(p)
  BY <1>2, <1>7 DEF RecordFeedback, TypeOK
<1>8. QED
  BY <1>3, <1>4, <1>5, <1>6, <1>7

(* A pass changes the two rows it owns. *)
LEMMA ResolvesOwnRows ==
  ASSUME TypeOK, ReadsStayCurrent, NEW p \in Ruminators, ResolveContest(p),
         NEW r \in Ids, owner[r] # p
  PROVE  relation'[r] = relation[r]
<1>1. p \in Procs /\ pc[p] = "resolve"
  BY DEF Procs, ResolveContest
<1>2. r # request[p].winner /\ r # request[p].loser
  BY <1>1 DEF ReadsStayCurrent
<1>3. QED
  BY <1>2 DEF ResolveContest, TypeOK

LEMMA EndRespects ==
  ASSUME TypeOK, NEW p \in Writers, EndTransaction(p),
         \A r \in Ids : Used(r) /\ owner[r] # p => relation'[r] = relation[r]
  PROVE  pc'[p] \in Resting /\ \A q \in Procs \ {p} : Undisturbed(q) /\ Respected(q)
<1>1. p \in Procs /\ owner' = Unlocked(p) /\ pc'[p] = "idle"
  BY DEF Procs, EndTransaction, TypeOK
<1>2. ASSUME NEW q \in Procs \ {p} PROVE Undisturbed(q)
  BY DEF Undisturbed, EndTransaction, TypeOK
<1>3. ASSUME NEW q \in Procs \ {p} PROVE Respected(q)
  BY <1>1, UnlockRespects DEF Respected
<1>4. QED
  BY <1>1, <1>2, <1>3 DEF Resting

LEMMA ReadsStep == TypeOK /\ ReadsStayCurrent /\ [Next]_vars => ReadsStayCurrent'
<1> SUFFICES ASSUME TypeOK, ReadsStayCurrent, [Next]_vars PROVE ReadsStayCurrent'
  OBVIOUS
<1>1. ASSUME NEW p \in Writers,
             BeginCreate(p) \/ BeginFeedback(p) \/ WriterStep(p) \/ WriterFails(p)
      PROVE  ReadsStayCurrent'
  <2>0. p \in Procs /\ Remembers(p)
    BY DEF Procs, TypeOK
  <2>1. CASE CreateFirst(p) \/ Corroborate(p) \/ Contest(p) \/ Supersede(p) \/ RecordFeedback(p)
    BY <2>0, <2>1, WritesOwnRow, EndRespects, WriteTypes, RestingStep
  <2>2. CASE WriterFails(p) \/ DeadlockVictim(p)
    BY <2>0, <2>2, EndRespects, RestingStep DEF WriterFails, DeadlockVictim
  <2>3. CASE BeginCreate(p) \/ ScanActive(p) \/ BeginFeedback(p)
    <3>1. pc'[p] \in Resting
      BY <2>0, <2>3 DEF Resting, BeginCreate, ScanActive, BeginFeedback, TypeOK
    <3>2. \A q \in Procs \ {p} : Undisturbed(q) /\ Respected(q)
      BY <2>3 DEF Undisturbed, Respected, BeginCreate, ScanActive, BeginFeedback, TypeOK
    <3>3. QED
      BY <2>0, <3>1, <3>2, RestingStep
  <2>4. CASE SkipSuperseded(p)
    <3>1. PICK x \in cand[p] : Lock(p, x)
      BY <2>4 DEF SkipSuperseded
    <3>2. x \in Ids
      BY <2>0, <3>1 DEF TypeOK
    <3>3. pc'[p] \in Resting /\ relation' = relation
      BY <2>0, <2>4 DEF Resting, SkipSuperseded
    <3>4. \A q \in Procs \ {p} : Undisturbed(q)
      BY <2>4 DEF Undisturbed, SkipSuperseded, TypeOK
    <3>5. \A q \in Procs \ {p} : Respected(q)
      BY <2>0, <3>1, <3>2, <3>3, LockRespects DEF Respected
    <3>6. QED
      BY <2>0, <3>3, <3>4, <3>5, RestingStep
  <2>5. CASE LockPrevious(p)
    <3>1. PICK x \in cand[p] :
            /\ Lock(p, x)
            /\ held' = [held EXCEPT ![p] = x]
            /\ seen' = [seen EXCEPT ![p] = relation[x]]
      BY <2>5 DEF LockPrevious
    <3>2. x \in Ids
      BY <2>0, <3>1 DEF TypeOK
    <3>3. pc'[p] = "decide" /\ relation' = relation
      BY <2>0, <2>5 DEF LockPrevious, TypeOK
    <3>4. \A q \in Procs \ {p} : Undisturbed(q)
      BY <2>5, <3>1 DEF Undisturbed, LockPrevious, TypeOK
    <3>5. \A q \in Procs \ {p} : Respected(q)
      BY <2>0, <3>1, <3>2, <3>3, LockRespects DEF Respected
    <3>6. owner'[held'[p]] = p /\ seen'[p] = relation'[held'[p]]
      BY <2>0, <3>1, <3>2, <3>3 DEF Lock, TypeOK
    <3>7. QED
      BY <3>3, <3>4, <3>5, <3>6, OthersCurrent DEF ReadsStayCurrent
  <2>6. CASE LockFeedback(p)
    <3> DEFINE x == request[p].relation
    <3>1. x \in Ids
      BY <2>0, <2>6 DEF LockFeedback, Remembers, FeedbackType
    <3>2. /\ Lock(p, x)
          /\ held' = [held EXCEPT ![p] = x]
          /\ seen' = [seen EXCEPT ![p] = relation[x]]
      BY <2>6 DEF LockFeedback
    <3>3. pc'[p] = "applyFeedback" /\ relation' = relation
      BY <2>0, <2>6 DEF LockFeedback, TypeOK
    <3>4. \A q \in Procs \ {p} : Undisturbed(q)
      BY <2>6 DEF Undisturbed, LockFeedback, TypeOK
    <3> HIDE DEF x
    <3>5. \A q \in Procs \ {p} : Respected(q)
      BY <2>0, <3>1, <3>2, <3>3, LockRespects DEF Respected
    <3>6. owner'[held'[p]] = p /\ seen'[p] = relation'[held'[p]]
      BY <2>0, <3>1, <3>2, <3>3 DEF Lock, TypeOK
    <3>7. QED
      BY <3>3, <3>4, <3>5, <3>6, OthersCurrent DEF ReadsStayCurrent
  <2>7. QED
    BY <1>1, <2>1, <2>2, <2>3, <2>4, <2>5, <2>6 DEF WriterStep
<1>2. ASSUME NEW p \in Ruminators,
             (\E force \in BOOLEAN : BeginPass(p, force)) \/ PassStep(p) \/ PassFails(p)
      PROVE  ReadsStayCurrent'
  <2>0. p \in Procs /\ Remembers(p)
    BY DEF Procs, TypeOK
  <2>1. CASE (\E force \in BOOLEAN : BeginPass(p, force)) \/ ListContested(p) \/ RecordAudit(p)
    <3>1. pc'[p] \in Resting
      BY <2>0, <2>1 DEF Resting, BeginPass, ListContested, RecordAudit, TypeOK
    <3>2. \A q \in Procs \ {p} : Undisturbed(q) /\ Respected(q)
      BY <2>1 DEF Undisturbed, Respected, BeginPass, ListContested, RecordAudit, TypeOK, locals
    <3>3. QED
      BY <2>0, <3>1, <3>2, RestingStep
  <2>2. CASE FinishPass(p) \/ PassFails(p) \/ DeadlockVictim(p)
    <3>1. EndPass(p)
      BY <2>2, StoreAssumption DEF FinishPass, PassFails, DeadlockVictim
    <3>2. pc'[p] \in Resting /\ owner' = Unlocked(p) /\ relation' = relation
      BY <2>0, <3>1 DEF EndPass, Resting, TypeOK
    <3>3. \A q \in Procs \ {p} : Undisturbed(q)
      BY <3>1 DEF Undisturbed, EndPass, TypeOK
    <3>4. \A q \in Procs \ {p} : Respected(q)
      BY <2>0, <3>2, UnlockRespects DEF Respected
    <3>5. QED
      BY <2>0, <3>2, <3>3, <3>4, RestingStep
  <2>3. CASE LockWinner(p)
    <3>1. PICK d \in todo[p] :
            /\ Lock(p, d.winner)
            /\ request' = [request EXCEPT ![p] = d]
            /\ todo' = [todo EXCEPT ![p] = @ \ {d}]
      BY <2>3 DEF LockWinner
    <3>2. d.winner \in Ids
      BY <2>0, <3>1 DEF Remembers, ExistingPairs, Pairs
    <3>3. pc'[p] = "lockLoser" /\ relation' = relation
      BY <2>0, <2>3 DEF LockWinner, TypeOK
    <3>4. \A q \in Procs \ {p} : Undisturbed(q)
      BY <2>3, <3>1 DEF Undisturbed, LockWinner, TypeOK
    <3>5. \A q \in Procs \ {p} : Respected(q)
      BY <2>0, <3>1, <3>2, <3>3, LockRespects DEF Respected
    <3>6. owner'[request'[p].winner] = p
      BY <2>0, <3>1, <3>2 DEF Lock, TypeOK
    <3>7. QED
      BY <3>3, <3>4, <3>5, <3>6, OthersCurrent DEF ReadsStayCurrent
  <2>4. CASE LockLoser(p)
    <3> DEFINE x == request[p].loser
    <3>1. x \in Ids /\ request[p].winner \in Ids /\ pc[p] = "lockLoser"
      BY <2>0, <2>4 DEF LockLoser, Remembers, ExistingPairs, Pairs
    <3>2. Lock(p, x) /\ request' = request /\ pc'[p] = "resolve" /\ relation' = relation
      BY <2>0, <2>4 DEF LockLoser, TypeOK, locals
    <3>3. \A q \in Procs \ {p} : Undisturbed(q)
      BY <2>4 DEF Undisturbed, LockLoser, TypeOK, locals
    <3>4. owner[request[p].winner] = p
      BY <2>0, <3>1 DEF ReadsStayCurrent
    <3>5. owner'[request'[p].winner] = p /\ owner'[request'[p].loser] = p
      BY <2>0, <3>1, <3>2, <3>4 DEF Lock, TypeOK
    <3> HIDE DEF x
    <3>6. \A q \in Procs \ {p} : Respected(q)
      BY <2>0, <3>1, <3>2, LockRespects DEF Respected
    <3>7. QED
      BY <3>2, <3>3, <3>5, <3>6, OthersCurrent DEF ReadsStayCurrent
  <2>5. CASE ResolveContest(p)
    <3>1. pc'[p] \in Resting /\ owner' = Unlocked(p)
      BY <2>0, <2>5 DEF Resting, ResolveContest, TypeOK
    <3>2. \A q \in Procs \ {p} : Undisturbed(q)
      BY <2>5 DEF Undisturbed, ResolveContest, TypeOK, locals
    <3>3. \A q \in Procs \ {p} : Respected(q)
      BY <2>0, <2>5, <3>1, UnlockRespects, ResolvesOwnRows DEF Respected
    <3>4. QED
      BY <2>0, <3>1, <3>2, <3>3, RestingStep
  <2>6. QED
    BY <1>2, <2>1, <2>2, <2>3, <2>4, <2>5 DEF PassStep
<1>3. CASE Tick \/ UNCHANGED vars
  BY <1>3 DEF Tick, vars, locals, ReadsStayCurrent
<1>4. QED
  BY <1>1, <1>2, <1>3 DEF Next

LEMMA ReadsInit == Init => ReadsStayCurrent
BY DEF Init, ReadsStayCurrent

(* FOR UPDATE protects every read-modify-write, for any number of          *)
(* concurrent calls and passes.                                            *)
THEOREM ReadsAreProtected == Spec => []ReadsStayCurrent
BY TypeInit, TypeStep, ReadsInit, ReadsStep, PTL DEF Spec

-----------------------------------------------------------------------------
(* Evidence *)

(* One row x has its belief or its existence changed, and the belief it    *)
(* ends with accounts for the evidence; every other row keeps its own.     *)
Accounted(x) ==
  /\ Mass(relation'[x]) = 2 * Prior + evidence'[x]
  /\ \A r \in Ids \ {x} :
       /\ Used(r)' => Used(r) /\ Mass(relation'[r]) = Mass(relation[r])
       /\ evidence'[r] = evidence[r]

LEMMA WriteEffects ==
  ASSUME TypeOK, ReadsStayCurrent, EvidenceConserved, NEW p \in Writers,
         CreateFirst(p) \/ Corroborate(p) \/ Contest(p) \/ Supersede(p) \/ RecordFeedback(p)
  PROVE  \E x \in Ids : Accounted(x)
<1>1. p \in Procs /\ Remembers(p) /\ relation \in [Ids -> Row \cup {None}] /\ evidence \in [Ids -> Nat]
  BY DEF Procs, TypeOK
<1> DEFINE claim == request[p]
           h == held[p]
           w == Weight[claim.derivation]
<1>2. CASE CreateFirst(p)
  <2>1. claim \in ClaimType /\ stamp[p] \in Instants
    BY <1>1, <1>2 DEF CreateFirst, Remembers, TypeOK
  <2>2. w * Full \in Nat
    BY <2>1, BeliefAssumption, Product DEF ClaimType
  <2>3. Mass(NewRow(claim, stamp[p], FALSE, None)) = 2 * Prior + w * Full
    BY <2>1, NewRowType
  <2>4. PICK n \in Ids :
          /\ relation' = [relation EXCEPT ![n] = NewRow(claim, stamp[p], FALSE, None)]
          /\ evidence' = [evidence EXCEPT ![n] = w * Full]
    BY <1>2 DEF CreateFirst
  <2>5. Mass(relation'[n]) = 2 * Prior + w * Full /\ evidence'[n] = w * Full
    BY <1>1, <2>3, <2>4
  <2>6. \A r \in Ids \ {n} : relation'[r] = relation[r] /\ evidence'[r] = evidence[r]
    BY <1>1, <2>4
  <2>7. QED
    BY <2>5, <2>6 DEF Used, Accounted
<1>3. ASSUME NEW ct \in BOOLEAN, NEW s \in Ids \cup {None}, NEW n \in Ids, NEW b,
             claim \in ClaimType, h \in Ids, relation[h] \in Row, ~Used(n),
             relation' = [relation EXCEPT ![n] = NewRow(claim, stamp[p], ct, s), ![h] = b],
             b.alpha = relation[h].alpha, b.beta = relation[h].beta,
             evidence' = [evidence EXCEPT ![n] = w * Full]
      PROVE  Accounted(n)
  <2>1. Mass(NewRow(claim, stamp[p], ct, s)) = 2 * Prior + w * Full
    BY <1>1, <1>3, NewRowType DEF TypeOK
  <2>2. n # h /\ Used(h)
    BY <1>3, RowAssumption DEF Used
  <2>3. Mass(relation'[n]) = 2 * Prior + w * Full /\ evidence'[n] = w * Full
    BY <1>1, <1>3, <2>1, <2>2
  <2>4. \A r \in Ids \ {n} : evidence'[r] = evidence[r]
    BY <1>1, <1>3
  <2>5. \A r \in Ids \ {n, h} : relation'[r] = relation[r]
    BY <1>1, <1>3
  <2>6. Mass(relation'[h]) = Mass(relation[h])
    BY <1>1, <1>3, <2>2 DEF Mass
  <2> HIDE DEF h, claim, w
  <2>7. QED
    BY <2>2, <2>3, <2>4, <2>5, <2>6 DEF Used, Accounted
<1>4. CASE Contest(p)
  <2>1. claim \in ClaimType /\ h \in Ids /\ relation[h] \in Row
    BY <1>1, <1>4 DEF Contest, Remembers, Used
  <2>2. PICK n \in Ids :
          /\ ~Used(n)
          /\ relation' = [relation EXCEPT ![n] = NewRow(claim, stamp[p], TRUE, None),
                                          ![h].contested = TRUE]
          /\ evidence' = [evidence EXCEPT ![n] = w * Full]
    BY <1>4 DEF Contest
  <2> DEFINE b == [relation[h] EXCEPT !.contested = TRUE]
  <2>3. relation' = [relation EXCEPT ![n] = NewRow(claim, stamp[p], TRUE, None), ![h] = b]
    BY <1>1, <2>1, <2>2, RowAssumption DEF Used
  <2>4. b.alpha = relation[h].alpha /\ b.beta = relation[h].beta
    BY <2>1 DEF Row
  <2> HIDE DEF b, h, claim, w
  <2>5. QED
    BY <1>3, <2>1, <2>2, <2>3, <2>4
<1>5. CASE Supersede(p)
  <2>1. claim \in ClaimType /\ h \in Ids /\ relation[h] \in Row
    BY <1>1, <1>5 DEF Supersede, Remembers, Used
  <2>2. PICK n \in Ids :
          /\ ~Used(n)
          /\ relation' = [relation EXCEPT ![n] = NewRow(claim, stamp[p], FALSE, h),
                                          ![h].validTo = stamp[p],
                                          ![h].supersededBy = n]
          /\ evidence' = [evidence EXCEPT ![n] = w * Full]
    BY <1>5 DEF Supersede
  <2> DEFINE b == [relation[h] EXCEPT !.validTo = stamp[p], !.supersededBy = n]
  <2>3. relation' = [relation EXCEPT ![n] = NewRow(claim, stamp[p], FALSE, h), ![h] = b]
    BY <1>1, <2>1, <2>2, RowAssumption DEF Used
  <2>4. b.alpha = relation[h].alpha /\ b.beta = relation[h].beta
    BY <2>1 DEF Row
  <2> HIDE DEF b, h, claim, w
  <2>5. QED
    BY <1>3, <2>1, <2>2, <2>3, <2>4
<1>6. CASE Corroborate(p)
  <2>1. /\ claim \in ClaimType /\ h \in Ids /\ Used(h) /\ relation[h] \in Row
        /\ seen[p] = relation[h]
    BY <1>1, <1>6 DEF Corroborate, Remembers, Used, ReadsStayCurrent
  <2> DEFINE b == ApplyEvidence(seen[p], claim.confidence, w, TRUE)
  <2>2. w \in Nat /\ w * Full \in Nat /\ claim.confidence \in 0 .. Full
    BY <2>1, BeliefAssumption, Product DEF ClaimType
  <2>3. b.alpha \in Nat /\ b.beta \in Nat /\ Mass(b) = Mass(relation[h]) + w * Full
    <3>1. seen[p].alpha \in Nat /\ seen[p].beta \in Nat
      BY <2>1 DEF Row
    <3>2. b \in Beliefs /\ Mass(b) = Mass(seen[p]) + w * Full
      BY <2>2, <3>1, EvidenceMass
    <3>3. QED
      BY <2>1, <3>2 DEF Beliefs
  <2>4. /\ relation'[h].alpha = b.alpha /\ relation'[h].beta = b.beta
        /\ \A r \in Ids \ {h} : relation'[r] = relation[r]
        /\ evidence' = [evidence EXCEPT ![h] = evidence[h] + w * Full]
    BY <1>1, <1>6, <2>1 DEF Corroborate, Row
  <2>5. /\ evidence[h] \in Nat /\ w * Full \in Nat /\ Prior \in Nat
        /\ Mass(relation[h]) = 2 * Prior + evidence[h]
    BY <1>1, <2>1, <2>2, BeliefAssumption DEF EvidenceConserved
  <2>6. evidence'[h] = evidence[h] + w * Full /\ Mass(relation'[h]) = Mass(b)
    BY <1>1, <2>1, <2>4 DEF Mass
  <2> HIDE DEF b, w, h, claim
  <2>7. Mass(relation'[h]) = 2 * Prior + evidence'[h]
    BY <2>3, <2>5, <2>6
  <2>8. Accounted(h)
    BY <1>1, <2>4, <2>7 DEF Used, Accounted
  <2>9. QED
    BY <2>1, <2>8
<1>7. CASE RecordFeedback(p)
  <2>1. /\ request[p] \in FeedbackType /\ h \in Ids /\ Used(h) /\ relation[h] \in Row
        /\ seen[p] = relation[h]
    BY <1>1, <1>7 DEF RecordFeedback, Remembers, Used, ReadsStayCurrent
  <2> DEFINE b == ApplyFeedback(seen[p], request[p].outcome, request[p].confidence)
             v == FeedbackWeight * Full
  <2>2. FeedbackWeight \in Nat /\ v \in Nat /\ request[p].confidence \in 0 .. Full
    BY <2>1, BeliefAssumption, Product DEF FeedbackType
  <2>3. b.alpha \in Nat /\ b.beta \in Nat /\ Mass(b) = Mass(relation[h]) + v
    <3>1. seen[p].alpha \in Nat /\ seen[p].beta \in Nat
      BY <2>1 DEF Row
    <3>2. b \in Beliefs /\ Mass(b) = Mass(seen[p]) + v
      BY <2>2, <3>1, EvidenceMass DEF ApplyFeedback
    <3>3. QED
      BY <2>1, <3>2 DEF Beliefs
  <2>4. /\ relation'[h].alpha = b.alpha /\ relation'[h].beta = b.beta
        /\ \A r \in Ids \ {h} : relation'[r] = relation[r]
        /\ evidence' = [evidence EXCEPT ![h] = evidence[h] + v]
    BY <1>1, <1>7, <2>1 DEF RecordFeedback, Row
  <2>5. /\ evidence[h] \in Nat /\ v \in Nat /\ Prior \in Nat
        /\ Mass(relation[h]) = 2 * Prior + evidence[h]
    BY <1>1, <2>1, <2>2, BeliefAssumption DEF EvidenceConserved
  <2>6. evidence'[h] = evidence[h] + v /\ Mass(relation'[h]) = Mass(b)
    BY <1>1, <2>1, <2>4 DEF Mass
  <2> HIDE DEF b, v, h
  <2>7. Mass(relation'[h]) = 2 * Prior + evidence'[h]
    BY <2>3, <2>5, <2>6
  <2>8. Accounted(h)
    BY <1>1, <2>4, <2>7 DEF Used, Accounted
  <2>9. QED
    BY <2>1, <2>8
<1>8. QED
  BY <1>2, <1>4, <1>5, <1>6, <1>7

LEMMA EvidenceInit == Init => EvidenceConserved
BY DEF Init, EvidenceConserved, Used

LEMMA EvidenceStep ==
  TypeOK /\ ReadsStayCurrent /\ EvidenceConserved /\ [Next]_vars => EvidenceConserved'
<1> SUFFICES ASSUME TypeOK, ReadsStayCurrent, EvidenceConserved, [Next]_vars
             PROVE  EvidenceConserved'
  OBVIOUS
<1>1. ASSUME NEW x \in Ids, Accounted(x) PROVE EvidenceConserved'
  BY <1>1 DEF Accounted, EvidenceConserved
<1>2. ASSUME UNCHANGED <<relation, evidence>> PROVE EvidenceConserved'
  BY <1>2 DEF EvidenceConserved, Used
<1>3. ASSUME NEW p \in Writers,
             BeginCreate(p) \/ BeginFeedback(p) \/ WriterStep(p) \/ WriterFails(p)
      PROVE  EvidenceConserved'
  <2>1. CASE CreateFirst(p) \/ Corroborate(p) \/ Contest(p) \/ Supersede(p) \/ RecordFeedback(p)
    BY <1>1, <2>1, WriteEffects
  <2>2. CASE \/ BeginCreate(p) \/ ScanActive(p) \/ LockPrevious(p) \/ SkipSuperseded(p)
             \/ BeginFeedback(p) \/ LockFeedback(p) \/ WriterFails(p) \/ DeadlockVictim(p)
    BY <1>2, <2>2 DEF BeginCreate, ScanActive, LockPrevious, SkipSuperseded, BeginFeedback,
                      LockFeedback, WriterFails, DeadlockVictim
  <2>3. QED
    BY <1>3, <2>1, <2>2 DEF WriterStep
<1>4. ASSUME NEW p \in Ruminators,
             (\E force \in BOOLEAN : BeginPass(p, force)) \/ PassStep(p) \/ PassFails(p)
      PROVE  EvidenceConserved'
  <2>1. CASE ResolveContest(p)
    <3>1. Remembers(p) /\ pc[p] = "resolve" /\ evidence' = evidence
      BY <2>1 DEF TypeOK, Procs, ResolveContest
    <3> DEFINE w == request[p].winner
               l == request[p].loser
    <3>2. /\ w \in Ids /\ l \in Ids /\ w # l /\ Used(w) /\ Used(l)
          /\ relation[w] \in Row /\ relation[l] \in Row
      BY <3>1 DEF Remembers, ExistingPairs, Pairs, Used, TypeOK
    <3>3. \A r \in Ids \ {w, l} : relation'[r] = relation[r]
      BY <2>1 DEF ResolveContest, TypeOK
    <3>4. /\ relation'[w].alpha = relation[w].alpha /\ relation'[w].beta = relation[w].beta
          /\ relation'[l].alpha = relation[l].alpha /\ relation'[l].beta = relation[l].beta
      BY <2>1, <3>2 DEF ResolveContest, TypeOK, Row
    <3> HIDE DEF w, l
    <3>5. \A r \in Ids : Used(r)' => Used(r) /\ Mass(relation'[r]) = Mass(relation[r])
      BY <3>2, <3>3, <3>4 DEF Used, Mass
    <3>6. QED
      BY <3>1, <3>5 DEF EvidenceConserved
  <2>2. CASE \/ \E force \in BOOLEAN : BeginPass(p, force)
             \/ ListContested(p) \/ LockWinner(p) \/ LockLoser(p) \/ RecordAudit(p)
             \/ FinishPass(p) \/ PassFails(p) \/ DeadlockVictim(p)
    BY <1>2, <2>2 DEF BeginPass, ListContested, LockWinner, LockLoser, RecordAudit, FinishPass,
                      PassFails, EndPass, DeadlockVictim, WriterFails
  <2>3. QED
    BY <1>4, <2>1, <2>2 DEF PassStep
<1>5. CASE Tick \/ UNCHANGED vars
  BY <1>2, <1>5 DEF Tick, vars
<1>6. QED
  BY <1>3, <1>4, <1>5 DEF Next

(* No evidence is lost or counted twice: a relation's belief is the prior  *)
(* plus every corroboration and every feedback committed for it, however   *)
(* create_relation, record_feedback and passes overlap, fail or deadlock.  *)
THEOREM NoEvidenceLost == Spec => []EvidenceConserved
BY TypeInit, TypeStep, ReadsInit, ReadsStep, EvidenceInit, EvidenceStep, PTL DEF Spec

=============================================================================
