--------------------------- MODULE MCRelationStore ---------------------------
(***************************************************************************)
(* Instances of RelationStore.  One belief unit is 1/20, a confidence is   *)
(* 0, 1/2 or 1, a tick of the clock one day: with the default settings an  *)
(* extracted event weighs 1.4, a distilled one 1.7 and a feedback 2.0, the *)
(* margin is 1/20 and retention is exp(-days/7) in percent.  The clock     *)
(* reads day 0 and 1, so only ages 0 and 1 are ever looked up.             *)
(***************************************************************************)
EXTENDS RelationStore, TLC

CONSTANTS k1, x, y

MCWeight == [extracted |-> 14, distilled |-> 17]

MCRetention == [age \in 0 .. 30 |-> IF age = 0 THEN 100 ELSE IF age = 1 THEN 87 ELSE 1]

OneInstant == {0}
OneDay == {0, 1}

Claim(k, o, c, d) == [key |-> k, object |-> o, confidence |-> c, derivation |-> d]

(* A distilled certainty, a weak restatement of it, and a rival of each.   *)
RivalClaims == {Claim(k1, x, 2, "distilled"), Claim(k1, y, 2, "extracted"), Claim(k1, y, 1, "extracted")}

(* A claim and a weaker one that it contests, close enough for a single    *)
(* contradiction of the first to turn the verdict of a pass.               *)
CloseClaims == {Claim(k1, x, 2, "extracted"), Claim(k1, y, 1, "extracted")}

FullReports == [outcome : {"confirmed", "contradicted"}, confidence : {2}]
Contradictions == [outcome : {"contradicted"}, confidence : {2}]

IdSymmetry == Permutations(Ids)

(* For runs of liveness, where symmetry is unsound: ids are numbers, and a *)
(* new row takes the least that is left.  Every insert has exactly one     *)
(* such choice, so no behaviour is lost but for the names of its rows.     *)
IdsInOrder == \A m, n \in Ids : m < n /\ relation'[n] # None => relation'[m] # None

=============================================================================
