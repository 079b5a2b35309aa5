------------------------------- MODULE Belief -------------------------------
(***************************************************************************)
(* The Beta(alpha, beta) belief a relation carries: how evidence moves it  *)
(* (extraction/contradiction.py), how it decays with age                   *)
(* (retrieval/decay.py) and the two decisions taken from it, the one at    *)
(* ingest (resolve_contradiction) and the one of rumination                *)
(* (rumination/reconcile.py).                                              *)
(*                                                                         *)
(* The code computes with floats.  Here every quantity is a whole number   *)
(* of a unit chosen by the instance: Prior units are the 1.0 of the        *)
(* Beta(1, 1) prior, a confidence is 0 .. Full, one unit of confidence of  *)
(* a source weighs Weight[source] belief units                             *)
(* (reliability * prior_strength / Full).  Two confidences alpha / mass    *)
(* are compared by cross multiplication, so no comparison is rounded.      *)
(***************************************************************************)
EXTENDS Integers

CONSTANTS
    Prior,           \* belief units in 1.0
    Full,            \* confidence units in 1.0
    Weight,          \* source |-> belief units per unit of confidence
    FeedbackWeight,  \* the same for the feedback tool
    MarginNum,       \* bayesian_supersede_margin = MarginNum / MarginDen
    MarginDen,
    Scale,           \* retention units in 1.0
    MaxAge,          \* oldest age Retention is tabulated for
    Retention        \* age |-> retention units

(* The two `derivation` values of a relation. *)
Derivations == {"extracted", "distilled"}

ASSUME BeliefAssumption ==
    /\ Prior \in Nat \ {0}
    /\ Full \in Nat \ {0}
    /\ Weight \in [Derivations -> Nat]
    /\ FeedbackWeight \in Nat
    /\ MarginNum \in Nat
    /\ MarginDen \in Nat \ {0}
    /\ Scale \in Nat \ {0}
    /\ MaxAge \in Nat
    /\ Retention \in [0 .. MaxAge -> 0 .. Scale]

(* exp(-age/stability) never grows with age. *)
ASSUME RetentionAssumption ==
    \A s, t \in 0 .. MaxAge : s <= t => Retention[t] <= Retention[s]

Beliefs == [alpha : Nat, beta : Nat]

(* Beta(1, 1). *)
Uninformed == [alpha |-> Prior, beta |-> Prior]

Mass(b) == b.alpha + b.beta

-----------------------------------------------------------------------------

(* Mutant: refuting evidence is taken off alpha. *)
RetractEvidence(b, confidence, weight, supporting) ==
    LET for     == weight * confidence
        against == weight * (Full - confidence)
    IN  IF supporting
        THEN [alpha |-> b.alpha + for, beta |-> b.beta + against]
        ELSE [alpha |-> b.alpha - for, beta |-> b.beta - against]

(* apply_evidence: refuting evidence swaps the side the weight lands on. *)
ApplyEvidence(b, confidence, weight, supporting) ==
    LET for     == weight * confidence
        against == weight * (Full - confidence)
    IN  IF supporting
        THEN [alpha |-> b.alpha + for, beta |-> b.beta + against]
        ELSE [alpha |-> b.alpha + against, beta |-> b.beta + for]

(* The belief a new relation starts with: the prior plus this one event. *)
FreshBelief(claim) ==
    ApplyEvidence(Uninformed, claim.confidence, Weight[claim.derivation], TRUE)

(* apply_feedback. *)
ApplyFeedback(b, outcome, confidence) ==
    ApplyEvidence(b, confidence, FeedbackWeight, outcome = "confirmed")

(* One-way upgrade of the derivation of a corroborated relation. *)
UpgradedDerivation(old, new) == IF new = "distilled" THEN new ELSE old

(* confidence(x) * rx > confidence(y) * ry + margin, for retentions rx, ry. *)
Outweighs(x, rx, y, ry) ==
    x.alpha * rx * Mass(y) * MarginDen
      > y.alpha * ry * Mass(x) * MarginDen + MarginNum * Scale * Mass(x) * Mass(y)

(* resolve_contradiction for an active previous relation: which of its     *)
(* three remaining actions is taken.                                       *)
ResolveContradiction(previous, claim) ==
    IF previous.object = claim.object THEN "corroborate"
    ELSE IF Outweighs(previous, Scale, FreshBelief(claim), Scale) THEN "contest"
    ELSE "supersede"

-----------------------------------------------------------------------------

(* retention of a relation recorded at an instant, seen at another: a      *)
(* clock that ran backwards counts as no time elapsed.                     *)
RetentionAt(recorded, now) ==
    Retention[IF now < recorded THEN 0 ELSE now - recorded]

(* decide_reconciliation returns "resolve" with winner x and loser y.  The *)
(* rule does not look at which of the two is the older one.                *)
Prevails(x, y, now) ==
    Outweighs(x, RetentionAt(x.validFrom, now), y, RetentionAt(y.validFrom, now))

=============================================================================
