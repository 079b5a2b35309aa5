---------------------------- MODULE SkillRegister ----------------------------
(***************************************************************************)
(* What the procedural memory store promises (storage/                     *)
(* procedural_protocols.py), as the in-memory store of the unit tests does *)
(* it (storage/fakes/in_memory_procedural_repository.py): at most one      *)
(* version of a skill is current, a new one takes its place, replaced      *)
(* versions are kept as they were, and an outcome counts once, for the     *)
(* version that is current.                                                *)
(***************************************************************************)
EXTENDS Integers

CONSTANTS Names, Versions, None

VARIABLES
    current,   \* name |-> its current version
    past,      \* versions that were replaced
    applied,   \* version |-> outcomes reported for it
    success    \* version |-> how many of them were successes

Init ==
    /\ current = [n \in Names |-> None]
    /\ past = {}
    /\ applied = [v \in Versions |-> 0]
    /\ success = [v \in Versions |-> 0]

Publish(n, v) ==
    /\ v \notin past /\ \A m \in Names : current[m] # v
    /\ current' = [current EXCEPT ![n] = v]
    /\ past' = past \cup ({current[n]} \ {None})
    /\ UNCHANGED <<applied, success>>

Report(n, successes) ==
    /\ current[n] # None
    /\ applied' = [applied EXCEPT ![current[n]] = @ + 1]
    /\ success' = [success EXCEPT ![current[n]] = @ + successes]
    /\ UNCHANGED <<current, past>>

Next ==
    \E n \in Names :
        \/ \E v \in Versions : Publish(n, v)
        \/ \E s \in {0, 1} : Report(n, s)

Spec == Init /\ [][Next]_<<current, past, applied, success>>

=============================================================================
