---------------------------- MODULE AppendOnlyLog ----------------------------
(***************************************************************************)
(* What the audit log promises (ADR 0025), as the log of the unit tests    *)
(* does it (storage/fakes/in_memory_audit_repository.py): one sequence of  *)
(* events per namespace, which changes only by one event being appended to *)
(* one of them.                                                            *)
(***************************************************************************)
EXTENDS Sequences

CONSTANTS Namespaces, Events

VARIABLE log    \* namespace |-> the events recorded for it

Init == log = [ns \in Namespaces |-> <<>>]

Record(ns, event) == log' = [log EXCEPT ![ns] = Append(@, event)]

Next == \E ns \in Namespaces, event \in Events : Record(ns, event)

Spec == Init /\ [][Next]_log

=============================================================================
