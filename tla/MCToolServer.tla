---------------------------- MODULE MCToolServer -----------------------------
(* Two commands of the operator, so two identities, or one that is rotated *)
(* or revoked; two calls that overlap each other, and one fault or restart.*)
(* There is a memory already, and room for another.                        *)
EXTENDS ToolServer, TLC

CONSTANTS na, nb, c1, c2, m1

OneMemory == [m \in {m1} |-> [ns |-> na, forgotten |-> FALSE]]

(* A writer, a writer whose token expires, and a reader of the first's     *)
(* namespace.                                                              *)
SomeProfiles ==
    {[namespaces |-> {na}, scope |-> "readwrite", lifetime |-> Never],
     [namespaces |-> {nb}, scope |-> "readwrite", lifetime |-> 1],
     [namespaces |-> {na}, scope |-> "read", lifetime |-> Never]}

(* One call may name any tool, the other one that names a memory or one   *)
(* that names a namespace.                                                 *)
AnyTool ==
    [c \in Calls |-> IF c = c1 THEN ReadTools \cup WriteTools
                     ELSE {"update", "forget", "ingest_session"}]

(* Names and tokens are interchangeable: they are only compared, and every *)
(* invariant treats them alike.                                            *)
Symmetric == Permutations(Names) \cup Permutations(Tokens)

=============================================================================
