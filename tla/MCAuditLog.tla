------------------------------ MODULE MCAuditLog ------------------------------
(***************************************************************************)
(* Instances of AuditLog: n1 and n2 hash to the same advisory lock, n3 has *)
(* one of its own.                                                         *)
(***************************************************************************)
EXTENDS AuditLog, TLC

CONSTANTS n1, n2, n3, s1, s2

MCSlot == (n1 :> s1) @@ (n2 :> s1) @@ (n3 :> s2)
TwoInstants == {0, 1}

=============================================================================
