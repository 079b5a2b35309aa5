---------------------------- MODULE MCPortability ----------------------------
(***************************************************************************)
(* Instance of Portability for TLC: the namespaces are alike, each may be  *)
(* the one in use, and so are the importers.                               *)
(***************************************************************************)
EXTENDS Portability, TLC

Symmetry == Permutations(Namespaces) \cup Permutations(Importers)

=============================================================================
