--------------------------- MODULE MCConsolidation ---------------------------
(* Consolidation on small instances. *)
EXTENDS Consolidation

CONSTANTS p1, p2

(* Two processes overlap over two episodes, one of which may be forgotten; *)
(* or one process works off a backlog of two batches, and dies twice.      *)
MCBounds ==
    {[arriving |-> {1, 2}, forgettable |-> {2}, passes |-> {p1, p2},
      runs |-> 3, ticks |-> 1, forced |-> 1, faults |-> 1],
     [arriving |-> 1 .. 4, forgettable |-> {3}, passes |-> {p1},
      runs |-> 6, ticks |-> 0, forced |-> 0, faults |-> 2]}

(* One pass over three episodes. *)
OnePass ==
    {[arriving |-> 1 .. 3, forgettable |-> {}, passes |-> {p1},
      runs |-> 2, ticks |-> 0, forced |-> 0, faults |-> 0]}

MCSession == [e \in Episodes |-> <<"s1", "s2", "s3", "s3">>[e]]
MCOutcome == [e \in Episodes |-> <<"success", "failure", Null, Null>>[e]]

(* A session that succeeded and later failed, and another that succeeded.  *)
MixedSession == [e \in Episodes |-> <<"s1", "s2", "s1">>[e]]
MixedOutcome == [e \in Episodes |-> <<"success", "success", "failure">>[e]]
MCAlike == {{"s1", "s2"}}
MCGraphs == {{{1, 2}, {2, 3}, {3, 4}}}
ThreeGraphs == {{{1, 2}}}
ThreeEpisodes == 1 .. 3
FourEpisodes == 1 .. 4

=============================================================================
