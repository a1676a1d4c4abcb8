--------------------------- MODULE MCLabLifecycle ---------------------------
(* Small instances of LabLifecycle for TLC: a router n1 and a bridge n2,   *)
(* joined by one link.                                                     *)
EXTENDS LabLifecycle, TLC

CONSTANTS n1, n2

MCEnds == [k \in Links |-> <<n1, n2>>]

MCStageNodes ==
  [br0 |-> {n2}, sysctl |-> {n1}, routes |-> {n1}, netem |-> {n2},
   env |-> {n1}, exec |-> {n1}]

Symmetry == Permutations(Procs) \cup Permutations(Labs)
=============================================================================
