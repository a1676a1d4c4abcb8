--------------------------- MODULE MCCaptureTasks ---------------------------
(* Small instances of CaptureTasks for TLC.                                *)
EXTENDS CaptureTasks, TLC

Symmetry == Permutations(Requests) \cup Permutations(Nodes)
=============================================================================
