--------------------------- MODULE MCTopologyView ---------------------------
(* Small instances of TopologyView for TLC.                                *)
EXTENDS TopologyView

CONSTANTS one, two

(* Two labs with a node name in common; the first loses a node when it is  *)
(* deployed again, the second gains one.                                   *)
MCShapes == [l \in Labs |-> [v \in 0 .. 1 |->
  CASE l = one /\ v = 0 -> [nodes |-> {1, 2}, links |-> {<<1, 2>>}]
    [] l = one /\ v = 1 -> [nodes |-> {2}, links |-> {}]
    [] l = two /\ v = 0 -> [nodes |-> {1}, links |-> {}]
    [] OTHER            -> [nodes |-> {1, 2}, links |-> {<<1, 2>>}]]]
=============================================================================
