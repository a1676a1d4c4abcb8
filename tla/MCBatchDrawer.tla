---------------------------- MODULE MCBatchDrawer ----------------------------
(* Small instances of BatchDrawer for TLC.                                 *)
EXTENDS BatchDrawer

CONSTANTS one, two

(* Two labs that share the name h1.                                        *)
MCNodes == [l \in Labs |-> IF l = one THEN {"h1", "r1"} ELSE {"h1"}]

(* "h[" is text that occurs nowhere, and no regular expression.            *)
MCMatching == [q \in Texts |-> [re \in BOOLEAN |->
  CASE q = "h[" -> IF re THEN Invalid ELSE {}
    [] OTHER    -> {"h1"}]]
=============================================================================
