-------------------------- MODULE BatchDrawerProofs --------------------------
(***************************************************************************)
(* Safety of BatchDrawer for any labs, filters and number of requests.     *)
(***************************************************************************)
EXTENDS BatchDrawer, FiniteSetTheorems, TLAPS

(* A change of the selection brings every mark up to date,                 *)
LEMMA ReselectShows ==
  ASSUME NEW ns, Reselect(ns)
  PROVE  MarksFollowSelection'
BY DEF Reselect, MarksFollowSelection, HighlightSelection, RenderNodes, RenderBatchSelectionSummary

(* also that to what the filter matches, if it is valid.                   *)
LEMMA SelectMatchedShows ==
  ASSUME MarksFollowSelection, NEW base, SelectMatched(base)
  PROVE  MarksFollowSelection'
<1> DEFINE found == Matched(topology, text, regex)
<1>1. CASE found = Invalid
  BY <1>1 DEF SelectMatched, MarksFollowSelection, marks
<1>2. CASE found # Invalid
  BY <1>2, ReselectShows DEF SelectMatched
<1> QED
  BY <1>1, <1>2

(* What is marked is what Run would send: inductive as it stands, since    *)
(* every redrawing looks at the selection of that moment.                  *)
LEMMA MarksNext == MarksFollowSelection /\ [Next]_vars => MarksFollowSelection'
<1> SUFFICES ASSUME MarksFollowSelection, [Next]_vars PROVE MarksFollowSelection'
  OBVIOUS
<1> USE DEF MarksFollowSelection, HighlightSelection, RenderNodes, RenderBatchSelectionSummary,
            labView, marks, drawer
<1>1. ASSUME NEW n \in Names, ToggleNode(n) PROVE MarksFollowSelection'
  BY <1>1 DEF ToggleNode, Reselect, Act
<1>2. CASE Clear
  BY <1>2 DEF Clear, Reselect, Act
<1>3. CASE AddMatched
  <2> HIDE DEF MarksFollowSelection
  <2> QED
    BY <1>3, SelectMatchedShows DEF AddMatched
<1>4. CASE OnlyMatched
  <2> HIDE DEF MarksFollowSelection
  <2> QED
    BY <1>4, SelectMatchedShows DEF OnlyMatched
<1>5. ASSUME NEW q \in Texts, NEW re \in BOOLEAN, TypeFilter(q, re) PROVE MarksFollowSelection'
  BY <1>5 DEF TypeFilter, Act
<1>6. CASE OpenDrawer
  BY <1>6 DEF OpenDrawer, Act
<1>7. CASE CloseDrawer
  BY <1>7 DEF CloseDrawer, Act
<1>8. ASSUME NEW l \in Labs, SelectLab(l) PROVE MarksFollowSelection'
  BY <1>8 DEF SelectLab, Act
<1>9. CASE Run
  BY <1>9 DEF Run, Post, Request, Free, Act
<1>10. CASE Stop
  BY <1>10 DEF Stop, Post, Request, Free, Act
<1>11. CASE List
  BY <1>11 DEF List, Post, Request, Free, Act
<1>12. ASSUME NEW t \in {"exec", "export"}, SetBatchTab(t) PROVE MarksFollowSelection'
  BY <1>12 DEF SetBatchTab, Act
<1>13. ASSUME NEW sc \in {"selected", "all"}, NEW ks \in SUBSET Kinds, ChooseExport(sc, ks)
             PROVE MarksFollowSelection'
  BY <1>13 DEF ChooseExport, Act
<1>14. ASSUME NEW l \in Labs, TakeTopology(l) PROVE MarksFollowSelection'
  BY <1>14 DEF TakeTopology
<1>15. ASSUME NEW l \in Labs, NEW skip \in BOOLEAN, DrawTopology(l, skip) PROVE MarksFollowSelection'
  BY <1>15 DEF DrawTopology
<1>16. ASSUME NEW s \in Slots, Arrive(s) PROVE MarksFollowSelection'
  BY <1>16 DEF Arrive, Follows, Request
<1>17. ASSUME NEW s \in Slots, Refuse(s) PROVE MarksFollowSelection'
  BY <1>17 DEF Refuse
<1>18. ASSUME NEW s \in Slots, ServeStart(s) PROVE MarksFollowSelection'
  BY <1>18 DEF ServeStart, Disturb
<1>19. ASSUME NEW s \in Slots, ServeStop(s) PROVE MarksFollowSelection'
  BY <1>19 DEF ServeStop, Disturb
<1>20. ASSUME NEW s \in Slots, ServeList(s) PROVE MarksFollowSelection'
  BY <1>20 DEF ServeList
<1>21. ASSUME NEW s \in Slots, ServeOther(s) PROVE MarksFollowSelection'
  BY <1>21 DEF ServeOther
<1>22. ASSUME NEW l \in Labs, NEW n \in Names, EndCapture(l, n) PROVE MarksFollowSelection'
  BY <1>22 DEF EndCapture, Disturb
<1>23. CASE UNCHANGED vars
  BY <1>23 DEF vars
<1> QED
  BY <1>1, <1>2, <1>3, <1>4, <1>5, <1>6, <1>7, <1>8, <1>9, <1>10, <1>11, <1>12,
     <1>13, <1>14, <1>15, <1>16, <1>17, <1>18, <1>19, <1>20, <1>21, <1>22, <1>23
  DEF Next, User

LEMMA MarksInit == Init => MarksFollowSelection
<1> SUFFICES ASSUME Init PROVE MarksFollowSelection
  OBVIOUS
<1>1. selected = {} /\ count = 0 /\ enabled = FALSE /\ cy.marked = {} /\ rows.marked = {}
  BY DEF Init, Nothing
<1>2. Cardinality({}) = 0
  BY FS_EmptySet
<1> QED
  BY <1>1, <1>2 DEF MarksFollowSelection

(* MarksFollowSelection, for any labs and any order of events.             *)
THEOREM SelectionIsShown == Spec => []MarksFollowSelection
BY MarksInit, MarksNext, PTL DEF Spec

-----------------------------------------------------------------------------
(* Types.                                                                  *)

LEMMA NamesFinite == IsFiniteSet(Names)
<1> DEFINE f == [l \in Labs |-> Nodes[l]]
           All == {Nodes[l] : l \in Labs}
<1>1. f \in Surjection(Labs, All)
  BY DEF Surjection
<1>2. IsFiniteSet(All)
  BY <1>1, FS_Surjection, DrawerConstantsOK
<1> QED
  BY <1>2, FS_UNION, DrawerConstantsOK DEF Names

LEMMA NodesAreNames == ASSUME NEW l \in Labs PROVE Nodes[l] \subseteq Names
  BY DEF Names

LEMMA SizesOK == ASSUME NEW ns \in SUBSET Names PROVE Cardinality(ns) \in Nat
  BY NamesFinite, FS_Subset, FS_CardinalityType

LEMMA MatchedOK ==
  ASSUME NEW names \in SUBSET Names, NEW q, NEW re, Matched(names, q, re) # Invalid
  PROVE  Matched(names, q, re) \in SUBSET Names
BY DEF Matched

(* What the line of the filter shows.                                      *)
LEMMA StatOK ==
  ASSUME NEW names \in SUBSET Names, NEW q, NEW re, RenderBatchFilterStat(names, q, re)
  PROVE  stat' \in [found : Nat, all : Nat] \cup {Invalid}
<1> DEFINE found == Matched(names, q, re)
<1>1. CASE found = Invalid
  BY <1>1 DEF RenderBatchFilterStat
<1>2. CASE found # Invalid
  <2>1. Cardinality(found) \in Nat /\ Cardinality(names) \in Nat
    BY <1>2, MatchedOK, SizesOK
  <2> QED
    BY <1>2, <2>1 DEF RenderBatchFilterStat
<1> QED
  BY <1>1, <1>2

LEMMA ActOK == ASSUME TypeOK, Act PROVE acts' \in 0 .. MaxActs
<1>1. MaxActs \in Nat /\ acts \in 0 .. MaxActs
  BY DrawerConstantsOK DEF TypeOK
<1>2. acts < MaxActs /\ acts' = acts + 1
  BY DEF Act
<1> QED
  BY <1>1, <1>2

(* A new selection, and what is drawn of it.                               *)
LEMMA ReselectOK ==
  ASSUME TypeOK, NEW ns \in SUBSET Names, Reselect(ns)
  PROVE  /\ selected' \in SUBSET Names /\ cy' \in Marked /\ rows' \in Marked
         /\ count' \in Nat /\ enabled' \in BOOLEAN
BY SizesOK DEF TypeOK, Reselect, HighlightSelection, RenderNodes, RenderBatchSelectionSummary, Marked

LEMMA SelectMatchedOK ==
  ASSUME TypeOK, NEW base \in SUBSET Names, SelectMatched(base)
  PROVE  TypeOK'
<1> DEFINE found == Matched(topology, text, regex)
<1>1. stat' \in [found : Nat, all : Nat] \cup {Invalid}
  BY StatOK DEF SelectMatched, TypeOK
<1>2. /\ selected' \in SUBSET Names /\ cy' \in Marked /\ rows' \in Marked
      /\ count' \in Nat /\ enabled' \in BOOLEAN
  <2>1. CASE found = Invalid
    BY <2>1 DEF SelectMatched, TypeOK, marks
  <2>2. CASE found # Invalid
    <3>1. base \cup found \in SUBSET Names
      BY <2>2, MatchedOK DEF TypeOK
    <3> QED
      BY <2>2, <3>1, ReselectOK DEF SelectMatched
  <2> QED
    BY <2>1, <2>2
<1> QED
  BY <1>1, <1>2, DrawerConstantsOK, ActOK DEF SelectMatched, TypeOK, labView, drawer

(* A request made now has the type of a request.                           *)
LEMMA RequestOK ==
  ASSUME TypeOK, NEW op \in Operations, NEW ns \in SUBSET Names,
         NEW origin \in {"click", "start", "stop"}, NEW intact \in SUBSET Names
  PROVE  Request(op, ns, origin, intact) \in Calls
BY DEF Request, Calls, TypeOK

LEMMA PostOK ==
  ASSUME TypeOK, NEW op \in Operations, NEW ns \in SUBSET Names, NEW ok \in BOOLEAN, Post(op, ns, ok)
  PROVE  calls' \in [Slots -> Calls \cup {NoCall}] /\ pane' \in Panes
<1>1. Request(op, ns, "click", ns) \in Calls
  BY RequestOK
<1> QED
  BY <1>1 DEF Post, Free, TypeOK, Panes

LEMMA DisturbOK ==
  ASSUME TypeOK, NEW s, NEW l, NEW ns
  PROVE  /\ Disturb(s, l, ns) \in [Slots -> Calls \cup {NoCall}]
         /\ s \in Slots => Disturb(s, l, ns)[s] = calls[s]
BY DEF TypeOK, Disturb, Calls

LEMMA TypeNext == TypeOK /\ [Next]_vars => TypeOK'
<1> SUFFICES ASSUME TypeOK, [Next]_vars PROVE TypeOK'
  OBVIOUS
<1> USE DrawerConstantsOK DEF TypeOK, labView, marks, drawer
<1>1. ASSUME NEW n \in Names, ToggleNode(n) PROVE TypeOK'
  <2>1. (IF n \in selected THEN selected \ {n} ELSE selected \cup {n}) \in SUBSET Names
    OBVIOUS
  <2> QED
    BY <1>1, <2>1, ReselectOK, ActOK DEF ToggleNode
<1>2. CASE Clear
  <2> QED
    BY <1>2, ReselectOK, ActOK DEF Clear
<1>3. CASE AddMatched
  <2> HIDE DEF TypeOK
  <2>1. selected \in SUBSET Names
    BY DEF TypeOK
  <2> QED
    BY <1>3, <2>1, SelectMatchedOK DEF AddMatched
<1>4. CASE OnlyMatched
  <2> HIDE DEF TypeOK
  <2> QED
    BY <1>4, SelectMatchedOK DEF OnlyMatched
<1>5. ASSUME NEW q \in Texts, NEW re \in BOOLEAN, TypeFilter(q, re) PROVE TypeOK'
  <2> QED
    BY <1>5, StatOK, ActOK DEF TypeFilter
<1>6. CASE OpenDrawer
  <2> QED
    BY <1>6, StatOK, SizesOK, ActOK DEF OpenDrawer, RenderBatchSelectionSummary
<1>7. CASE CloseDrawer
  BY <1>7, ActOK DEF CloseDrawer
<1>8. ASSUME NEW l \in Labs, SelectLab(l) PROVE TypeOK'
  BY <1>8, ActOK DEF SelectLab
<1>9. CASE Run
  <2>1. calls' \in [Slots -> Calls \cup {NoCall}] /\ pane' \in Panes
    <3> HIDE DEF TypeOK
    <3>1. ASSUME NEW command \in BOOLEAN, Post("exec", selected, selected # {} /\ command)
          PROVE  calls' \in [Slots -> Calls \cup {NoCall}] /\ pane' \in Panes
      BY <3>1, PostOK DEF TypeOK, Operations
    <3>2. CASE Post("start", selected, selected # {})
      BY <3>2, PostOK DEF TypeOK, Operations
    <3>3. CASE Post("export", IF scope = "all" THEN {} ELSE selected, TRUE)
      <4>1. (IF scope = "all" THEN {} ELSE selected) \in SUBSET Names
        BY DEF TypeOK
      <4> QED
        BY <3>3, <4>1, PostOK DEF Operations
    <3>4. CASE pane' = [shows |-> "error"] /\ UNCHANGED calls
      BY <3>4 DEF TypeOK, Panes
    <3> QED
      BY <1>9, <3>1, <3>2, <3>3, <3>4 DEF Run
  <2> QED
    BY <1>9, <2>1, ActOK DEF Run
<1>10. CASE Stop
  <2>1. calls' \in [Slots -> Calls \cup {NoCall}] /\ pane' \in Panes
    BY <1>10, PostOK DEF Stop, Operations
  <2> QED
    BY <1>10, <2>1, ActOK DEF Stop
<1>11. CASE List
  <2>1. calls' \in [Slots -> Calls \cup {NoCall}] /\ pane' \in Panes
    BY <1>11, PostOK DEF List, Operations
  <2> QED
    BY <1>11, <2>1, ActOK DEF List
<1>12. ASSUME NEW t \in {"exec", "export"}, SetBatchTab(t) PROVE TypeOK'
  BY <1>12, ActOK DEF SetBatchTab
<1>13. ASSUME NEW sc \in {"selected", "all"}, NEW ks \in SUBSET Kinds, ChooseExport(sc, ks)
             PROVE TypeOK'
  BY <1>13, ActOK DEF ChooseExport
<1>14. ASSUME NEW l \in Labs, TakeTopology(l) PROVE TypeOK'
  <2> QED
    BY <1>14, NodesAreNames DEF TakeTopology
<1>15. ASSUME NEW l \in Labs, NEW skip \in BOOLEAN, DrawTopology(l, skip) PROVE TypeOK'
  <2>1. Nodes[l] \in SUBSET Names
    BY NodesAreNames
  <2>2. stat' \in [found : Nat, all : Nat] \cup {Invalid}
    BY <1>15, <2>1, StatOK DEF DrawTopology
  <2>3. cy' \in Marked
    <3> DEFINE drawn == [names |-> Nodes[l], marked |-> Nodes[l] \cap selected]
    <3>1. cy' = cy \/ cy' = drawn
      BY <1>15, Zenon DEF DrawTopology, HighlightSelection
    <3>2. drawn \in Marked
      BY <2>1 DEF Marked
    <3> QED
      BY <3>1, <3>2
  <2>4. rows' \in Marked
    BY <1>15, <2>1 DEF DrawTopology, RenderNodes, Marked
  <2> QED
    BY <1>15, <2>1, <2>2, <2>3, <2>4 DEF DrawTopology
<1>16. ASSUME NEW s \in Slots, Arrive(s) PROVE TypeOK'
  <2> DEFINE c == calls[s]
  <2>1. c \in Calls
    BY <1>16 DEF Arrive
  <2>2. calls' \in [Slots -> Calls \cup {NoCall}]
    <3>1. CASE Follows(c)
      <4>1. c.op \in {"click", "start", "stop"} /\ "list" \in Operations
        BY <3>1 DEF Follows, Operations
      <4>2. (IF c.lab = lab THEN c.intact ELSE {}) \in SUBSET Names
        BY <2>1 DEF Calls
      <4>3. Request("list", {}, c.op, IF c.lab = lab THEN c.intact ELSE {}) \in Calls
        BY <4>1, <4>2, RequestOK
      <4> QED
        BY <1>16, <3>1, <4>3 DEF Arrive
    <3>2. CASE ~Follows(c)
      BY <1>16, <3>2 DEF Arrive
    <3> QED
      BY <3>1, <3>2
  <2>3. pane' \in Panes
    <3>1. [shows |-> "answer", call |-> c] \in Panes
      BY <2>1 DEF Panes
    <3>2. [shows |-> "progress"] \in Panes /\ [shows |-> "error"] \in Panes
      BY DEF Panes
    <3>3. \/ pane' = [shows |-> "progress"] \/ pane' = [shows |-> "error"]
          \/ pane' = [shows |-> "answer", call |-> c]
      BY <1>16 DEF Arrive
    <3> QED
      BY <3>1, <3>2, <3>3
  <2>4. count' \in Nat /\ enabled' \in BOOLEAN
    BY <1>16, SizesOK DEF Arrive, RenderBatchSelectionSummary
  <2> QED
    BY <1>16, <2>2, <2>3, <2>4 DEF Arrive
<1>17. ASSUME NEW s \in Slots, Refuse(s) PROVE TypeOK'
  <2>1. calls[s] \in Calls
    BY <1>17 DEF Refuse
  <2>2. calls' \in [Slots -> Calls \cup {NoCall}]
    BY <1>17, <2>1 DEF Refuse, Calls
  <2> QED
    BY <1>17, <2>2 DEF Refuse
<1>18. ASSUME NEW s \in Slots, ServeStart(s) PROVE TypeOK'
  <2>1. calls[s] \in Calls
    BY <1>18 DEF ServeStart
  <2>2. PICK ns \in SUBSET calls[s].nodes :
          /\ running' = running \cup Pairs(calls[s].lab, ns)
          /\ calls' = [Disturb(s, calls[s].lab, ns) EXCEPT
                ![s].step = "served", ![s].intact = {n \in @ : <<calls[s].lab, n>> \in running'}]
    BY <1>18 DEF ServeStart
  <2>3. Pairs(calls[s].lab, ns) \subseteq Labs \X Names
    BY <2>1 DEF Pairs, Calls
  <2>4. calls' \in [Slots -> Calls \cup {NoCall}]
    <3>1. Disturb(s, calls[s].lab, ns) \in [Slots -> Calls \cup {NoCall}]
          /\ Disturb(s, calls[s].lab, ns)[s] \in Calls
      BY <2>1, DisturbOK
    <3> QED
      BY <2>2, <3>1 DEF Calls
  <2> QED
    BY <1>18, <2>2, <2>3, <2>4 DEF ServeStart
<1>19. ASSUME NEW s \in Slots, ServeStop(s) PROVE TypeOK'
  <2>1. calls[s] \in Calls
    BY <1>19 DEF ServeStop
  <2>2. Pairs(calls[s].lab, calls[s].nodes) \subseteq Labs \X Names
    BY <2>1 DEF Pairs, Calls
  <2>3. calls' \in [Slots -> Calls \cup {NoCall}]
    <3>1. Disturb(s, calls[s].lab, calls[s].nodes) \in [Slots -> Calls \cup {NoCall}]
          /\ Disturb(s, calls[s].lab, calls[s].nodes)[s] \in Calls
      BY <2>1, DisturbOK
    <3> QED
      BY <1>19, <3>1 DEF ServeStop, Calls
  <2> QED
    BY <1>19, <2>2, <2>3 DEF ServeStop
<1>20. ASSUME NEW s \in Slots, ServeList(s) PROVE TypeOK'
  <2>1. calls[s] \in Calls
    BY <1>20 DEF ServeList
  <2>2. calls' \in [Slots -> Calls \cup {NoCall}]
    BY <1>20, <2>1 DEF ServeList, Calls
  <2> QED
    BY <1>20, <2>2 DEF ServeList
<1>21. ASSUME NEW s \in Slots, ServeOther(s) PROVE TypeOK'
  <2>1. calls[s] \in Calls
    BY <1>21 DEF ServeOther
  <2>2. calls' \in [Slots -> Calls \cup {NoCall}]
    BY <1>21, <2>1 DEF ServeOther, Calls
  <2>3. Pairs(calls[s].lab, calls[s].nodes) \subseteq Labs \X Names
    BY <2>1 DEF Pairs, Calls
  <2> QED
    BY <1>21, <2>2, <2>3 DEF ServeOther
<1>22. ASSUME NEW l \in Labs, NEW n \in Names, EndCapture(l, n) PROVE TypeOK'
  <2> QED
    BY <1>22, DisturbOK DEF EndCapture
<1>23. CASE UNCHANGED vars
  BY <1>23 DEF vars
<1> QED
  BY <1>1, <1>2, <1>3, <1>4, <1>5, <1>6, <1>7, <1>8, <1>9, <1>10, <1>11, <1>12,
     <1>13, <1>14, <1>15, <1>16, <1>17, <1>18, <1>19, <1>20, <1>21, <1>22, <1>23
  DEF Next, User

LEMMA TypeInit == Init => TypeOK
<1> SUFFICES ASSUME Init PROVE TypeOK
  OBVIOUS
<1>1. Nothing \in Marked
  BY Zenon DEF Nothing, Marked
<1>5. [shows |-> "none"] \in Panes
  BY DEF Panes
<1>2. acts \in 0 .. MaxActs
  <2>1. MaxActs \in Nat
    BY DrawerConstantsOK
  <2>2. acts = 0
    BY DEF Init
  <2> QED
    BY <2>1, <2>2
<1>3. stat \in [found : Nat, all : Nat]
  BY DEF Init
<1>4. calls \in [Slots -> Calls \cup {NoCall}]
  BY DEF Init
<1> QED
  BY <1>1, <1>5, <1>2, <1>3, <1>4, DrawerConstantsOK DEF Init, TypeOK

(* TypeOK; in particular every count is that of a finite set.              *)
THEOREM TypeCorrect == Spec => []TypeOK
  BY TypeInit, TypeNext, PTL DEF Spec

-----------------------------------------------------------------------------
(* Progress texts.                                                         *)

ProgressInv == TypeOK /\ ProgressEnds

(* What was in flight stays so, and an end replaces the text.              *)
LEMMA BusyKept ==
  ASSUME ProgressEnds, UNCHANGED pane, \A s \in Slots : calls[s] # NoCall => calls'[s] # NoCall
  PROVE  ProgressEnds'
BY DEF ProgressEnds

LEMMA PostedIsBusy ==
  ASSUME TypeOK, ProgressEnds, NEW op, NEW ns, NEW ok, Post(op, ns, ok), op # "none"
  PROVE  ProgressEnds'
<1>1. CASE ok
  <2>1. PICK s \in Free : calls' = [calls EXCEPT ![s] = Request(op, ns, "click", ns)]
    BY <1>1 DEF Post
  <2>2. s \in Slots /\ calls'[s] = Request(op, ns, "click", ns)
    BY <2>1 DEF Free, TypeOK
  <2>3. Request(op, ns, "click", ns).op = op /\ NoCall.op = "none"
    BY DEF Request, NoCall
  <2> QED
    BY <2>2, <2>3 DEF ProgressEnds
<1>2. CASE ~ok
  BY <1>2 DEF Post, ProgressEnds
<1> QED
  BY <1>1, <1>2

(* The slot of a request is not mistaken for an empty one.                 *)
LEMMA CallsDiffer == ASSUME NEW c \in Calls PROVE c # NoCall /\ c.op # "none"
  BY DEF Calls, NoCall, Operations

LEMMA OpsKept ==
  ASSUME TypeOK, NEW s, NEW l, NEW ns, NEW r \in Slots
  PROVE  Disturb(s, l, ns)[r].op = calls[r].op
<1>1. CASE calls[r] = NoCall
  BY <1>1 DEF Disturb
<1>2. CASE calls[r] \in Calls
  BY <1>2 DEF Disturb, Calls
<1> QED
  BY <1>1, <1>2 DEF TypeOK

LEMMA ProgressNext == ProgressInv /\ [Next]_vars => ProgressInv'
<1> SUFFICES ASSUME TypeOK, ProgressEnds, [Next]_vars PROVE ProgressEnds'
  BY TypeNext DEF ProgressInv
<1> USE DEF labView, marks, drawer
<1>1. ASSUME NEW n \in Names, ToggleNode(n) PROVE ProgressEnds'
  <2> QED
    BY <1>1, BusyKept DEF ToggleNode, Act
<1>2. CASE Clear
  <2> QED
    BY <1>2, BusyKept DEF Clear, Act
<1>3. CASE AddMatched
  <2> QED
    BY <1>3, BusyKept DEF AddMatched, SelectMatched, Act
<1>4. CASE OnlyMatched
  <2> QED
    BY <1>4, BusyKept DEF OnlyMatched, SelectMatched, Act
<1>5. ASSUME NEW q \in Texts, NEW re \in BOOLEAN, TypeFilter(q, re) PROVE ProgressEnds'
  <2> QED
    BY <1>5, BusyKept DEF TypeFilter, Act
<1>6. CASE OpenDrawer
  <2> QED
    BY <1>6, BusyKept DEF OpenDrawer, Act
<1>7. CASE CloseDrawer
  <2> QED
    BY <1>7, BusyKept DEF CloseDrawer, Act
<1>8. ASSUME NEW l \in Labs, SelectLab(l) PROVE ProgressEnds'
  <2> QED
    BY <1>8, BusyKept DEF SelectLab, Act
<1>9. CASE Run
  <2>1. CASE pane' = [shows |-> "error"]
    BY <2>1 DEF ProgressEnds
  <2>2. CASE pane' # [shows |-> "error"]
    BY <1>9, <2>2, PostedIsBusy DEF Run
  <2> QED
    BY <2>1, <2>2
<1>10. CASE Stop
  <2> QED
    BY <1>10, PostedIsBusy DEF Stop
<1>11. CASE List
  <2> QED
    BY <1>11, PostedIsBusy DEF List
<1>12. ASSUME NEW t \in {"exec", "export"}, SetBatchTab(t) PROVE ProgressEnds'
  <2> QED
    BY <1>12, BusyKept DEF SetBatchTab, Act
<1>13. ASSUME NEW sc \in {"selected", "all"}, NEW ks \in SUBSET Kinds, ChooseExport(sc, ks)
             PROVE ProgressEnds'
  <2> QED
    BY <1>13, BusyKept DEF ChooseExport, Act
<1>14. ASSUME NEW l \in Labs, TakeTopology(l) PROVE ProgressEnds'
  <2> QED
    BY <1>14, BusyKept DEF TakeTopology
<1>15. ASSUME NEW l \in Labs, NEW skip \in BOOLEAN, DrawTopology(l, skip) PROVE ProgressEnds'
  <2> QED
    BY <1>15, BusyKept DEF DrawTopology
<1>16. ASSUME NEW s \in Slots, Arrive(s) PROVE ProgressEnds'
  <2>1. CASE Follows(calls[s])
    <3>1. calls'[s] = Request("list", {}, calls[s].op,
                              IF calls[s].lab = lab THEN calls[s].intact ELSE {})
      BY <1>16, <2>1 DEF Arrive, TypeOK
    <3>2. calls'[s].op = "list" /\ NoCall.op = "none"
      BY <3>1 DEF Request, NoCall
    <3> QED
      BY <3>2 DEF ProgressEnds
  <2>2. CASE ~Follows(calls[s])
    <3>1. pane' = [shows |-> "error"] \/ pane' = [shows |-> "answer", call |-> calls[s]]
      BY <1>16, <2>2 DEF Arrive
    <3>2. pane'.shows # "progress"
      BY <3>1
    <3> QED
      BY <3>2 DEF ProgressEnds
  <2> QED
    BY <2>1, <2>2
<1>17. ASSUME NEW s \in Slots, Refuse(s) PROVE ProgressEnds'
  <2>1. calls[s] \in Calls
    BY <1>17 DEF Refuse, TypeOK
  <2>2. calls'[s].op = calls[s].op /\ \A r \in Slots : r # s => calls'[r] = calls[r]
    BY <1>17, <2>1 DEF Refuse, TypeOK, Calls
  <2>3. calls'[s] # NoCall
    BY <2>1, <2>2, CallsDiffer DEF NoCall
  <2>4. UNCHANGED pane
    BY <1>17 DEF Refuse
  <2> QED
    BY <2>2, <2>3, <2>4, BusyKept
<1>18. ASSUME NEW s \in Slots, ServeStart(s) PROVE ProgressEnds'
  <2>0. PICK ns \in SUBSET calls[s].nodes :
          calls' = [Disturb(s, calls[s].lab, ns) EXCEPT
                ![s].step = "served", ![s].intact = {n \in @ : <<calls[s].lab, n>> \in running'}]
    BY <1>18 DEF ServeStart
  <2> DEFINE D == Disturb(s, calls[s].lab, ns)
  <2>1. calls[s] \in Calls /\ D[s] = calls[s] /\ D \in [Slots -> Calls \cup {NoCall}]
    BY <1>18, DisturbOK DEF ServeStart, TypeOK
  <2>2. \A r \in Slots : calls[r] # NoCall => D[r] # NoCall
    BY <2>1, OpsKept, CallsDiffer DEF TypeOK, NoCall
  <2>3. calls'[s].op = calls[s].op /\ \A r \in Slots : r # s => calls'[r] = D[r]
    BY <1>18, <2>0, <2>1 DEF ServeStart, Calls
  <2> QED
    BY <1>18, <2>1, <2>2, <2>3, CallsDiffer, BusyKept DEF ServeStart, NoCall
<1>19. ASSUME NEW s \in Slots, ServeStop(s) PROVE ProgressEnds'
  <2> DEFINE D == Disturb(s, calls[s].lab, calls[s].nodes)
  <2>1. calls[s] \in Calls /\ D[s] = calls[s] /\ D \in [Slots -> Calls \cup {NoCall}]
    BY <1>19, DisturbOK DEF ServeStop, TypeOK
  <2>2. \A r \in Slots : calls[r] # NoCall => D[r] # NoCall
    BY <2>1, OpsKept, CallsDiffer DEF TypeOK, NoCall
  <2>3. calls'[s].op = calls[s].op /\ \A r \in Slots : r # s => calls'[r] = D[r]
    BY <1>19, <2>1 DEF ServeStop, Calls
  <2> QED
    BY <1>19, <2>1, <2>2, <2>3, CallsDiffer, BusyKept DEF ServeStop, NoCall
<1>20. ASSUME NEW s \in Slots, ServeList(s) PROVE ProgressEnds'
  <2>1. calls[s] \in Calls
    BY <1>20 DEF ServeList, TypeOK
  <2>2. calls'[s].op = calls[s].op /\ \A r \in Slots : r # s => calls'[r] = calls[r]
    BY <1>20, <2>1 DEF ServeList, TypeOK, Calls
  <2>3. calls'[s] # NoCall
    BY <2>1, <2>2, CallsDiffer DEF NoCall
  <2>4. UNCHANGED pane
    BY <1>20 DEF ServeList
  <2> QED
    BY <2>2, <2>3, <2>4, BusyKept
<1>21. ASSUME NEW s \in Slots, ServeOther(s) PROVE ProgressEnds'
  <2>1. calls[s] \in Calls
    BY <1>21 DEF ServeOther, TypeOK
  <2>2. calls'[s].op = calls[s].op /\ \A r \in Slots : r # s => calls'[r] = calls[r]
    BY <1>21, <2>1 DEF ServeOther, TypeOK, Calls
  <2>3. calls'[s] # NoCall
    BY <2>1, <2>2, CallsDiffer DEF NoCall
  <2>4. UNCHANGED pane
    BY <1>21 DEF ServeOther
  <2> QED
    BY <2>2, <2>3, <2>4, BusyKept
<1>22. ASSUME NEW l \in Labs, NEW n \in Names, EndCapture(l, n) PROVE ProgressEnds'
  <2>1. \A r \in Slots : calls[r] # NoCall => calls'[r] # NoCall
    BY <1>22, OpsKept, CallsDiffer DEF EndCapture, TypeOK, NoCall
  <2> QED
    BY <1>22, <2>1, BusyKept DEF EndCapture
<1>23. CASE UNCHANGED vars
  <2> QED
    BY <1>23, BusyKept DEF vars
<1> QED
  BY <1>1, <1>2, <1>3, <1>4, <1>5, <1>6, <1>7, <1>8, <1>9, <1>10, <1>11, <1>12,
     <1>13, <1>14, <1>15, <1>16, <1>17, <1>18, <1>19, <1>20, <1>21, <1>22, <1>23
  DEF Next, User

(* ProgressEnds, for any number of overlapping operations.                 *)
THEOREM ProgressIsReplaced == Spec => []ProgressEnds
<1>1. Init => ProgressInv
  <2>1. Init => pane = [shows |-> "none"]
    BY Zenon DEF Init
  <2>2. [shows |-> "none"].shows = "none"
    OBVIOUS
  <2> QED
    BY <2>1, <2>2, TypeInit DEF ProgressInv, ProgressEnds
<1>2. ProgressInv => ProgressEnds
  BY DEF ProgressInv
<1> QED
  BY <1>1, ProgressNext, <1>2, PTL DEF Spec

-----------------------------------------------------------------------------
(* Lists.                                                                  *)

(* What a request knows of the captures in the set on: those a start left  *)
(* running and those a stop ended, until the list of them has been made.   *)
Knows(c, on) ==
  /\ c.op = "stop" => c.intact \subseteq c.nodes
  /\ c.op = "start" /\ c.step = "served" => \A n \in c.intact : <<c.lab, n>> \in on
  /\ c.op = "stop" /\ c.step # "sent" => \A n \in c.intact : <<c.lab, n>> \notin on
  /\ c.op = "list" /\ c.origin = "start" =>
       /\ c.step = "sent" => \A n \in c.intact : <<c.lab, n>> \in on
       /\ c.step = "served" => c.intact \subseteq c.got
  /\ c.op = "list" /\ c.origin = "stop" =>
       /\ c.step = "sent" => \A n \in c.intact : <<c.lab, n>> \notin on
       /\ c.step = "served" => c.intact \cap c.got = {}

CallsKnow == \A s \in Slots : calls[s] # NoCall => Knows(calls[s], running)

OutcomeInv == TypeOK /\ CallsKnow /\ ListTellsOutcome

(* Whoever changes captures takes them from what others know of them.      *)
LEMMA OthersKnow ==
  ASSUME TypeOK, CallsKnow, NEW s, NEW l, NEW ns, NEW on,
         on = running \cup Pairs(l, ns) \/ on = running \ Pairs(l, ns),
         NEW r \in Slots, r # s, calls[r] # NoCall
  PROVE  Knows(Disturb(s, l, ns)[r], on)
<1> DEFINE c == calls[r]
           d == Disturb(s, l, ns)[r]
<1>1. c \in Calls /\ Knows(c, running)
  BY DEF TypeOK, CallsKnow
<1>2. CASE c.lab # l
  <2>1. d = c
    BY <1>2 DEF Disturb
  <2>2. \A n : <<c.lab, n>> \in on <=> <<c.lab, n>> \in running
    BY <1>2 DEF Pairs
  <2> QED
    BY <1>1, <2>1, <2>2 DEF Knows
<1>3. CASE c.lab = l /\ c.op = "list" /\ c.step # "sent"
  <2>1. d = c
    BY <1>3 DEF Disturb
  <2> QED
    BY <1>1, <1>3, <2>1 DEF Knows
<1>4. CASE c.lab = l /\ ~(c.op = "list" /\ c.step # "sent")
  <2>1. d = [c EXCEPT !.intact = @ \ ns]
    BY <1>4 DEF Disturb
  <2>2. /\ d.op = c.op /\ d.step = c.step /\ d.lab = c.lab /\ d.origin = c.origin
        /\ d.nodes = c.nodes /\ d.intact = c.intact \ ns
    BY <1>1, <2>1 DEF Calls
  <2>3. \A n \in d.intact : <<c.lab, n>> \in on <=> <<c.lab, n>> \in running
    BY <2>2 DEF Pairs
  <2> QED
    BY <1>1, <1>4, <2>2, <2>3 DEF Knows
<1> QED
  BY <1>2, <1>3, <1>4

LEMMA KnowledgeKept ==
  ASSUME CallsKnow, ListTellsOutcome, UNCHANGED <<calls, running, pane>>
  PROVE  CallsKnow' /\ ListTellsOutcome'
BY DEF CallsKnow, ListTellsOutcome

(* The pane that is not an answer tells nothing.                           *)
LEMMA NoAnswer ==
  ASSUME pane' \in [shows : {"none", "progress", "error"}]
  PROVE  ListTellsOutcome'
BY DEF ListTellsOutcome

(* A request knows nothing before it is served, but for a list's origin.   *)
LEMMA PostedKnows ==
  ASSUME TypeOK, CallsKnow, ListTellsOutcome, UNCHANGED running,
         NEW op, NEW ns, NEW ok, Post(op, ns, ok)
  PROVE  CallsKnow' /\ ListTellsOutcome'
<1>1. CASE ok
  <2>1. PICK s \in Free : calls' = [calls EXCEPT ![s] = Request(op, ns, "click", ns)]
    BY <1>1 DEF Post
  <2>2. Knows(Request(op, ns, "click", ns), running)
    BY DEF Knows, Request
  <2>3. CallsKnow'
    BY <2>1, <2>2 DEF CallsKnow, TypeOK, Free
  <2>4. pane' \in [shows : {"none", "progress", "error"}]
    BY <1>1 DEF Post
  <2> QED
    BY <2>3, <2>4, NoAnswer
<1>2. CASE ~ok
  BY <1>2, KnowledgeKept DEF Post
<1> QED
  BY <1>1, <1>2

LEMMA OutcomeNext == OutcomeInv /\ [Next]_vars => OutcomeInv'
<1> SUFFICES ASSUME TypeOK, CallsKnow, ListTellsOutcome, [Next]_vars
             PROVE  CallsKnow' /\ ListTellsOutcome'
  BY TypeNext DEF OutcomeInv
<1> DEFINE Goal == CallsKnow /\ ListTellsOutcome
<1> USE DEF labView, marks, drawer
<1>1. ASSUME NEW n \in Names, ToggleNode(n) PROVE Goal'
  <2> QED
    BY <1>1, KnowledgeKept DEF ToggleNode, Act
<1>2. CASE Clear
  <2> QED
    BY <1>2, KnowledgeKept DEF Clear, Act
<1>3. CASE AddMatched
  <2> QED
    BY <1>3, KnowledgeKept DEF AddMatched, SelectMatched, Act
<1>4. CASE OnlyMatched
  <2> QED
    BY <1>4, KnowledgeKept DEF OnlyMatched, SelectMatched, Act
<1>5. ASSUME NEW q \in Texts, NEW re \in BOOLEAN, TypeFilter(q, re) PROVE Goal'
  <2> QED
    BY <1>5, KnowledgeKept DEF TypeFilter, Act
<1>6. CASE OpenDrawer
  <2> QED
    BY <1>6, KnowledgeKept DEF OpenDrawer, Act
<1>7. CASE CloseDrawer
  <2> QED
    BY <1>7, KnowledgeKept DEF CloseDrawer, Act
<1>8. ASSUME NEW l \in Labs, SelectLab(l) PROVE Goal'
  <2> QED
    BY <1>8, KnowledgeKept DEF SelectLab, Act
<1>9. CASE Run
  <2>1. CASE pane' = [shows |-> "error"] /\ UNCHANGED calls
    <3>1. pane' \in [shows : {"none", "progress", "error"}]
      BY <2>1
    <3>2. CallsKnow'
      BY <1>9, <2>1 DEF Run, CallsKnow
    <3> QED
      BY <3>1, <3>2, NoAnswer
  <2>2. CASE ~(pane' = [shows |-> "error"] /\ UNCHANGED calls)
    <3>1. UNCHANGED running
      BY <1>9 DEF Run
    <3> QED
      BY <1>9, <2>2, <3>1, PostedKnows DEF Run
  <2> QED
    BY <2>1, <2>2
<1>10. CASE Stop
  <2>1. UNCHANGED running
    BY <1>10 DEF Stop
  <2> QED
    BY <1>10, <2>1, PostedKnows DEF Stop
<1>11. CASE List
  <2>1. UNCHANGED running
    BY <1>11 DEF List
  <2> QED
    BY <1>11, <2>1, PostedKnows DEF List
<1>12. ASSUME NEW t \in {"exec", "export"}, SetBatchTab(t) PROVE Goal'
  <2> QED
    BY <1>12, KnowledgeKept DEF SetBatchTab, Act
<1>13. ASSUME NEW sc \in {"selected", "all"}, NEW ks \in SUBSET Kinds, ChooseExport(sc, ks)
             PROVE Goal'
  <2> QED
    BY <1>13, KnowledgeKept DEF ChooseExport, Act
<1>14. ASSUME NEW l \in Labs, TakeTopology(l) PROVE Goal'
  <2> QED
    BY <1>14, KnowledgeKept DEF TakeTopology
<1>15. ASSUME NEW l \in Labs, NEW skip \in BOOLEAN, DrawTopology(l, skip) PROVE Goal'
  <2> QED
    BY <1>15, KnowledgeKept DEF DrawTopology
<1>16. ASSUME NEW s \in Slots, Arrive(s) PROVE Goal'
  <2> DEFINE c == calls[s]
  <2>1. c \in Calls /\ Knows(c, running) /\ c.step # "sent"
    BY <1>16 DEF Arrive, Answered, TypeOK, CallsKnow
  <2>2. CASE Follows(c)
    <3> DEFINE i == IF c.lab = lab THEN c.intact ELSE {}
    <3>1. calls' = [calls EXCEPT ![s] = Request("list", {}, c.op, i)]
      BY <1>16, <2>2 DEF Arrive
    <3>2. Knows(Request("list", {}, c.op, i), running)
      BY <2>1, <2>2 DEF Knows, Request, Follows, Calls
    <3>3. CallsKnow'
      BY <1>16, <3>1, <3>2 DEF Arrive, CallsKnow, TypeOK
    <3>4. pane' \in [shows : {"none", "progress", "error"}]
      BY <1>16, <2>2 DEF Arrive
    <3> QED
      BY <3>3, <3>4, NoAnswer
  <2>3. CASE ~Follows(c)
    <3>1. CallsKnow'
      BY <1>16, <2>3 DEF Arrive, CallsKnow, TypeOK
    <3>2. CASE c.step = "failed"
      <4>1. pane' \in [shows : {"none", "progress", "error"}]
        BY <1>16, <2>3, <3>2 DEF Arrive
      <4> QED
        BY <3>1, <4>1, NoAnswer
    <3>3. CASE c.step = "served"
      <4>1. pane' = [shows |-> "answer", call |-> c]
        BY <1>16, <2>3, <3>3 DEF Arrive
      <4>2. pane'.call = c
        BY <4>1
      <4> QED
        BY <2>1, <3>1, <3>3, <4>2 DEF ListTellsOutcome, Knows
    <3> QED
      BY <2>1, <3>1, <3>2, <3>3 DEF Calls
  <2> QED
    BY <2>2, <2>3
<1>17. ASSUME NEW s \in Slots, Refuse(s) PROVE Goal'
  <2>1. calls[s] \in Calls /\ Knows(calls[s], running)
    BY <1>17 DEF Refuse, TypeOK, CallsKnow
  <2>2. calls' = [calls EXCEPT ![s] = [calls[s] EXCEPT !.step = "failed", !.intact = IF calls[s].step = "served" THEN @ ELSE {}]]
    BY <1>17, <2>1 DEF Refuse, TypeOK, Calls
  <2>3. Knows([calls[s] EXCEPT !.step = "failed", !.intact = IF calls[s].step = "served" THEN @ ELSE {}], running)
    BY <2>1 DEF Knows, Calls
  <2>4. CallsKnow'
    BY <1>17, <2>2, <2>3 DEF Refuse, CallsKnow, TypeOK
  <2> QED
    BY <1>17, <2>4 DEF Refuse, ListTellsOutcome
<1>18. ASSUME NEW s \in Slots, ServeStart(s) PROVE Goal'
  <2> DEFINE c == calls[s]
  <2>1. c \in Calls /\ c.op = "start"
    BY <1>18 DEF ServeStart, TypeOK
  <2>2. PICK ns \in SUBSET calls[s].nodes :
          /\ running' = running \cup Pairs(calls[s].lab, ns)
          /\ calls' = [Disturb(s, calls[s].lab, ns) EXCEPT
                ![s].step = "served", ![s].intact = {n \in @ : <<calls[s].lab, n>> \in running'}]
    BY <1>18 DEF ServeStart
  <2> DEFINE D == Disturb(s, c.lab, ns)
             d == [c EXCEPT !.step = "served", !.intact = {n \in @ : <<c.lab, n>> \in running'}]
  <2>3. D \in [Slots -> Calls \cup {NoCall}] /\ D[s] = c
    BY <2>1, DisturbOK
  <2>4. calls'[s] = d /\ \A r \in Slots : r # s => calls'[r] = D[r]
    BY <2>1, <2>2, <2>3 DEF Calls
  <2>5. Knows(d, running')
    BY <2>1 DEF Knows, Calls
  <2>6. ASSUME NEW r \in Slots, r # s, calls[r] # NoCall PROVE Knows(D[r], running')
    BY <2>2, <2>6, OthersKnow
  <2>7. \A r \in Slots : calls[r] = NoCall => D[r] = NoCall
    BY DEF Disturb
  <2>8. CallsKnow'
    BY <2>4, <2>5, <2>6, <2>7 DEF CallsKnow
  <2> QED
    BY <1>18, <2>8 DEF ServeStart, ListTellsOutcome
<1>19. ASSUME NEW s \in Slots, ServeStop(s) PROVE Goal'
  <2> DEFINE c == calls[s]
             D == Disturb(s, c.lab, c.nodes)
             d == [c EXCEPT !.step = "served"]
  <2>1. c \in Calls /\ c.op = "stop" /\ c.intact \subseteq c.nodes
    BY <1>19 DEF ServeStop, TypeOK, CallsKnow, Knows
  <2>2. running' = running \ Pairs(c.lab, c.nodes)
    BY <1>19 DEF ServeStop
  <2>3. D \in [Slots -> Calls \cup {NoCall}] /\ D[s] = c
    BY <2>1, DisturbOK
  <2>4. calls'[s] = d /\ \A r \in Slots : r # s => calls'[r] = D[r]
    BY <1>19, <2>1, <2>3 DEF ServeStop, Calls
  <2>5. Knows(d, running')
    BY <2>1, <2>2 DEF Knows, Calls, Pairs
  <2>6. ASSUME NEW r \in Slots, r # s, calls[r] # NoCall PROVE Knows(D[r], running')
    <3>1. PICK l, ns : l = c.lab /\ ns = c.nodes
      OBVIOUS
    <3>2. running' = running \cup Pairs(l, ns) \/ running' = running \ Pairs(l, ns)
      BY <2>2, <3>1
    <3>3. Knows(Disturb(s, l, ns)[r], running')
      BY <2>6, <3>2, OthersKnow, Zenon
    <3> QED
      BY <3>1, <3>3
  <2>7. \A r \in Slots : calls[r] = NoCall => D[r] = NoCall
    BY DEF Disturb
  <2>8. CallsKnow'
    BY <2>4, <2>5, <2>6, <2>7 DEF CallsKnow
  <2> QED
    BY <1>19, <2>8 DEF ServeStop, ListTellsOutcome
<1>20. ASSUME NEW s \in Slots, ServeList(s) PROVE Goal'
  <2> DEFINE c == calls[s]
             got == {n \in Names : <<c.lab, n>> \in running}
             d == [c EXCEPT !.step = "served", !.got = got]
  <2>1. c \in Calls /\ Knows(c, running) /\ c.step = "sent" /\ c.op = "list"
    BY <1>20 DEF ServeList, TypeOK, CallsKnow
  <2>2. calls' = [calls EXCEPT ![s] = d]
    BY <1>20, <2>1 DEF ServeList, TypeOK, Calls
  <2>3. Knows(d, running)
    BY <2>1 DEF Knows, Calls
  <2>4. CallsKnow'
    BY <1>20, <2>2, <2>3 DEF ServeList, CallsKnow, TypeOK
  <2> QED
    BY <1>20, <2>4 DEF ServeList, ListTellsOutcome
<1>21. ASSUME NEW s \in Slots, ServeOther(s) PROVE Goal'
  <2> DEFINE c == calls[s]
             d == [c EXCEPT !.step = "served"]
  <2>1. c \in Calls /\ Knows(c, running) /\ c.step = "sent" /\ c.op \in {"exec", "export"}
    BY <1>21 DEF ServeOther, TypeOK, CallsKnow
  <2>2. calls' = [calls EXCEPT ![s] = d]
    BY <1>21, <2>1 DEF ServeOther, TypeOK, Calls
  <2>3. Knows(d, running)
    BY <2>1 DEF Knows, Calls
  <2>4. CallsKnow'
    BY <1>21, <2>2, <2>3 DEF ServeOther, CallsKnow, TypeOK
  <2> QED
    BY <1>21, <2>4 DEF ServeOther, ListTellsOutcome
<1>22. ASSUME NEW l \in Labs, NEW n \in Names, EndCapture(l, n) PROVE Goal'
  <2>1. running' = running \ Pairs(l, {n})
    BY <1>22 DEF EndCapture, Pairs
  <2>2. \A r \in Slots : calls[r] # NoCall => Knows(Disturb(0, l, {n})[r], running')
    <3>1. 0 \notin Slots
      BY DEF Slots
    <3>2. running' = running \cup Pairs(l, {n}) \/ running' = running \ Pairs(l, {n})
      BY <2>1
    <3> QED
      <4> SUFFICES ASSUME NEW r \in Slots, calls[r] # NoCall
                   PROVE  Knows(Disturb(0, l, {n})[r], running')
        OBVIOUS
      <4>1. r # 0
        BY <3>1
      <4> QED
        BY <3>2, <4>1, OthersKnow, Zenon
  <2>3. \A r \in Slots : calls[r] = NoCall => Disturb(0, l, {n})[r] = NoCall
    BY DEF Disturb
  <2>4. CallsKnow'
    BY <1>22, <2>2, <2>3 DEF EndCapture, CallsKnow
  <2> QED
    BY <1>22, <2>4 DEF EndCapture, ListTellsOutcome
<1>23. CASE UNCHANGED vars
  <2> QED
    BY <1>23, KnowledgeKept DEF vars
<1> QED
  BY <1>1, <1>2, <1>3, <1>4, <1>5, <1>6, <1>7, <1>8, <1>9, <1>10, <1>11, <1>12,
     <1>13, <1>14, <1>15, <1>16, <1>17, <1>18, <1>19, <1>20, <1>21, <1>22, <1>23
  DEF Next, User

(* ListTellsOutcome, for any number of requests and labs.                  *)
THEOREM ListsTellOutcomes == Spec => []ListTellsOutcome
<1>1. Init => OutcomeInv
  <2> SUFFICES ASSUME Init PROVE CallsKnow /\ ListTellsOutcome
    BY TypeInit DEF OutcomeInv
  <2>1. pane = [shows |-> "none"] /\ calls = [s \in Slots |-> NoCall]
    BY Zenon DEF Init
  <2>2. [shows |-> "none"].shows = "none"
    OBVIOUS
  <2> QED
    BY <2>1, <2>2 DEF CallsKnow, ListTellsOutcome
<1>2. OutcomeInv => ListTellsOutcome
  BY DEF OutcomeInv
<1> QED
  BY <1>1, OutcomeNext, <1>2, PTL DEF Spec
-----------------------------------------------------------------------------
(* What the user saw of the nodes he asked something of.                   *)

(* A request with hidden nodes names some that its lab does not have, and  *)
(* so it is not served.                                                    *)
Sound(c) ==
  /\ c.nodes \subseteq Nodes[c.lab] => c.hidden = {}
  /\ c.op = "list" => c.nodes = {}
  /\ c.step = "served" => c.hidden = {}

CallsSound == \A s \in Slots : calls[s] # NoCall => Sound(calls[s])

ShownInv == TypeOK /\ MarksFollowSelection /\ CallsSound

LEMMA SoundKept == ASSUME CallsSound, UNCHANGED calls PROVE CallsSound'
BY DEF CallsSound

(* The list marks all selected nodes that it shows.                        *)
LEMMA RequestSound ==
  ASSUME MarksFollowSelection, NEW op, NEW origin, NEW intact, NEW ns \in {{}, selected},
         op = "list" => ns = {}
  PROVE  Sound(Request(op, ns, origin, intact))
BY DEF Sound, Request, MarksFollowSelection

LEMMA PostedSound ==
  ASSUME TypeOK, MarksFollowSelection, CallsSound, NEW op, NEW ns \in {{}, selected},
         op = "list" => ns = {}, NEW ok, Post(op, ns, ok)
  PROVE  CallsSound'
<1>1. Sound(Request(op, ns, "click", ns))
  BY RequestSound
<1> QED
  BY <1>1 DEF Post, CallsSound, Free, TypeOK

LEMMA DisturbSound ==
  ASSUME TypeOK, CallsSound, NEW s, NEW l, NEW ns, NEW r \in Slots
  PROVE  /\ calls[r] = NoCall => Disturb(s, l, ns)[r] = NoCall
         /\ calls[r] # NoCall => Sound(Disturb(s, l, ns)[r])
<1>1. calls[r] \in Calls \cup {NoCall} /\ (calls[r] # NoCall => Sound(calls[r]))
  BY DEF TypeOK, CallsSound
<1> QED
  BY <1>1 DEF Disturb, Sound, Calls

LEMMA ShownNext == ShownInv /\ [Next]_vars => ShownInv'
<1> SUFFICES ASSUME TypeOK, MarksFollowSelection, CallsSound, [Next]_vars PROVE CallsSound'
  BY TypeNext, MarksNext DEF ShownInv
<1> USE DEF labView, marks, drawer
<1>1. ASSUME NEW n \in Names, ToggleNode(n) PROVE CallsSound'
  BY <1>1, SoundKept DEF ToggleNode
<1>2. CASE Clear
  BY <1>2, SoundKept DEF Clear
<1>3. CASE AddMatched
  BY <1>3, SoundKept DEF AddMatched, SelectMatched
<1>4. CASE OnlyMatched
  BY <1>4, SoundKept DEF OnlyMatched, SelectMatched
<1>5. ASSUME NEW q \in Texts, NEW re \in BOOLEAN, TypeFilter(q, re) PROVE CallsSound'
  BY <1>5, SoundKept DEF TypeFilter
<1>6. CASE OpenDrawer
  BY <1>6, SoundKept DEF OpenDrawer
<1>7. CASE CloseDrawer
  BY <1>7, SoundKept DEF CloseDrawer
<1>8. ASSUME NEW l \in Labs, SelectLab(l) PROVE CallsSound'
  BY <1>8, SoundKept DEF SelectLab
<1>9. CASE Run
  <2>1. CASE pane' = [shows |-> "error"] /\ UNCHANGED calls
    BY <2>1, SoundKept
  <2>2. CASE ~(pane' = [shows |-> "error"] /\ UNCHANGED calls)
    <3>1. \/ \E command \in BOOLEAN : Post("exec", selected, selected # {} /\ command)
          \/ Post("start", selected, selected # {})
          \/ Post("export", IF scope = "all" THEN {} ELSE selected, TRUE)
      BY <1>9, <2>2 DEF Run
    <3>2. (IF scope = "all" THEN {} ELSE selected) \in {{}, selected} /\ selected \in {{}, selected}
      OBVIOUS
    <3> QED
      BY <3>1, <3>2, PostedSound
  <2> QED
    BY <2>1, <2>2
<1>10. CASE Stop
  BY <1>10, PostedSound DEF Stop
<1>11. CASE List
  BY <1>11, PostedSound DEF List
<1>12. ASSUME NEW t \in {"exec", "export"}, SetBatchTab(t) PROVE CallsSound'
  BY <1>12, SoundKept DEF SetBatchTab
<1>13. ASSUME NEW sc \in {"selected", "all"}, NEW ks \in SUBSET Kinds, ChooseExport(sc, ks)
             PROVE CallsSound'
  BY <1>13, SoundKept DEF ChooseExport
<1>14. ASSUME NEW l \in Labs, TakeTopology(l) PROVE CallsSound'
  BY <1>14, SoundKept DEF TakeTopology
<1>15. ASSUME NEW l \in Labs, NEW skip \in BOOLEAN, DrawTopology(l, skip) PROVE CallsSound'
  BY <1>15, SoundKept DEF DrawTopology
<1>16. ASSUME NEW s \in Slots, Arrive(s) PROVE CallsSound'
  <2> DEFINE c == calls[s]
             i == IF c.lab = lab THEN c.intact ELSE {}
  <2>1. Sound(Request("list", {}, c.op, i))
    BY RequestSound
  <2>2. calls' = [calls EXCEPT ![s] = Request("list", {}, c.op, i)] \/ calls' = [calls EXCEPT ![s] = NoCall]
    BY <1>16 DEF Arrive
  <2> QED
    BY <2>1, <2>2 DEF CallsSound, TypeOK
<1>17. ASSUME NEW s \in Slots, Refuse(s) PROVE CallsSound'
  <2>1. calls[s] \in Calls /\ Sound(calls[s])
    BY <1>17 DEF Refuse, TypeOK, CallsSound
  <2>2. calls' = [calls EXCEPT ![s] = [calls[s] EXCEPT !.step = "failed", !.intact = IF calls[s].step = "served" THEN @ ELSE {}]]
    BY <1>17, <2>1 DEF Refuse, TypeOK, Calls
  <2>3. Sound([calls[s] EXCEPT !.step = "failed", !.intact = IF calls[s].step = "served" THEN @ ELSE {}])
    BY <2>1 DEF Sound, Calls
  <2> QED
    BY <2>2, <2>3 DEF CallsSound, TypeOK
<1>18. ASSUME NEW s \in Slots, ServeStart(s) PROVE CallsSound'
  <2> DEFINE c == calls[s]
  <2>1. c \in Calls /\ Sound(c) /\ c.nodes \subseteq Nodes[c.lab]
    BY <1>18 DEF ServeStart, Valid, TypeOK, CallsSound
  <2>2. PICK ns \in SUBSET calls[s].nodes :
          calls' = [Disturb(s, calls[s].lab, ns) EXCEPT
                ![s].step = "served", ![s].intact = {n \in @ : <<calls[s].lab, n>> \in running'}]
    BY <1>18 DEF ServeStart
  <2> DEFINE D == Disturb(s, c.lab, ns)
             d == [c EXCEPT !.step = "served", !.intact = {n \in @ : <<c.lab, n>> \in running'}]
  <2>3. D \in [Slots -> Calls \cup {NoCall}] /\ D[s] = c
    BY <2>1, DisturbOK
  <2>4. calls'[s] = d /\ \A r \in Slots : r # s => calls'[r] = D[r]
    BY <2>1, <2>2, <2>3 DEF Calls
  <2>5. Sound(d)
    BY <2>1 DEF Sound, Calls
  <2>6. \A r \in Slots : calls[r] = NoCall \/ Sound(D[r])
    BY DisturbSound
  <2>7. \A r \in Slots : calls[r] = NoCall => D[r] = NoCall
    BY DisturbSound
  <2> QED
    BY <2>4, <2>5, <2>6, <2>7 DEF CallsSound
<1>19. ASSUME NEW s \in Slots, ServeStop(s) PROVE CallsSound'
  <2> DEFINE c == calls[s]
             D == Disturb(s, c.lab, c.nodes)
             d == [c EXCEPT !.step = "served"]
  <2>1. c \in Calls /\ Sound(c) /\ c.nodes \subseteq Nodes[c.lab]
    BY <1>19 DEF ServeStop, Valid, TypeOK, CallsSound
  <2>3. D \in [Slots -> Calls \cup {NoCall}] /\ D[s] = c
    BY <2>1, DisturbOK
  <2>4. calls'[s] = d /\ \A r \in Slots : r # s => calls'[r] = D[r]
    BY <1>19, <2>1, <2>3 DEF ServeStop, Calls
  <2>5. Sound(d)
    BY <2>1 DEF Sound, Calls
  <2>6. \A r \in Slots : calls[r] = NoCall \/ Sound(D[r])
    BY DisturbSound
  <2>7. \A r \in Slots : calls[r] = NoCall => D[r] = NoCall
    BY DisturbSound
  <2> QED
    BY <2>4, <2>5, <2>6, <2>7 DEF CallsSound
<1>20. ASSUME NEW s \in Slots, ServeList(s) PROVE CallsSound'
  <2> DEFINE c == calls[s]
             d == [c EXCEPT !.step = "served", !.got = {n \in Names : <<c.lab, n>> \in running}]
  <2>1. c \in Calls /\ Sound(c) /\ c.op = "list"
    BY <1>20 DEF ServeList, TypeOK, CallsSound
  <2>2. calls' = [calls EXCEPT ![s] = d]
    BY <1>20, <2>1 DEF ServeList, TypeOK, Calls
  <2>3. Sound(d)
    BY <2>1 DEF Sound, Calls
  <2> QED
    BY <2>2, <2>3 DEF CallsSound, TypeOK
<1>21. ASSUME NEW s \in Slots, ServeOther(s) PROVE CallsSound'
  <2> DEFINE c == calls[s]
             d == [c EXCEPT !.step = "served"]
  <2>1. c \in Calls /\ Sound(c) /\ c.nodes \subseteq Nodes[c.lab]
    BY <1>21 DEF ServeOther, Valid, TypeOK, CallsSound
  <2>2. calls' = [calls EXCEPT ![s] = d]
    BY <1>21, <2>1 DEF ServeOther, TypeOK, Calls
  <2>3. Sound(d)
    BY <2>1 DEF Sound, Calls
  <2> QED
    BY <2>2, <2>3 DEF CallsSound, TypeOK
<1>22. ASSUME NEW l \in Labs, NEW n \in Names, EndCapture(l, n) PROVE CallsSound'
  <2>1. \A r \in Slots : calls[r] = NoCall \/ Sound(Disturb(0, l, {n})[r])
    BY DisturbSound
  <2>2. \A r \in Slots : calls[r] = NoCall => Disturb(0, l, {n})[r] = NoCall
    BY DisturbSound
  <2> QED
    BY <1>22, <2>1, <2>2 DEF EndCapture, CallsSound
<1>23. CASE UNCHANGED vars
  BY <1>23, SoundKept DEF vars
<1> QED
  BY <1>1, <1>2, <1>3, <1>4, <1>5, <1>6, <1>7, <1>8, <1>9, <1>10, <1>11, <1>12,
     <1>13, <1>14, <1>15, <1>16, <1>17, <1>18, <1>19, <1>20, <1>21, <1>22, <1>23
  DEF Next, User

(* TouchesOnlyShown, for labs with any names in common, and however often  *)
(* the lab and the selection are changed while requests are in flight.     *)
THEOREM RequestsTouchOnlyShown == Spec => []TouchesOnlyShown
<1>1. Init => CallsSound
  BY Zenon DEF Init, CallsSound
<1>2. ShownInv => TouchesOnlyShown
  BY DEF ShownInv, CallsSound, Sound, TouchesOnlyShown
<1>3. Init => MarksFollowSelection
  BY MarksInit
<1> QED
  BY <1>1, <1>2, <1>3, TypeInit, ShownNext, PTL DEF Spec, ShownInv
=============================================================================
