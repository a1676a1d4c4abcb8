-------------------------- MODULE TopologyViewProofs --------------------------
(***************************************************************************)
(* Safety of TopologyView for any labs and any number of requests.         *)
(***************************************************************************)
EXTENDS TopologyView, WellFoundedInduction, TLAPS

(* Both choices the model makes, of a slot and of the first node, are of a *)
(* least number.                                                           *)
LEMMA LeastExists ==
  ASSUME NEW S \in SUBSET Nat, S # {}
  PROVE  \E n \in S : \A m \in S : n <= m
<1> DEFINE lt == {p \in Nat \X Nat : p[1] < p[2]}
<1>0. IsWellFoundedOn(lt, Nat)
  BY NatLessThanWellFounded DEF OpToRel
<1> HIDE DEF lt
<1>1. PICK n \in S : \A m \in S : ~(<<m, n>> \in lt)
  BY <1>0, WFMin
<1>2. ASSUME NEW m \in S PROVE n <= m
  <2>1. n \in Nat /\ m \in Nat
    OBVIOUS
  <2>2. ~(m < n)
    BY <1>1, <2>1 DEF lt
  <2> QED
    BY <2>1, <2>2
<1> QED
  BY <1>2

LEMMA NextSlotIsFree ==
  ASSUME Free # {}
  PROVE  NextSlot \in Slots /\ calls[NextSlot] = NoCall
<1>1. Free \in SUBSET Nat /\ Free \subseteq Slots
  BY ViewConstantsOK DEF Free, Slots
<1>2. PICK s \in Free : \A r \in Free : s <= r
  BY <1>1, LeastExists
<1>3. NextSlot \in Free
  BY <1>2 DEF NextSlot
<1> QED
  BY <1>1, <1>3 DEF Free

LEMMA NodesAreNames ==
  ASSUME NEW t \in Topologies \cup {NoTopology}
  PROVE  /\ NodesOf(t) \in SUBSET Names
         /\ NodesOf(t) \in SUBSET Nat
         /\ NoNode \notin NodesOf(t)
         /\ LinksOf(t) \in SUBSET (Nat \X Nat)
<1>1. CASE t.lab = NoLab
  BY <1>1 DEF NodesOf, LinksOf
<1>2. CASE t.lab # NoLab
  <2>1. t.lab \in Labs /\ t.ver \in 0 .. 1
    BY <1>2 DEF Topologies, NoTopology
  <2>2. Shapes[t.lab][t.ver] \in [nodes : SUBSET (Nat \ {0}), links : SUBSET (Nat \X Nat)]
    BY <2>1, ViewConstantsOK
  <2>3. Shapes[t.lab][t.ver].nodes \subseteq Names
    BY <2>1 DEF Names
  <2> QED
    BY <1>2, <2>2, <2>3 DEF NodesOf, LinksOf, NoNode
<1> QED
  BY <1>1, <1>2

(* The node that is detailed is one of the lab, if it has any.             *)
LEMMA ShownIsANode ==
  ASSUME NEW t \in Topologies \cup {NoTopology}, NEW sel
  PROVE  IF NodesOf(t) = {} THEN Shown(t, sel) = NoNode ELSE Shown(t, sel) \in NodesOf(t)
<1>1. First(t) \in NodesOf(t) \/ NodesOf(t) = {}
  <2> SUFFICES ASSUME NodesOf(t) # {} PROVE First(t) \in NodesOf(t)
    OBVIOUS
  <2>1. PICK n \in NodesOf(t) : \A m \in NodesOf(t) : n <= m
    BY NodesAreNames, LeastExists
  <2> QED
    BY <2>1 DEF First
<1> QED
  BY <1>1 DEF Shown, First

-----------------------------------------------------------------------------
(* What the helpers of the actions promise.                                *)

CallsTyped == calls \in [Slots -> Calls \cup {NoCall}]
NoneOr == Names \cup {NoNode}

LEMMA CallsAreCalls ==
  ASSUME NEW c \in Calls
  PROVE  c # NoCall
<1>1. c.lab \in Labs
  BY DEF Calls
<1> QED
  BY <1>1, ViewConstantsOK DEF NoCall

LEMMA RequestSends ==
  ASSUME CallsTyped, NEW s \in Slots, NEW c \in Calls, Request(s, c)
  PROVE  CallsTyped' /\ live' \in BOOLEAN /\ ~Quiet'
<1>1. calls' = [calls EXCEPT ![s] = c] /\ live' = c.live
  BY DEF Request
<1>2. c.live \in BOOLEAN
  BY DEF Calls
<1>3. calls'[s] # NoCall
  BY <1>1, CallsAreCalls DEF CallsTyped
<1> QED
  BY <1>1, <1>2, <1>3 DEF CallsTyped, Quiet

(* It sends a request unless there is no lab.                              *)
LEMMA LoadSends ==
  ASSUME CallsTyped, live \in BOOLEAN, ver \in [Labs -> 0 .. 1],
         NEW l \in Labs \cup {NoLab}, NEW on \in BOOLEAN, NEW n \in NoneOr,
         NEW skip \in BOOLEAN, NEW init \in BOOLEAN, Load(l, on, n, skip, init)
  PROVE  /\ CallsTyped' /\ live' \in BOOLEAN
         /\ l = NoLab => calls' = calls
         /\ l # NoLab => ~Quiet'
<1>1. CASE l = NoLab
  BY <1>1 DEF Load, NoRequest, CallsTyped
<1>2. CASE l # NoLab
  <2> DEFINE c == [lab |-> l, since |-> ver[l], live |-> on, node |-> n,
                   force |-> FALSE, skip |-> skip, init |-> init]
  <2>1. Free # {} /\ Request(NextSlot, c)
    BY <1>2 DEF Load
  <2>2. c \in Calls
    BY <1>2 DEF Calls, NoneOr
  <2>3. NextSlot \in Slots
    BY <2>1, NextSlotIsFree
  <2> HIDE DEF c
  <2>4. CallsTyped' /\ live' \in BOOLEAN /\ ~Quiet'
    BY <2>1, <2>2, <2>3, RequestSends
  <2> QED
    BY <1>2, <2>4
<1> QED
  BY <1>1, <1>2

LEMMA LoadNodeSends ==
  ASSUME CallsTyped, ver \in [Labs -> 0 .. 1], lab \in Labs, liveToggle \in BOOLEAN,
         NEW n \in NoneOr, NEW skip \in BOOLEAN, LoadNode(n, skip)
  PROVE  CallsTyped' /\ live' \in BOOLEAN /\ ~Quiet'
<1> DEFINE c == [lab |-> lab, since |-> ver[lab], live |-> liveToggle, node |-> n,
                 force |-> TRUE, skip |-> skip, init |-> FALSE]
<1>1. Free # {} /\ Request(NextSlot, c)
  BY DEF LoadNode
<1>2. c \in Calls
  BY DEF Calls, NoneOr
<1>3. NextSlot \in Slots
  BY <1>1, NextSlotIsFree
<1> HIDE DEF c
<1> QED
  BY <1>1, <1>2, <1>3, RequestSends

(* It selects what it shows, and keeps a snapshot of that only.            *)
LEMMA RenderDetailShows ==
  ASSUME NEW t \in Topologies \cup {NoTopology}, NEW sel \in NoneOr,
         NEW snapshots \in [Names -> Labs \cup {NoLab}],
         crossed \in BOOLEAN, RenderDetail(t, sel, snapshots)
  PROVE  /\ selectedNode' \in NoneOr
         /\ detail' \in Details \cup {NoDetail}
         /\ prev' \in [Names -> Labs \cup {NoLab}]
         /\ crossed' \in BOOLEAN
         /\ NodesOf(t) # {} => detail'.node = selectedNode'
         /\ ~crossed' => ~crossed /\ \A m \in Names : prev'[m] \in {snapshots[m], lab}
<1>1. CASE NodesOf(t) = {}
  <2>1. Shown(t, sel) = NoNode
    BY <1>1, ShownIsANode
  <2> QED
    BY <1>1, <2>1 DEF RenderDetail
<1>2. CASE NodesOf(t) # {}
  <2>1. PICK n : n = Shown(t, sel)
    OBVIOUS
  <2>2. n \in Names /\ n # NoNode
    BY <1>2, <2>1, ShownIsANode, NodesAreNames
  <2>3. t.lab \in Labs /\ t.ver \in 0 .. 1
    BY <1>2 DEF NodesOf, Topologies, NoTopology
  <2>4. /\ selectedNode' = n
        /\ detail' = [node |-> n, lab |-> t.lab, ver |-> t.ver, full |-> t.of = n]
        /\ prev' = [snapshots EXCEPT ![n] = t.lab]
        /\ crossed' = (crossed \/ t.lab # lab)
    BY <2>1, <2>2 DEF RenderDetail
  <2>5. detail' \in Details
    BY <2>2, <2>3, <2>4 DEF Details
  <2>6. ASSUME ~crossed' PROVE ~crossed /\ \A m \in Names : prev'[m] \in {snapshots[m], lab}
    BY <2>2, <2>4, <2>6
  <2> QED
    BY <2>2, <2>3, <2>4, <2>5, <2>6 DEF NoneOr
<1> QED
  BY <1>1, <1>2

-----------------------------------------------------------------------------
(* Types.  Requests are sent and nodes are drawn for some lab, which is    *)
(* chosen when the labs are known; and an interval can be cleared only if  *)
(* there is one.                                                           *)

TypeInv ==
  /\ TypeOK
  /\ lab = NoLab => Quiet /\ cy.nodes = {} /\ rows.nodes = {}
  /\ page = "labs" => lab = NoLab /\ labs = {}
  /\ timer => intervals > 0

LEMMA EndInitTyped ==
  ASSUME TypeInv, NEW c, EndInit(c)
  PROVE  /\ page' \in {page, "ready"}
         /\ timer' \in BOOLEAN /\ intervals' \in Nat
         /\ timer' => intervals' > 0
BY DEF EndInit, TypeInv, TypeOK

(* An answer is asked for again, for node sel, or it is drawn.             *)
Ask(s, c, sel) ==
  /\ Again(s, c, sel)
  /\ selectedNode' = sel
  /\ UNCHANGED <<page, clock, shown, prev, crossed>>

Draw(s, c, t, sel) ==
  /\ IF c.skip THEN UNCHANGED <<cy, marked>> ELSE SyncGraph(t) /\ HighlightSelection(sel)
  /\ RenderNodes(t, sel)
  /\ RenderDetail(t, sel, prev)
  /\ EndInit(c)
  /\ calls' = [calls EXCEPT ![s] = NoCall]
  /\ UNCHANGED live

LEMMA AnswerSplits ==
  ASSUME TypeInv, NEW s \in Slots, Answer(s)
  PROVE  \E c \in Calls, t \in Topologies, sel \in NoneOr :
           /\ c = calls[s] /\ topology' = t
           /\ Ask(s, c, sel) \/ Draw(s, c, t, sel)
           /\ UNCHANGED <<server, labs, lab, boxes, acts, failures, early>>
           /\ lab \in Labs /\ page # "labs" /\ ~Quiet
<1>1. PICK c : c = calls[s]
  OBVIOUS
<1>2. c \in Calls /\ ~Quiet
  <2>1. calls[s] \in Calls \cup {NoCall} /\ calls[s] # NoCall
    BY DEF TypeInv, TypeOK, Answer
  <2> QED
    BY <1>1, <2>1 DEF Quiet
<1>3. PICK v \in c.since .. ver[c.lab] :
        LET t == [lab |-> c.lab, ver |-> v, of |-> IF c.live THEN c.node ELSE NoNode]
            sel == Selected(c, t)
        IN
        /\ topology' = t
        /\ IF live /\ c.node = NoNode /\ sel # NoNode THEN Ask(s, c, sel) ELSE Draw(s, c, t, sel)
  BY <1>1, Zenon DEF Answer, Ask, Draw
<1>4. PICK t : t = [lab |-> c.lab, ver |-> v, of |-> IF c.live THEN c.node ELSE NoNode]
  OBVIOUS
<1>5. PICK sel : sel = Selected(c, t)
  OBVIOUS
<1>6. lab \in Labs /\ page # "labs"
  BY <1>2 DEF TypeInv, TypeOK
<1>7. t \in Topologies
  <2>1. v \in 0 .. 1
    BY <1>2, <1>3 DEF Calls, TypeInv, TypeOK
  <2> QED
    BY <1>2, <1>4, <2>1 DEF Calls, Topologies
<1>8. sel \in NoneOr
  <2>1. First(t) \in NoneOr
    <3>1. Shown(t, NoNode) = First(t)
      BY <1>7, NodesAreNames DEF Shown
    <3> QED
      BY <1>7, <3>1, ShownIsANode, NodesAreNames DEF NoneOr
  <2>2. selectedNode \in NoneOr /\ c.node \in NoneOr
    BY <1>2 DEF TypeInv, TypeOK, NoneOr, Calls
  <2> QED
    BY <1>5, <2>1, <2>2 DEF Selected
<1>9. topology' = t /\ (Ask(s, c, sel) \/ Draw(s, c, t, sel))
  BY <1>3, <1>4, <1>5
<1>10. UNCHANGED <<server, labs, lab, boxes, acts, failures, early>>
  BY DEF Answer
<1> QED
  BY <1>1, <1>2, <1>6, <1>7, <1>8, <1>9, <1>10

LEMMA AnswerTyped ==
  ASSUME TypeInv, NEW s \in Slots, Answer(s)
  PROVE  TypeInv'
<1> USE DEF server, boxes, clock, shown, history
<1>1. PICK c \in Calls, t \in Topologies, sel \in NoneOr :
        /\ c = calls[s] /\ topology' = t
        /\ Ask(s, c, sel) \/ Draw(s, c, t, sel)
        /\ UNCHANGED <<server, labs, lab, boxes, acts, failures, early>>
        /\ lab \in Labs /\ page # "labs" /\ ~Quiet
  BY AnswerSplits
<1>2. lab # NoLab
  BY <1>1, ViewConstantsOK
<1>3. CASE Ask(s, c, sel)
  <2>1. /\ Again(s, c, sel) /\ selectedNode' = sel
        /\ UNCHANGED <<page, clock, shown, prev, crossed>>
    BY <1>3 DEF Ask
  <2>2. [c EXCEPT !.lab = lab, !.since = ver[lab], !.live = liveToggle,
                  !.node = sel, !.force = TRUE] \in Calls
    BY <1>1 DEF Calls, NoneOr, TypeInv, TypeOK
  <2>3. CallsTyped' /\ live' \in BOOLEAN
    BY <2>1, <2>2, RequestSends DEF Again, CallsTyped, TypeInv, TypeOK
  <2> QED
    BY <1>1, <1>2, <2>1, <2>3 DEF TypeInv, TypeOK, CallsTyped, NoneOr
<1>4. CASE Draw(s, c, t, sel)
  <2>1. /\ IF c.skip THEN UNCHANGED <<cy, marked>> ELSE SyncGraph(t) /\ HighlightSelection(sel)
        /\ RenderNodes(t, sel)
        /\ RenderDetail(t, sel, prev)
        /\ EndInit(c)
        /\ calls' = [calls EXCEPT ![s] = NoCall]
        /\ UNCHANGED live
    BY <1>4 DEF Draw
  <2>2. /\ cy' \in [nodes : SUBSET Names, links : SUBSET (Nat \X Nat)]
        /\ marked' \in NoneOr
    BY <1>1, <2>1, NodesAreNames
    DEF SyncGraph, HighlightSelection, OrNone, NoneOr, TypeInv, TypeOK
  <2>3. rows' \in [nodes : SUBSET Names, active : NoneOr]
    BY <2>1, NodesAreNames DEF RenderNodes, OrNone, NoneOr
  <2>4. /\ selectedNode' \in NoneOr
        /\ detail' \in Details \cup {NoDetail}
        /\ prev' \in [Names -> Labs \cup {NoLab}]
        /\ crossed' \in BOOLEAN
    <3>1. PICK sn : sn = prev
      OBVIOUS
    <3> QED
      BY <2>1, <3>1, RenderDetailShows DEF TypeInv, TypeOK
  <2>5. /\ page' \in {page, "ready"} /\ timer' \in BOOLEAN /\ intervals' \in Nat
        /\ timer' => intervals' > 0
    BY <2>1, EndInitTyped
  <2>6. CallsTyped'
    BY <2>1 DEF TypeInv, TypeOK, CallsTyped
  <2> QED
    BY <1>1, <1>2, <2>1, <2>2, <2>3, <2>4, <2>5, <2>6
    DEF TypeInv, TypeOK, CallsTyped, NoneOr
<1> QED
  BY <1>1, <1>3, <1>4

(* A load by a handler that leaves the lab alone.                          *)
LEMMA LoadTyped ==
  ASSUME TypeInv, NEW on \in BOOLEAN, NEW n \in NoneOr, NEW skip \in BOOLEAN,
         Load(lab, on, n, skip, FALSE)
  PROVE  CallsTyped' /\ live' \in BOOLEAN /\ (lab = NoLab => Quiet')
<1>1. PICK l \in Labs \cup {NoLab} : l = lab
  BY DEF TypeInv, TypeOK
<1>2. CallsTyped' /\ live' \in BOOLEAN /\ (l = NoLab => calls' = calls)
  <2>1. Load(l, on, n, skip, FALSE)
    BY <1>1, Zenon
  <2>2. CallsTyped /\ live \in BOOLEAN /\ ver \in [Labs -> 0 .. 1]
    BY DEF TypeInv, TypeOK, CallsTyped
  <2> QED
    BY <2>1, <2>2, LoadSends
<1>3. lab = NoLab => Quiet
  BY DEF TypeInv
<1> QED
  BY <1>1, <1>2, <1>3 DEF Quiet

LEMMA RenderTyped ==
  ASSUME TypeInv, NEW sel \in NoneOr, NEW snapshots \in [Names -> Labs \cup {NoLab}],
         RenderDetail(topology, sel, snapshots)
  PROVE  /\ selectedNode' \in NoneOr
         /\ detail' \in Details \cup {NoDetail}
         /\ prev' \in [Names -> Labs \cup {NoLab}]
         /\ crossed' \in BOOLEAN
<1>1. PICK t \in Topologies \cup {NoTopology} : t = topology
  BY DEF TypeInv, TypeOK
<1> QED
  BY <1>1, RenderDetailShows DEF TypeInv, TypeOK

LEMMA ChooseTyped ==
  ASSUME TypeInv, NEW n \in Names, NEW skip \in BOOLEAN, lab # NoLab, page # "labs",
         Choose(n, skip)
  PROVE  TypeInv'
<1> USE DEF server, boxes, clock, shown, history, Act
<1>1. PICK t \in Topologies \cup {NoTopology} : t = topology
  BY DEF TypeInv, TypeOK
<1>2. /\ marked' \in NoneOr
      /\ rows' \in [nodes : SUBSET Names, active : NoneOr]
  <2>1. rows' = [nodes |-> NodesOf(t), active |-> OrNone(n, NodesOf(t))]
    BY <1>1 DEF Choose, RenderNodes
  <2>2. marked' \in NoneOr
    BY DEF Choose, HighlightSelection, OrNone, NoneOr
  <2> QED
    BY <2>1, <2>2, NodesAreNames DEF OrNone, NoneOr
<1>3. /\ CallsTyped' /\ live' \in BOOLEAN
      /\ selectedNode' \in NoneOr
      /\ detail' \in Details \cup {NoDetail}
      /\ prev' \in [Names -> Labs \cup {NoLab}]
      /\ crossed' \in BOOLEAN
  <2>1. CASE live
    <3>1. LoadNode(n, skip) /\ selectedNode' = n /\ UNCHANGED <<detail, prev, crossed>>
      BY <2>1 DEF Choose
    <3>2. CallsTyped' /\ live' \in BOOLEAN
      BY <3>1, LoadNodeSends DEF TypeInv, TypeOK, CallsTyped, NoneOr
    <3> QED
      BY <3>1, <3>2 DEF TypeInv, TypeOK, NoneOr
  <2>2. CASE ~live
    <3>1. NoRequest /\ RenderDetail(topology, n, prev)
      BY <2>2 DEF Choose
    <3>2. PICK sn \in [Names -> Labs \cup {NoLab}] : sn = prev
      BY DEF TypeInv, TypeOK
    <3>3. n \in NoneOr /\ RenderDetail(topology, n, sn)
      BY <3>1, <3>2 DEF NoneOr
    <3> QED
      BY <3>1, <3>3, RenderTyped DEF NoRequest, TypeInv, TypeOK, CallsTyped
  <2> QED
    BY <2>1, <2>2
<1>4. UNCHANGED <<ver, page, labs, lab, topology, liveToggle, diffToggle, autoRefresh, timer,
                  intervals, failures, early, cy>> /\ acts' \in 0 .. MaxActs
  BY ViewConstantsOK DEF Choose, TypeInv, TypeOK
<1> QED
  BY <1>2, <1>3, <1>4 DEF TypeInv, TypeOK, CallsTyped, NoneOr

LEMMA StopTimerTyped ==
  ASSUME intervals \in Nat, timer => intervals > 0, StopTimer
  PROVE  timer' \in BOOLEAN /\ intervals' \in Nat /\ (timer' => intervals' > 0)
<1>1. CASE timer
  <2>1. intervals > 0 /\ intervals' = intervals - 1
    BY <1>1, Zenon DEF StopTimer
  <2>2. intervals - 1 \in Nat
    BY <2>1
  <2> QED
    BY <2>1, <2>2, Zenon DEF StopTimer
<1>2. CASE ~timer
  BY <1>2, Zenon DEF StopTimer
<1> QED
  BY <1>1, <1>2

LEMMA StartTimerTyped ==
  ASSUME timer \in BOOLEAN, intervals \in Nat, timer => intervals > 0, StartTimer
  PROVE  timer' \in BOOLEAN /\ intervals' \in Nat /\ (timer' => intervals' > 0)
<1>1. CASE timer
  BY <1>1, Zenon DEF StartTimer, clock
<1>2. CASE ~timer
  <2>1. timer' = TRUE /\ intervals' = intervals + 1
    BY <1>2, Zenon DEF StartTimer
  <2>2. intervals' \in Nat /\ intervals' > 0
    BY <2>1
  <2> QED
    BY <2>1, <2>2, Zenon
<1> QED
  BY <1>1, <1>2

LEMMA TypeNext == TypeInv /\ [Next]_vars => TypeInv'
<1> SUFFICES ASSUME TypeInv, [Next]_vars PROVE TypeInv'
  OBVIOUS
<1> USE DEF server, boxes, clock, shown, history, Act
<1>0. /\ CallsTyped /\ selectedNode \in NoneOr /\ NoNode \in NoneOr
      /\ liveToggle \in BOOLEAN /\ MaxActs \in Nat
      /\ NoSnapshots \in [Names -> Labs \cup {NoLab}]
      /\ live \in BOOLEAN /\ ver \in [Labs -> 0 .. 1]
      /\ timer \in BOOLEAN /\ intervals \in Nat /\ (timer => intervals > 0)
  BY ViewConstantsOK DEF TypeInv, TypeOK, CallsTyped, NoneOr, NoSnapshots
<1>1. ASSUME NEW s \in Slots, Answer(s) PROVE TypeInv'
  BY <1>1, AnswerTyped
<1>2. ASSUME NEW s \in Slots, Fail(s) PROVE TypeInv'
  <2>1. calls' \in [Slots -> Calls \cup {NoCall}] /\ (lab = NoLab => Quiet')
    BY <1>2 DEF Fail, TypeInv, TypeOK, Quiet
  <2>2. failures' \in 0 .. MaxFailures /\ page' \in {page, "failed"}
    BY <1>2, ViewConstantsOK DEF Fail, TypeInv, TypeOK
  <2> QED
    BY <1>2, <2>1, <2>2 DEF Fail, TypeInv, TypeOK
<1>3. CASE LoadLabs
  <2>1. PICK ls \in SUBSET Labs :
          /\ page = "labs" /\ labs' = ls
          /\ IF ls = {}
             THEN NoRequest /\ EndInit([init |-> TRUE]) /\ UNCHANGED lab
             ELSE /\ lab' \in ls
                  /\ page' = "topology"
                  /\ Load(lab', liveToggle, selectedNode, FALSE, TRUE)
                  /\ UNCHANGED clock
          /\ UNCHANGED <<server, topology, selectedNode, boxes, shown, prev, acts, failures, history>>
    BY <1>3 DEF LoadLabs
  <2>2. CASE ls = {}
    <3>1. NoRequest /\ EndInit([init |-> TRUE]) /\ UNCHANGED lab
      BY <2>1, <2>2
    <3>2. page' = "ready" /\ timer' \in BOOLEAN /\ intervals' \in Nat /\ (timer' => intervals' > 0)
      BY <3>1 DEF EndInit, TypeInv, TypeOK
    <3> QED
      BY <2>1, <3>1, <3>2 DEF NoRequest, TypeInv, TypeOK, Quiet
  <2>3. CASE ls # {}
    <3>1. PICK l \in Labs : l = lab'
      BY <2>1, <2>3
    <3>2. PICK n \in NoneOr : n = selectedNode
      BY <1>0
    <3>3. PICK on \in BOOLEAN : on = liveToggle
      BY <1>0
    <3>4. Load(l, on, n, FALSE, TRUE) /\ page' = "topology" /\ UNCHANGED clock
      BY <2>1, <2>3, <3>1, <3>2, <3>3
    <3>5. CallsTyped' /\ live' \in BOOLEAN
      BY <1>0, <3>4, LoadSends
    <3>6. /\ lab' \in Labs /\ lab' # NoLab /\ labs' \subseteq Labs
          /\ page' = "topology"
          /\ UNCHANGED <<ver, topology, selectedNode, liveToggle, diffToggle, autoRefresh, timer,
                         intervals, cy, marked, rows, detail, prev, acts, failures, crossed, early>>
      BY <2>1, <3>1, <3>4, ViewConstantsOK
    <3> QED
      BY <3>5, <3>6 DEF TypeInv, TypeOK, CallsTyped
  <2> QED
    BY <2>2, <2>3
<1>4. CASE LoadLabsFails
  BY <1>4, ViewConstantsOK DEF LoadLabsFails, TypeInv, TypeOK, Quiet
<1>5. CASE Tick
  <2>1. CallsTyped' /\ live' \in BOOLEAN /\ (lab = NoLab => Quiet')
    BY <1>0, <1>5, LoadTyped DEF Tick
  <2> QED
    BY <1>5, <2>1 DEF Tick, TypeInv, TypeOK, CallsTyped
<1>6. ASSUME NEW l \in Labs, SelectLab(l) PROVE TypeInv'
  <2>1. CallsTyped' /\ live' \in BOOLEAN
    <3>1. PICK on \in BOOLEAN : on = liveToggle
      BY <1>0
    <3>2. Load(l, on, NoNode, FALSE, FALSE)
      BY <1>6, <3>1 DEF SelectLab
    <3> QED
      BY <1>0, <3>2, LoadSends
  <2>2. page # "labs" /\ acts' \in 0 .. MaxActs
    BY <1>0, <1>6 DEF SelectLab, TypeInv, TypeOK
  <2>3. /\ lab' = l /\ l # NoLab
        /\ selectedNode' = NoNode /\ prev' = NoSnapshots
        /\ UNCHANGED <<ver, page, labs, topology, liveToggle, diffToggle, autoRefresh, timer,
                       intervals, cy, marked, rows, detail, failures, crossed, early>>
    BY <1>6, ViewConstantsOK DEF SelectLab
  <2> QED
    BY <1>0, <2>1, <2>2, <2>3 DEF TypeInv, TypeOK, CallsTyped
<1>7. ASSUME NEW l \in Labs, Redeploy(l) PROVE TypeInv'
  <2>1. ver' \in [Labs -> 0 .. 1] /\ acts' \in 0 .. MaxActs
    BY <1>0, <1>7 DEF Redeploy, TypeInv, TypeOK
  <2> QED
    BY <1>7, <2>1 DEF Redeploy, NoRequest, TypeInv, TypeOK, Quiet
<1>8. CASE Refresh
  <2>1. CallsTyped' /\ live' \in BOOLEAN /\ (lab = NoLab => Quiet')
    BY <1>0, <1>8, LoadTyped DEF Refresh
  <2>2. acts' \in 0 .. MaxActs
    BY <1>0, <1>8 DEF Refresh, TypeInv, TypeOK
  <2> QED
    BY <1>8, <2>1, <2>2 DEF Refresh, TypeInv, TypeOK, CallsTyped
<1>9. CASE ToggleLive
  <2>1. CallsTyped' /\ live' \in BOOLEAN /\ (lab = NoLab => Quiet')
    BY <1>0, <1>9, LoadTyped DEF ToggleLive
  <2>2. acts' \in 0 .. MaxActs /\ liveToggle' \in BOOLEAN
    BY <1>0, <1>9 DEF ToggleLive, TypeInv, TypeOK
  <2> QED
    BY <1>0, <1>9, <2>1, <2>2 DEF ToggleLive, TypeInv, TypeOK, CallsTyped
<1>10. CASE ToggleDiff
  <2>1. PICK sn \in [Names -> Labs \cup {NoLab}] : sn = IF diffToggle THEN NoSnapshots ELSE prev
    BY <1>0 DEF TypeInv, TypeOK
  <2>2. PICK n \in NoneOr : n = selectedNode
    BY <1>0
  <2>3. RenderDetail(topology, n, sn)
    BY <1>10, <2>1, <2>2 DEF ToggleDiff
  <2>4. /\ selectedNode' \in NoneOr /\ detail' \in Details \cup {NoDetail}
        /\ prev' \in [Names -> Labs \cup {NoLab}] /\ crossed' \in BOOLEAN
    BY <2>3, RenderTyped
  <2>5. acts' \in 0 .. MaxActs /\ diffToggle' \in BOOLEAN
    BY <1>0, <1>10 DEF ToggleDiff, TypeInv, TypeOK
  <2> QED
    BY <1>10, <2>4, <2>5 DEF ToggleDiff, NoRequest, TypeInv, TypeOK, Quiet, NoneOr
<1>11. CASE ToggleAuto
  <2>1. timer' \in BOOLEAN /\ intervals' \in Nat /\ (timer' => intervals' > 0)
    BY <1>0, <1>11, StopTimerTyped, StartTimerTyped DEF ToggleAuto
  <2>2. acts' \in 0 .. MaxActs /\ autoRefresh' \in BOOLEAN /\ early' \in BOOLEAN
    BY <1>0, <1>11 DEF ToggleAuto, TypeInv, TypeOK
  <2> QED
    BY <1>11, <2>1, <2>2 DEF ToggleAuto, NoRequest, TypeInv, TypeOK, Quiet
<1>12. CASE Fold
  <2>1. PICK sn \in [Names -> Labs \cup {NoLab}] : sn = prev
    BY DEF TypeInv, TypeOK
  <2>2. PICK n \in NoneOr : n = selectedNode
    BY <1>0
  <2>3. RenderDetail(topology, n, sn)
    BY <1>12, <2>1, <2>2 DEF Fold
  <2>4. /\ selectedNode' \in NoneOr /\ detail' \in Details \cup {NoDetail}
        /\ prev' \in [Names -> Labs \cup {NoLab}] /\ crossed' \in BOOLEAN
    BY <2>3, RenderTyped
  <2>5. acts' \in 0 .. MaxActs
    BY <1>0, <1>12 DEF Fold, TypeInv, TypeOK
  <2> QED
    BY <1>12, <2>4, <2>5 DEF Fold, NoRequest, TypeInv, TypeOK, Quiet, NoneOr
<1>13. ASSUME NEW n \in Names, TapNode(n) PROVE TypeInv'
  BY <1>13, ChooseTyped DEF TapNode, TypeInv
<1>14. ASSUME NEW n \in Names, ClickRow(n) PROVE TypeInv'
  BY <1>14, ChooseTyped DEF ClickRow, TypeInv
<1>15. ASSUME NEW n \in Names, OpenTerminal(n) PROVE TypeInv'
  BY <1>15, ChooseTyped DEF OpenTerminal, TypeInv
<1>16. CASE UNCHANGED vars
  BY <1>16 DEF vars, TypeInv, TypeOK, Quiet
<1> QED
  BY <1>1, <1>2, <1>3, <1>4, <1>5, <1>6, <1>7, <1>8, <1>9, <1>10, <1>11, <1>12, <1>13, <1>14,
     <1>15, <1>16
  DEF Next, User

LEMMA TypeInit == Init => TypeInv
<1> SUFFICES ASSUME Init PROVE TypeInv
  OBVIOUS
<1> USE ViewConstantsOK DEF Init, Empty
<1>1. calls \in [Slots -> Calls \cup {NoCall}] /\ Quiet
  BY DEF Quiet
<1>2. /\ cy \in [nodes : SUBSET Names, links : SUBSET (Nat \X Nat)]
      /\ rows \in [nodes : SUBSET Names, active : Names \cup {NoNode}]
      /\ cy.nodes = {} /\ rows.nodes = {}
  OBVIOUS
<1>3. /\ ver \in [Labs -> 0 .. 1] /\ prev \in [Names -> Labs \cup {NoLab}]
      /\ acts \in 0 .. MaxActs /\ failures \in 0 .. MaxFailures
  OBVIOUS
<1> QED
  BY <1>1, <1>2, <1>3 DEF TypeInv, TypeOK

LEMMA TypeInvariant == Spec => []TypeInv
BY TypeInit, TypeNext, PTL DEF Spec

(* TypeOK: no step draws a node that no shape of a lab has, and none stops *)
(* an interval that does not run.                                          *)
THEOREM TypeCorrect == Spec => []TypeOK
<1>1. TypeInv => TypeOK
  BY DEF TypeInv
<1> QED
  BY <1>1, TypeInvariant, PTL

-----------------------------------------------------------------------------
(* Details follow the selection.  The property is inductive as it stands:  *)
(* whoever selects a node without showing it sends a request.              *)

LEMMA LoadKeepsDetail ==
  ASSUME TypeInv, DetailFollowsSelection, NEW on \in BOOLEAN, NEW n \in NoneOr,
         NEW skip \in BOOLEAN, Load(lab, on, n, skip, FALSE),
         lab = NoLab => selectedNode' = selectedNode,
         UNCHANGED <<topology, detail, failures>>
  PROVE  DetailFollowsSelection'
<1>1. PICK l \in Labs \cup {NoLab} : l = lab
  BY DEF TypeInv, TypeOK
<1>2. /\ l = NoLab => calls' = calls
      /\ l # NoLab => ~Quiet'
  <2>1. Load(l, on, n, skip, FALSE)
    BY <1>1, Zenon
  <2>2. CallsTyped /\ live \in BOOLEAN /\ ver \in [Labs -> 0 .. 1]
    BY DEF TypeInv, TypeOK, CallsTyped
  <2> QED
    BY <2>1, <2>2, LoadSends
<1>3. CASE l = NoLab
  BY <1>1, <1>2, <1>3 DEF DetailFollowsSelection, Quiet, NodesOf
<1>4. CASE l # NoLab
  BY <1>2, <1>4 DEF DetailFollowsSelection
<1> QED
  BY <1>3, <1>4

LEMMA RenderFollows ==
  ASSUME TypeInv, NEW t \in Topologies \cup {NoTopology}, NEW sel \in NoneOr,
         NEW snapshots \in [Names -> Labs \cup {NoLab}], RenderDetail(t, sel, snapshots),
         topology' = t
  PROVE  DetailFollowsSelection'
<1>1. NodesOf(t) # {} => detail'.node = selectedNode'
  BY RenderDetailShows DEF TypeInv, TypeOK
<1> QED
  BY <1>1 DEF DetailFollowsSelection, NodesOf

LEMMA ChooseFollows ==
  ASSUME TypeInv, NEW n \in Names, NEW skip \in BOOLEAN, lab # NoLab, Choose(n, skip)
  PROVE  DetailFollowsSelection'
<1>1. CASE live
  <2>1. LoadNode(n, skip)
    BY <1>1 DEF Choose
  <2>2. ~Quiet'
    BY <2>1, LoadNodeSends DEF TypeInv, TypeOK, CallsTyped, NoneOr
  <2> QED
    BY <2>2 DEF DetailFollowsSelection
<1>2. CASE ~live
  <2>1. PICK t \in Topologies \cup {NoTopology} : t = topology
    BY DEF TypeInv, TypeOK
  <2>2. PICK sn \in [Names -> Labs \cup {NoLab}] : sn = prev
    BY DEF TypeInv, TypeOK
  <2>3. n \in NoneOr /\ RenderDetail(t, n, sn) /\ topology' = t
    BY <1>2, <2>1, <2>2 DEF Choose, NoneOr
  <2> QED
    BY <2>3, RenderFollows
<1> QED
  BY <1>1, <1>2

LEMMA DetailNext == TypeInv /\ DetailFollowsSelection /\ [Next]_vars => DetailFollowsSelection'
<1> SUFFICES ASSUME TypeInv, DetailFollowsSelection, [Next]_vars PROVE DetailFollowsSelection'
  OBVIOUS
<1> USE DEF server, boxes, clock, shown, history
<1>0. /\ selectedNode \in NoneOr /\ NoNode \in NoneOr /\ liveToggle \in BOOLEAN
      /\ topology \in Topologies \cup {NoTopology}
      /\ NoSnapshots \in [Names -> Labs \cup {NoLab}] /\ prev \in [Names -> Labs \cup {NoLab}]
  BY DEF TypeInv, TypeOK, NoneOr, NoSnapshots
<1>1. ASSUME NEW s \in Slots, Answer(s) PROVE DetailFollowsSelection'
  <2>1. PICK c \in Calls, t \in Topologies, sel \in NoneOr :
          /\ topology' = t
          /\ Ask(s, c, sel) \/ Draw(s, c, t, sel)
          /\ lab \in Labs
    BY <1>1, AnswerSplits
  <2>2. CASE Ask(s, c, sel)
    <3>1. [c EXCEPT !.lab = lab, !.since = ver[lab], !.live = liveToggle,
                    !.node = sel, !.force = TRUE] \in Calls
      BY <2>1 DEF Calls, NoneOr, TypeInv, TypeOK
    <3>2. ~Quiet'
      BY <2>2, <3>1, RequestSends DEF Ask, Again, CallsTyped, TypeInv, TypeOK
    <3> QED
      BY <3>2 DEF DetailFollowsSelection
  <2>3. CASE Draw(s, c, t, sel)
    <3>1. PICK sn \in [Names -> Labs \cup {NoLab}] : sn = prev
      BY <1>0
    <3>2. RenderDetail(t, sel, sn)
      BY <2>3, <3>1 DEF Draw
    <3> QED
      BY <2>1, <3>2, RenderFollows
  <2> QED
    BY <2>1, <2>2, <2>3
<1>2. ASSUME NEW s \in Slots, Fail(s) PROVE DetailFollowsSelection'
  <2>1. failures' # 0
    BY <1>2 DEF Fail, TypeInv, TypeOK
  <2> QED
    BY <2>1 DEF DetailFollowsSelection
<1>3. CASE LoadLabs
  <2>1. UNCHANGED <<topology, selectedNode, detail, failures>>
    BY <1>3 DEF LoadLabs
  <2>2. calls' = calls \/ ~Quiet'
    <3>1. CASE labs' = {}
      BY <1>3, <3>1 DEF LoadLabs, NoRequest
    <3>2. CASE labs' # {}
      <4>1. PICK l \in Labs : /\ l = lab'
                              /\ Load(lab', liveToggle, selectedNode, FALSE, TRUE)
        BY <1>3, <3>2 DEF LoadLabs
      <4>2. PICK on \in BOOLEAN, n \in NoneOr : on = liveToggle /\ n = selectedNode
        BY <1>0
      <4>3. Load(l, on, n, FALSE, TRUE)
        BY <4>1, <4>2
      <4>4. CallsTyped /\ live \in BOOLEAN /\ ver \in [Labs -> 0 .. 1] /\ l # NoLab
        BY ViewConstantsOK DEF TypeInv, TypeOK, CallsTyped
      <4> QED
        BY <4>3, <4>4, LoadSends
    <3> QED
      BY <3>1, <3>2
  <2> QED
    BY <2>1, <2>2 DEF DetailFollowsSelection, Quiet, NodesOf
<1>4. CASE LoadLabsFails
  <2>1. failures' # 0
    BY <1>4 DEF LoadLabsFails, TypeInv, TypeOK
  <2> QED
    BY <2>1 DEF DetailFollowsSelection
<1>5. CASE Tick
  BY <1>0, <1>5, LoadKeepsDetail DEF Tick
<1>6. ASSUME NEW l \in Labs, SelectLab(l) PROVE DetailFollowsSelection'
  <2>1. PICK on \in BOOLEAN : on = liveToggle
    BY <1>0
  <2>2. Load(l, on, NoNode, FALSE, FALSE) /\ l # NoLab
    BY <1>6, <2>1, ViewConstantsOK DEF SelectLab
  <2>3. CallsTyped /\ live \in BOOLEAN /\ ver \in [Labs -> 0 .. 1]
    BY DEF TypeInv, TypeOK, CallsTyped
  <2>4. ~Quiet'
    BY <1>0, <2>2, <2>3, LoadSends
  <2> QED
    BY <2>4 DEF DetailFollowsSelection
<1>7. ASSUME NEW l \in Labs, Redeploy(l) PROVE DetailFollowsSelection'
  BY <1>7 DEF Redeploy, NoRequest, DetailFollowsSelection, Quiet, NodesOf
<1>8. CASE Refresh
  BY <1>0, <1>8, LoadKeepsDetail DEF Refresh
<1>9. CASE ToggleLive
  BY <1>0, <1>9, LoadKeepsDetail DEF ToggleLive
<1>10. CASE ToggleDiff
  <2>1. PICK sn \in [Names -> Labs \cup {NoLab}] : sn = IF diffToggle THEN NoSnapshots ELSE prev
    BY <1>0
  <2>2. PICK t \in Topologies \cup {NoTopology}, n \in NoneOr : t = topology /\ n = selectedNode
    BY <1>0
  <2>3. RenderDetail(t, n, sn) /\ topology' = t
    BY <1>10, <2>1, <2>2 DEF ToggleDiff
  <2> QED
    BY <2>3, RenderFollows
<1>11. CASE ToggleAuto
  BY <1>11 DEF ToggleAuto, NoRequest, DetailFollowsSelection, Quiet, NodesOf
<1>12. CASE Fold
  <2>1. PICK t \in Topologies \cup {NoTopology}, n \in NoneOr : t = topology /\ n = selectedNode
    BY <1>0
  <2>2. PICK sn \in [Names -> Labs \cup {NoLab}] : sn = prev
    BY <1>0
  <2>3. RenderDetail(t, n, sn) /\ topology' = t
    BY <1>12, <2>1, <2>2 DEF Fold
  <2> QED
    BY <2>3, RenderFollows
<1>13. ASSUME NEW n \in Names, TapNode(n) PROVE DetailFollowsSelection'
  BY <1>13, ChooseFollows DEF TapNode, TypeInv
<1>14. ASSUME NEW n \in Names, ClickRow(n) PROVE DetailFollowsSelection'
  BY <1>14, ChooseFollows DEF ClickRow, TypeInv
<1>15. ASSUME NEW n \in Names, OpenTerminal(n) PROVE DetailFollowsSelection'
  BY <1>15, ChooseFollows DEF OpenTerminal, TypeInv
<1>16. CASE UNCHANGED vars
  BY <1>16 DEF vars, DetailFollowsSelection, Quiet, NodesOf
<1> QED
  BY <1>1, <1>2, <1>3, <1>4, <1>5, <1>6, <1>7, <1>8, <1>9, <1>10, <1>11, <1>12, <1>13, <1>14,
     <1>15, <1>16
  DEF Next, User

(* DetailFollowsSelection, for any labs and any number of requests that    *)
(* overlap: the last thing to happen to a selection is that it is shown.   *)
THEOREM SelectionIsDetailed == Spec => []DetailFollowsSelection
<1>1. Init => DetailFollowsSelection
  BY DEF Init, DetailFollowsSelection, NodesOf, NoTopology
<1> QED
  BY <1>1, DetailNext, TypeInvariant, PTL DEF Spec

-----------------------------------------------------------------------------
(* Snapshots are of the selected lab.                                      *)

LEMMA RenderKeepsDiff ==
  ASSUME TypeInv, NEW t \in Topologies \cup {NoTopology}, NEW sel \in NoneOr,
         NEW snapshots \in [Names -> Labs \cup {NoLab}], RenderDetail(t, sel, snapshots),
         ~crossed => \A n \in Names : snapshots[n] \in {lab, NoLab},
         lab' = lab
  PROVE  DiffWithinLab'
<1>1. ~crossed' => ~crossed /\ \A m \in Names : prev'[m] \in {snapshots[m], lab}
  BY RenderDetailShows DEF TypeInv, TypeOK
<1> QED
  BY <1>1 DEF DiffWithinLab

LEMMA DiffNext == TypeInv /\ DiffWithinLab /\ [Next]_vars => DiffWithinLab'
<1> SUFFICES ASSUME TypeInv, DiffWithinLab, [Next]_vars PROVE DiffWithinLab'
  OBVIOUS
<1> USE DEF server, boxes, clock, shown, history
<1>0. PICK t0 \in Topologies \cup {NoTopology}, n0 \in NoneOr, sn \in [Names -> Labs \cup {NoLab}] :
        t0 = topology /\ n0 = selectedNode /\ sn = prev
  BY DEF TypeInv, TypeOK, NoneOr
<1>a. ~crossed => \A n \in Names : sn[n] \in {lab, NoLab}
  BY <1>0 DEF DiffWithinLab
<1>b. ASSUME UNCHANGED <<lab, prev, crossed>> PROVE DiffWithinLab'
  BY <1>b DEF DiffWithinLab
<1>c. ASSUME NEW n \in Names, NEW skip \in BOOLEAN, Choose(n, skip) PROVE DiffWithinLab'
  <2>1. CASE live
    BY <1>b, <1>c, <2>1 DEF Choose
  <2>2. CASE ~live
    <3>1. RenderDetail(t0, n, sn) /\ lab' = lab /\ n \in NoneOr
      BY <1>0, <1>c, <2>2 DEF Choose, NoneOr
    <3> QED
      BY <1>a, <3>1, RenderKeepsDiff
  <2> QED
    BY <2>1, <2>2
<1>1. ASSUME NEW s \in Slots, Answer(s) PROVE DiffWithinLab'
  <2>1. PICK c \in Calls, t \in Topologies, sel \in NoneOr :
          /\ Ask(s, c, sel) \/ Draw(s, c, t, sel)
          /\ lab' = lab
    BY <1>1, AnswerSplits
  <2>2. CASE Ask(s, c, sel)
    BY <1>b, <2>1, <2>2 DEF Ask
  <2>3. CASE Draw(s, c, t, sel)
    <3>1. RenderDetail(t, sel, sn)
      BY <1>0, <2>3 DEF Draw
    <3> QED
      BY <1>a, <2>1, <3>1, RenderKeepsDiff
  <2> QED
    BY <2>1, <2>2, <2>3
<1>2. ASSUME NEW s \in Slots, Fail(s) PROVE DiffWithinLab'
  BY <1>b, <1>2 DEF Fail
<1>3. CASE LoadLabs
  <2>1. lab = NoLab /\ UNCHANGED <<prev, crossed>>
    BY <1>3 DEF LoadLabs, TypeInv
  <2> QED
    BY <2>1 DEF DiffWithinLab
<1>4. CASE LoadLabsFails
  BY <1>b, <1>4 DEF LoadLabsFails
<1>5. CASE Tick
  BY <1>b, <1>5 DEF Tick
<1>6. ASSUME NEW l \in Labs, SelectLab(l) PROVE DiffWithinLab'
  BY <1>6 DEF SelectLab, DiffWithinLab, NoSnapshots
<1>7. ASSUME NEW l \in Labs, Redeploy(l) PROVE DiffWithinLab'
  BY <1>b, <1>7 DEF Redeploy
<1>8. CASE Refresh
  BY <1>b, <1>8 DEF Refresh
<1>9. CASE ToggleLive
  BY <1>9 DEF ToggleLive, DiffWithinLab, NoSnapshots
<1>10. CASE ToggleDiff
  <2>1. PICK ds \in [Names -> Labs \cup {NoLab}] : ds = IF diffToggle THEN NoSnapshots ELSE sn
    BY DEF NoSnapshots
  <2>2. RenderDetail(t0, n0, ds) /\ lab' = lab
    BY <1>0, <1>10, <2>1 DEF ToggleDiff
  <2>3. ~crossed => \A n \in Names : ds[n] \in {lab, NoLab}
    BY <1>a, <2>1 DEF NoSnapshots
  <2> QED
    BY <2>2, <2>3, RenderKeepsDiff
<1>11. CASE ToggleAuto
  BY <1>b, <1>11 DEF ToggleAuto
<1>12. CASE Fold
  <2>1. RenderDetail(t0, n0, sn) /\ lab' = lab
    BY <1>0, <1>12 DEF Fold
  <2> QED
    BY <1>a, <2>1, RenderKeepsDiff
<1>13. ASSUME NEW n \in Names, TapNode(n) \/ ClickRow(n) \/ OpenTerminal(n) PROVE DiffWithinLab'
  BY <1>c, <1>13 DEF TapNode, ClickRow, OpenTerminal
<1>14. CASE UNCHANGED vars
  BY <1>b, <1>14 DEF vars
<1> QED
  BY <1>1, <1>2, <1>3, <1>4, <1>5, <1>6, <1>7, <1>8, <1>9, <1>10, <1>11, <1>12, <1>13, <1>14
  DEF Next, User

(* DiffWithinLab: no difference is shown between nodes of two labs, unless *)
(* a late answer was drawn over the new lab.                               *)
THEOREM DiffsStayInTheirLab == Spec => []DiffWithinLab
<1>1. Init => DiffWithinLab
  BY DEF Init, DiffWithinLab
<1> QED
  BY <1>1, DiffNext, TypeInvariant, PTL DEF Spec

-----------------------------------------------------------------------------
(* Intervals are held.  At most one request is that of init, which is at   *)
(* its last step then; and before init ends, an interval runs only if the  *)
(* user started it.                                                        *)

OfInit(s) == calls[s] # NoCall /\ calls[s].init
Early == page \in {"labs", "topology"}

HeldInv ==
  /\ EveryIntervalIsHeld
  /\ timer => autoRefresh
  /\ Early => early \/ ~timer
  /\ \A s \in Slots : OfInit(s) => page = "topology"
  /\ \A s, r \in Slots : OfInit(s) /\ OfInit(r) => s = r

(* A step that makes no request for init, and leaves the timer alone.      *)
LEMMA HeldKept ==
  ASSUME HeldInv, \A s \in Slots : OfInit(s)' => OfInit(s),
         UNCHANGED <<page, timer, intervals, autoRefresh, early>>
  PROVE  HeldInv'
BY DEF HeldInv, EveryIntervalIsHeld, Early

LEMMA RequestOfInit ==
  ASSUME CallsTyped, NEW s \in Slots, NEW c \in Calls, Request(s, c), c.init => OfInit(s)
  PROVE  \A r \in Slots : OfInit(r)' => OfInit(r)
BY DEF Request, OfInit, CallsTyped

LEMMA LoadOfInit ==
  ASSUME CallsTyped, ver \in [Labs -> 0 .. 1], NEW l \in Labs \cup {NoLab}, NEW on \in BOOLEAN,
         NEW n \in NoneOr, NEW skip \in BOOLEAN, Load(l, on, n, skip, FALSE)
  PROVE  \A s \in Slots : OfInit(s)' => OfInit(s)
<1>1. CASE l = NoLab
  BY <1>1 DEF Load, NoRequest, OfInit
<1>2. CASE l # NoLab
  <2> DEFINE c == [lab |-> l, since |-> ver[l], live |-> on, node |-> n,
                   force |-> FALSE, skip |-> skip, init |-> FALSE]
  <2>1. Request(NextSlot, c) /\ NextSlot \in Slots
    BY <1>2, NextSlotIsFree DEF Load
  <2>2. c \in Calls /\ ~c.init
    BY <1>2 DEF Calls, NoneOr
  <2> HIDE DEF c
  <2> QED
    BY <2>1, <2>2, RequestOfInit
<1> QED
  BY <1>1, <1>2

LEMMA LoadNodeOfInit ==
  ASSUME CallsTyped, ver \in [Labs -> 0 .. 1], lab \in Labs, liveToggle \in BOOLEAN,
         NEW n \in NoneOr, NEW skip \in BOOLEAN, LoadNode(n, skip)
  PROVE  \A s \in Slots : OfInit(s)' => OfInit(s)
<1> DEFINE c == [lab |-> lab, since |-> ver[lab], live |-> liveToggle, node |-> n,
                 force |-> TRUE, skip |-> skip, init |-> FALSE]
<1>1. Request(NextSlot, c) /\ NextSlot \in Slots
  BY NextSlotIsFree DEF LoadNode
<1>2. c \in Calls /\ ~c.init
  BY DEF Calls, NoneOr
<1> HIDE DEF c
<1> QED
  BY <1>1, <1>2, RequestOfInit

LEMMA EndInitHeld ==
  ASSUME HeldInv, Early, autoRefresh \in BOOLEAN, timer \in BOOLEAN,
         NEW c, c.init, EndInit(c),
         UNCHANGED <<autoRefresh, early>>, \A s \in Slots : ~OfInit(s)'
  PROVE  HeldInv'
<1>1. /\ page' = "ready" /\ timer' = (timer \/ autoRefresh)
      /\ intervals' = IF autoRefresh THEN intervals + 1 ELSE intervals
  BY DEF EndInit
<1>2. timer' = autoRefresh'
  BY <1>1, Zenon DEF HeldInv
<1>3. early' \/ intervals' = IF timer' THEN 1 ELSE 0
  <2>1. CASE early
    BY <2>1
  <2>2. CASE ~early
    <3>1. ~timer /\ intervals = 0
      BY <2>2, Zenon DEF HeldInv, EveryIntervalIsHeld
    <3>2. CASE autoRefresh
      <4>1. intervals' = intervals + 1 /\ timer'
        BY <1>1, <3>2, Zenon
      <4>2. intervals' = 1
        BY <3>1, <4>1
      <4> QED
        BY <4>1, <4>2, Zenon
    <3>3. CASE ~autoRefresh
      BY <1>1, <3>1, <3>3, Zenon
    <3> QED
      BY <3>2, <3>3
  <2> QED
    BY <2>1, <2>2
<1>4. ~Early'
  BY <1>1 DEF Early
<1> QED
  BY <1>2, <1>3, <1>4, Zenon DEF HeldInv, EveryIntervalIsHeld

LEMMA ToggleAutoHeld ==
  ASSUME TypeInv, HeldInv, ToggleAuto
  PROVE  HeldInv'
<1>0. /\ timer \in BOOLEAN /\ autoRefresh \in BOOLEAN /\ early \in BOOLEAN
      /\ page' = page /\ calls' = calls
      /\ autoRefresh' = ~autoRefresh
      /\ early' = (early \/ (~autoRefresh /\ Early))
  BY DEF ToggleAuto, NoRequest, TypeInv, TypeOK, Early
<1>1. \A s \in Slots : OfInit(s)' <=> OfInit(s)
  BY <1>0 DEF OfInit
<1>2. Early' <=> Early
  BY <1>0 DEF Early
<1>3. /\ timer' = autoRefresh'
      /\ early' \/ intervals' = IF timer' THEN 1 ELSE 0
  <2>1. CASE autoRefresh
    <3>1. timer' = FALSE /\ intervals' = IF timer THEN intervals - 1 ELSE intervals
      BY <2>1, Zenon DEF ToggleAuto, StopTimer
    <3>2. CASE timer
      <4>1. early' \/ intervals = 1
        BY <1>0, <3>2, Zenon DEF HeldInv, EveryIntervalIsHeld
      <4>2. intervals' = intervals - 1
        BY <3>1, <3>2, Zenon
      <4>3. early' \/ intervals' = 0
        BY <4>1, <4>2
      <4> QED
        BY <1>0, <2>1, <3>1, <4>3, Zenon
    <3>3. CASE ~timer
      BY <1>0, <2>1, <3>1, <3>3, Zenon DEF HeldInv, EveryIntervalIsHeld
    <3> QED
      BY <3>2, <3>3
  <2>2. CASE ~autoRefresh
    <3>1. ~timer
      BY <2>2, Zenon DEF HeldInv
    <3>2. timer' = TRUE /\ intervals' = intervals + 1
      BY <2>2, <3>1, Zenon DEF ToggleAuto, StartTimer
    <3>3. early' \/ intervals = 0
      BY <1>0, <3>1, Zenon DEF HeldInv, EveryIntervalIsHeld
    <3>4. early' \/ intervals' = 1
      BY <3>2, <3>3
    <3> QED
      BY <1>0, <2>2, <3>2, <3>4, Zenon
  <2> QED
    BY <2>1, <2>2
<1>4. Early' => early' \/ ~timer'
  <2>1. CASE autoRefresh
    BY <1>0, <1>3, <2>1, Zenon
  <2>2. CASE ~autoRefresh
    BY <1>0, <1>2, <2>2, Zenon
  <2> QED
    BY <2>1, <2>2
<1>5. /\ \A s \in Slots : OfInit(s)' => page' = "topology"
      /\ \A s, r \in Slots : OfInit(s)' /\ OfInit(r)' => s = r
  BY <1>0, <1>1, Zenon DEF HeldInv
<1> QED
  BY <1>3, <1>4, <1>5, Zenon DEF HeldInv, EveryIntervalIsHeld

LEMMA HeldNext == TypeInv /\ HeldInv /\ [Next]_vars => HeldInv'
<1> SUFFICES ASSUME TypeInv, HeldInv, [Next]_vars PROVE HeldInv'
  OBVIOUS
<1> USE DEF server, boxes, clock, shown, history
<1>0. /\ CallsTyped /\ ver \in [Labs -> 0 .. 1] /\ NoNode \in NoneOr
      /\ timer \in BOOLEAN /\ autoRefresh \in BOOLEAN
  BY DEF TypeInv, TypeOK, CallsTyped, NoneOr
<1>a. PICK l0 \in Labs \cup {NoLab}, on \in BOOLEAN, n0 \in NoneOr :
        l0 = lab /\ on = liveToggle /\ n0 = selectedNode
  BY DEF TypeInv, TypeOK, NoneOr
<1>b. ASSUME calls' = calls, UNCHANGED <<page, timer, intervals, autoRefresh, early>> PROVE HeldInv'
  BY <1>b, HeldKept DEF OfInit
<1>c. ASSUME NEW b \in BOOLEAN, NEW skip \in BOOLEAN, Load(l0, b, n0, skip, FALSE),
             UNCHANGED <<page, timer, intervals, autoRefresh, early>>
      PROVE  HeldInv'
  BY <1>0, <1>c, LoadOfInit, HeldKept
<1>d. ASSUME NEW n \in Names, NEW skip \in BOOLEAN, lab # NoLab, Choose(n, skip) PROVE HeldInv'
  <2>1. UNCHANGED <<page, timer, intervals, autoRefresh, early>>
    BY <1>d DEF Choose
  <2>2. CASE live
    <3>1. LoadNode(n, skip)
      BY <1>d, <2>2 DEF Choose
    <3>2. lab \in Labs /\ liveToggle \in BOOLEAN /\ n \in NoneOr
      BY <1>d DEF TypeInv, TypeOK, NoneOr
    <3> QED
      BY <1>0, <2>1, <3>1, <3>2, LoadNodeOfInit, HeldKept
  <2>3. CASE ~live
    BY <1>b, <1>d, <2>1, <2>3 DEF Choose, NoRequest
  <2> QED
    BY <2>2, <2>3
<1>1. ASSUME NEW s \in Slots, Answer(s) PROVE HeldInv'
  <2>1. PICK c \in Calls, t \in Topologies, sel \in NoneOr :
          /\ c = calls[s]
          /\ Ask(s, c, sel) \/ Draw(s, c, t, sel)
          /\ UNCHANGED <<autoRefresh, early>>
          /\ lab \in Labs
    BY <1>1, AnswerSplits
  <2>2. c.init => OfInit(s)
    BY <2>1, CallsAreCalls DEF OfInit
  <2>3. CASE Ask(s, c, sel)
    <3> DEFINE again == [c EXCEPT !.lab = lab, !.since = ver[lab], !.live = liveToggle,
                                  !.node = sel, !.force = TRUE]
    <3>1. Request(s, again) /\ UNCHANGED <<page, timer, intervals>>
      BY <2>3 DEF Ask, Again
    <3>2. again \in Calls /\ again.init = c.init
      BY <2>1 DEF Calls, NoneOr, TypeInv, TypeOK
    <3> HIDE DEF again
    <3>3. \A r \in Slots : OfInit(r)' => OfInit(r)
      BY <1>0, <2>2, <3>1, <3>2, RequestOfInit
    <3> QED
      BY <2>1, <3>1, <3>3, HeldKept
  <2>4. CASE Draw(s, c, t, sel)
    <3>1. EndInit(c) /\ calls' = [calls EXCEPT ![s] = NoCall]
      BY <2>4 DEF Draw
    <3>2. \A r \in Slots : OfInit(r)' => OfInit(r) /\ r # s
      BY <1>0, <3>1 DEF OfInit, CallsTyped
    <3>3. CASE c.init
      <4>1. Early /\ \A r \in Slots : ~OfInit(r)'
        BY <2>2, <3>2, <3>3 DEF HeldInv, Early
      <4> QED
        BY <1>0, <2>1, <3>1, <3>3, <4>1, EndInitHeld
    <3>4. CASE ~c.init
      <4>1. UNCHANGED <<page, timer, intervals>>
        BY <3>1, <3>4 DEF EndInit
      <4> QED
        BY <2>1, <3>2, <4>1, HeldKept
    <3> QED
      BY <3>3, <3>4
  <2> QED
    BY <2>1, <2>3, <2>4
<1>2. ASSUME NEW s \in Slots, Fail(s) PROVE HeldInv'
  <2>1. \A r \in Slots : OfInit(r)' => OfInit(r) /\ r # s
    BY <1>0, <1>2 DEF Fail, OfInit, CallsTyped
  <2>2. UNCHANGED <<timer, intervals, autoRefresh, early>>
    BY <1>2 DEF Fail
  <2>3. CASE calls[s].init
    <3>1. page' = "failed" /\ OfInit(s)
      BY <1>2, <2>3 DEF Fail, OfInit
    <3>2. \A r \in Slots : ~OfInit(r)'
      BY <2>1, <3>1 DEF HeldInv
    <3> QED
      BY <2>2, <3>1, <3>2 DEF HeldInv, EveryIntervalIsHeld, Early
  <2>4. CASE ~calls[s].init
    <3>1. page' = page
      BY <1>2, <2>4 DEF Fail
    <3> QED
      BY <2>1, <2>2, <3>1, HeldKept
  <2> QED
    BY <2>3, <2>4
<1>3. CASE LoadLabs
  <2>1. PICK ls \in SUBSET Labs :
          /\ page = "labs"
          /\ IF ls = {}
             THEN NoRequest /\ EndInit([init |-> TRUE]) /\ UNCHANGED lab
             ELSE /\ lab' \in ls
                  /\ page' = "topology"
                  /\ Load(lab', liveToggle, selectedNode, FALSE, TRUE)
                  /\ UNCHANGED clock
          /\ UNCHANGED <<autoRefresh, early>>
    BY <1>3 DEF LoadLabs
  <2>2. Early /\ \A s \in Slots : ~OfInit(s)
    BY <2>1 DEF HeldInv, Early
  <2>3. CASE ls = {}
    <3>1. EndInit([init |-> TRUE]) /\ calls' = calls
      BY <2>1, <2>3 DEF NoRequest
    <3>2. \A s \in Slots : ~OfInit(s)'
      BY <2>2, <3>1 DEF OfInit
    <3>3. PICK c : c = [init |-> TRUE]
      OBVIOUS
    <3>4. EndInit(c) /\ c.init
      BY <3>1, <3>3
    <3> QED
      BY <1>0, <2>1, <2>2, <3>2, <3>4, EndInitHeld
  <2>4. CASE ls # {}
    <3>1. page' = "topology" /\ UNCHANGED <<timer, intervals>>
      BY <2>1, <2>4
    <3>2. PICK s \in Slots : \A r \in Slots : OfInit(r)' => r = s
      <4>1. PICK l \in Labs : l = lab' /\ Load(lab', liveToggle, selectedNode, FALSE, TRUE)
        BY <2>1, <2>4
      <4>2. Load(l, liveToggle, selectedNode, FALSE, TRUE) /\ l # NoLab
        BY <4>1, ViewConstantsOK
      <4>3. PICK c : Free # {} /\ calls' = [calls EXCEPT ![NextSlot] = c]
        BY <4>2 DEF Load, Request
      <4> QED
        BY <1>0, <2>2, <4>3, NextSlotIsFree DEF OfInit, CallsTyped
    <3> QED
      BY <2>1, <2>2, <3>1, <3>2 DEF HeldInv, EveryIntervalIsHeld, Early
  <2> QED
    BY <2>3, <2>4
<1>4. CASE LoadLabsFails
  <2>1. page = "labs" /\ page' = "failed"
        /\ UNCHANGED <<timer, intervals, autoRefresh, early, calls>>
    BY <1>4 DEF LoadLabsFails
  <2>2. \A s \in Slots : ~OfInit(s)'
    BY <2>1 DEF HeldInv, OfInit
  <2> QED
    BY <2>1, <2>2 DEF HeldInv, EveryIntervalIsHeld, Early
<1>5. CASE Tick
  BY <1>a, <1>c, <1>5 DEF Tick
<1>6. ASSUME NEW l \in Labs, SelectLab(l) PROVE HeldInv'
  <2>1. Load(l, on, NoNode, FALSE, FALSE)
    BY <1>a, <1>6 DEF SelectLab
  <2>2. \A s \in Slots : OfInit(s)' => OfInit(s)
    BY <1>0, <2>1, LoadOfInit
  <2> QED
    BY <1>6, <2>2, HeldKept DEF SelectLab
<1>7. ASSUME NEW l \in Labs, Redeploy(l) PROVE HeldInv'
  BY <1>b, <1>7 DEF Redeploy, NoRequest
<1>8. CASE Refresh
  BY <1>a, <1>c, <1>8 DEF Refresh
<1>9. CASE ToggleLive
  <2>1. PICK b \in BOOLEAN : b = ~on
    BY <1>a
  <2>2. Load(l0, b, n0, FALSE, FALSE)
    BY <1>a, <1>9, <2>1 DEF ToggleLive
  <2> QED
    BY <1>c, <1>9, <2>2 DEF ToggleLive
<1>10. CASE ToggleDiff
  BY <1>b, <1>10 DEF ToggleDiff, NoRequest
<1>11. CASE ToggleAuto
  BY <1>11, ToggleAutoHeld
<1>12. CASE Fold
  BY <1>b, <1>12 DEF Fold, NoRequest
<1>13. ASSUME NEW n \in Names, TapNode(n) \/ ClickRow(n) \/ OpenTerminal(n) PROVE HeldInv'
  BY <1>d, <1>13 DEF TapNode, ClickRow, OpenTerminal, TypeInv
<1>14. CASE UNCHANGED vars
  BY <1>b, <1>14 DEF vars
<1> QED
  BY <1>1, <1>2, <1>3, <1>4, <1>5, <1>6, <1>7, <1>8, <1>9, <1>10, <1>11, <1>12, <1>13, <1>14
  DEF Next, User

(* EveryIntervalIsHeld, for any number of toggles, requests and failures:  *)
(* only a refresh that was switched on during init gets out of hand.       *)
THEOREM IntervalsAreHeld == Spec => []EveryIntervalIsHeld
<1>1. Init => HeldInv
  BY DEF Init, HeldInv, EveryIntervalIsHeld, OfInit, Early
<1>2. HeldInv => EveryIntervalIsHeld
  BY DEF HeldInv
<1> QED
  BY <1>1, <1>2, HeldNext, TypeInvariant, PTL DEF Spec
=============================================================================
