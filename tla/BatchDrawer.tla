------------------------------ MODULE BatchDrawer ------------------------------
(***************************************************************************)
(* Batch operations in the browser (internal/ui/static/app.js): the set of *)
(* selected nodes with the places that show it, and the requests that are  *)
(* made for it, whose answers all go to one result pane.  Several requests *)
(* can be in flight, and the lab or the selection be changed meanwhile.    *)
(*                                                                         *)
(* The server (batch_exec.go, batch_capture.go, artifact_export.go) serves *)
(* a request at some moment between its sending and its answer; the steps  *)
(* inside are in CaptureTasks, BatchExec and ExportStore.  When topologies *)
(* are loaded is in TopologyView: here they may come at any time.          *)
(***************************************************************************)
EXTENDS Naturals, FiniteSets

CONSTANTS
  Labs,
  Nodes,       \* per lab: the names of its nodes
  Texts,       \* texts the user may type into the filter, "" is no filter
  Matching,    \* per text and regex flag: the names it finds, or Invalid
  Invalid,
  Kinds,       \* of artifacts
  MaxCalls,    \* bound on the batch requests in flight
  MaxActs      \* bound on what the user does

ASSUME DrawerConstantsOK ==
  /\ IsFiniteSet(Labs) /\ \A l \in Labs : IsFiniteSet(Nodes[l])
  /\ "" \in Texts
  /\ MaxCalls \in Nat \ {0} /\ MaxActs \in Nat

Names == UNION {Nodes[l] : l \in Labs}
Slots == 1 .. MaxCalls
Operations == {"exec", "start", "stop", "list", "export"}

(* A request.  origin: the request a list follows; got: what the server    *)
(* listed.  Histories are intact, the nodes of the request or its origin   *)
(* whose captures nobody else has touched, and hidden, the nodes that were *)
(* not marked in the list at the click, when the list was that of the lab. *)
Calls == [op : Operations, lab : Labs, nodes : SUBSET Names, origin : {"click", "start", "stop"},
          step : {"sent", "served", "failed"}, got : SUBSET Names, intact : SUBSET Names,
          hidden : SUBSET Names]
NoCall == [op |-> "none"]

(* What batchResult shows: "none", progress, an error or an answer.        *)
Panes == [shows : {"none", "progress", "error"}] \cup [shows : {"answer"}, call : Calls]

VARIABLES
  lab,           \* state.lab
  asked,         \* the labs whose topology was asked for
  topology,      \* the names in state.topology
  cy, rows,      \* the graph and the list: their names, and the marked ones
  selected,      \* state.batchSelectedNodes
  count, enabled, \* the number shown, and whether Run and Stop can be clicked
  open, tab,     \* state.batchDrawerOpen and state.batchTab
  text, regex, stat, \* the filter, and what batchFilterStat shows
  scope, kinds,  \* state.batchExportScope and batchExportKinds
  calls, pane,   \* the requests in flight, and the result pane
  running,       \* server: the captures
  acts           \* bounded counter

marks == <<cy, rows, count, enabled>>
drawer == <<open, tab, text, regex, scope, kinds>>
labView == <<lab, asked, topology>>
vars == <<labView, marks, selected, drawer, stat, calls, pane, running, acts>>

Marked == [names : SUBSET Names, marked : SUBSET Names]

TypeOK ==
  /\ lab \in Labs /\ asked \subseteq Labs
  /\ topology \subseteq Names
  /\ cy \in Marked /\ rows \in Marked
  /\ selected \subseteq Names
  /\ count \in Nat /\ enabled \in BOOLEAN
  /\ open \in BOOLEAN /\ tab \in {"exec", "capture", "export"}
  /\ text \in Texts /\ regex \in BOOLEAN
  /\ stat \in [found : Nat, all : Nat] \cup {Invalid}
  /\ scope \in {"selected", "all"} /\ kinds \subseteq Kinds
  /\ calls \in [Slots -> Calls \cup {NoCall}]
  /\ pane \in Panes
  /\ running \subseteq Labs \X Names
  /\ acts \in 0 .. MaxActs

Nothing == [names |-> {}, marked |-> {}]

Init ==
  /\ lab \in Labs /\ asked = {lab}
  /\ topology = {} /\ cy = Nothing /\ rows = Nothing
  /\ selected = {} /\ count = 0 /\ enabled = FALSE
  /\ open = FALSE /\ tab = "exec"
  /\ text = "" /\ regex = FALSE /\ stat = [found |-> 0, all |-> 0]
  /\ scope = "selected" /\ kinds \in SUBSET Kinds
  /\ calls = [s \in Slots |-> NoCall]
  /\ pane = [shows |-> "none"]
  /\ running = {}
  /\ acts = 0

-----------------------------------------------------------------------------
(* The selection and where it shows.                                       *)

(* getBatchMatchedNodes.                                                   *)
Matched(names, q, re) ==
  IF q = "" THEN names
  ELSE IF Matching[q][re] = Invalid THEN Invalid ELSE names \cap Matching[q][re]

RenderBatchFilterStat(names, q, re) == LET found == Matched(names, q, re) IN
  stat' = IF found = Invalid THEN Invalid
          ELSE [found |-> Cardinality(found), all |-> Cardinality(names)]

HighlightSelection(names, ns) == cy' = [names |-> names, marked |-> names \cap ns]
RenderNodes(names, ns) == rows' = [names |-> names, marked |-> names \cap ns]
RenderBatchSelectionSummary(ns) == count' = Cardinality(ns) /\ enabled' = (ns # {})

(* Mutant of Reselect: the number and the buttons are left as they are.    *)
ReselectOnly(ns) ==
  /\ selected' = ns
  /\ HighlightSelection(cy.names, ns)
  /\ RenderNodes(topology, ns)
  /\ UNCHANGED <<count, enabled>>

(* What every change of the selection does.                                *)
Reselect(ns) ==
  /\ selected' = ns
  /\ HighlightSelection(cy.names, ns)
  /\ RenderNodes(topology, ns)
  /\ RenderBatchSelectionSummary(ns)

Act == acts < MaxActs /\ acts' = acts + 1

(* A click on a node of the graph or on a row, while the drawer is open or *)
(* a modifier is held (other clicks are in TopologyView).                  *)
ToggleNode(n) ==
  /\ Act
  /\ n \in cy.names \cup rows.names
  /\ Reselect(IF n \in selected THEN selected \ {n} ELSE selected \cup {n})
  /\ UNCHANGED <<labView, drawer, stat, calls, pane, running>>

Clear ==
  /\ Act
  /\ Reselect({})
  /\ UNCHANGED <<labView, drawer, stat, calls, pane, running>>

(* Add Matched and Only Matched: the same, from another start.             *)
SelectMatched(base) == LET found == Matched(topology, text, regex) IN
  /\ Act
  /\ open
  /\ IF found = Invalid THEN UNCHANGED <<selected, marks>> ELSE Reselect(base \cup found)
  /\ RenderBatchFilterStat(topology, text, regex)
  /\ UNCHANGED <<labView, drawer, calls, pane, running>>

AddMatched == SelectMatched(selected)
OnlyMatched == SelectMatched({})

TypeFilter(q, re) ==
  /\ Act
  /\ open
  /\ text' = q /\ regex' = re
  /\ RenderBatchFilterStat(topology, q, re)
  /\ UNCHANGED <<labView, marks, selected, open, tab, scope, kinds, calls, pane, running>>

OpenDrawer ==
  /\ Act
  /\ open' = TRUE
  /\ RenderBatchSelectionSummary(selected)
  /\ RenderBatchFilterStat(topology, text, regex)
  /\ UNCHANGED <<labView, cy, rows, selected, tab, text, regex, scope, kinds, calls, pane,
                 running>>

(* The button, the backdrop or Escape.                                     *)
CloseDrawer ==
  /\ Act
  /\ open /\ open' = FALSE
  /\ UNCHANGED <<labView, marks, selected, tab, text, regex, stat, scope, kinds, calls,
                 pane, running>>

(* labSelect.onchange, which leaves the selection alone.                   *)
SelectLab(l) ==
  /\ Act
  /\ l # lab /\ lab' = l
  /\ asked' = asked \cup {l}
  /\ UNCHANGED <<topology, marks, selected, drawer, stat, calls, pane, running>>

(* Mutant of DrawTopology: a list that is drawn anew has no marks.         *)
DrawTopologyUnmarked(l, skip) ==
  /\ l \in asked
  /\ topology' = Nodes[l]
  /\ IF skip THEN UNCHANGED cy ELSE HighlightSelection(Nodes[l], selected)
  /\ RenderNodes(Nodes[l], {})
  /\ RenderBatchFilterStat(Nodes[l], text, regex)
  /\ UNCHANGED <<lab, asked, selected, count, enabled, drawer, calls, pane, running, acts>>

(* loadTopology is answered: everything is drawn, or all but the graph.    *)
DrawTopology(l, skip) ==
  /\ l \in asked
  /\ topology' = Nodes[l]
  /\ IF skip THEN UNCHANGED cy ELSE HighlightSelection(Nodes[l], selected)
  /\ RenderNodes(Nodes[l], selected)
  /\ RenderBatchFilterStat(Nodes[l], text, regex)
  /\ UNCHANGED <<lab, asked, selected, count, enabled, drawer, calls, pane, running, acts>>

(* It is answered, and loads once more before it draws anything.           *)
TakeTopology(l) ==
  /\ l \in asked
  /\ topology' = Nodes[l]
  /\ UNCHANGED <<lab, asked, marks, selected, drawer, stat, calls, pane, running, acts>>

-----------------------------------------------------------------------------
(* Requests.                                                               *)

Free == {s \in Slots : calls[s] = NoCall}

Request(op, ns, origin, intact) ==
  [op |-> op, lab |-> lab, nodes |-> ns, origin |-> origin, step |-> "sent", got |-> {},
   intact |-> intact, hidden |-> IF rows.names = Nodes[lab] THEN ns \ rows.marked ELSE {}]

(* Mutant of Post: the progress is shown before the inputs are looked at.  *)
PostEarly(op, ns, ok) ==
  /\ pane' = [shows |-> "progress"]
  /\ IF ok THEN \E s \in Free : calls' = [calls EXCEPT ![s] = Request(op, ns, "click", ns)]
     ELSE UNCHANGED calls

(* The common start of the operations: bad inputs end it, with a status    *)
(* line only.                                                              *)
Post(op, ns, ok) ==
  IF ok
  THEN /\ pane' = [shows |-> "progress"]
       /\ \E s \in Free : calls' = [calls EXCEPT ![s] = Request(op, ns, "click", ns)]
  ELSE UNCHANGED <<calls, pane>>

(* Run, by the tab of the moment; a command may be missing, and so may the *)
(* kinds of artifacts, which is said in the pane.                          *)
Run ==
  /\ Act
  /\ open /\ enabled
  /\ \/ tab = "exec" /\ \E command \in BOOLEAN : Post("exec", selected, selected # {} /\ command)
     \/ tab = "capture" /\ Post("start", selected, selected # {})
     \/ /\ tab = "export" /\ kinds # {}
        /\ Post("export", IF scope = "all" THEN {} ELSE selected, TRUE)
     \/ tab = "export" /\ kinds = {} /\ pane' = [shows |-> "error"] /\ UNCHANGED calls
  /\ UNCHANGED <<labView, marks, selected, drawer, stat, running>>

Stop ==
  /\ Act
  /\ open /\ enabled /\ tab = "capture"
  /\ Post("stop", selected, selected # {})
  /\ UNCHANGED <<labView, marks, selected, drawer, stat, running>>

(* List Running, or a click on the capture tab.                            *)
List ==
  /\ Act
  /\ open
  /\ tab' = "capture"
  /\ Post("list", {}, TRUE)
  /\ UNCHANGED <<labView, marks, selected, open, text, regex, stat, scope, kinds, running>>

SetBatchTab(t) ==
  /\ Act
  /\ open
  /\ tab' = t
  /\ UNCHANGED <<labView, marks, selected, open, text, regex, stat, scope, kinds, calls,
                 pane, running>>

ChooseExport(sc, ks) ==
  /\ Act
  /\ open /\ tab = "export"
  /\ scope' = sc /\ kinds' = ks
  /\ UNCHANGED <<labView, marks, selected, open, tab, text, regex, stat, calls, pane, running>>

(* A start that succeeds, and a stop in any case, is followed by a list of *)
(* the lab that is selected now.                                           *)
Follows(c) == c.op = "stop" \/ (c.op = "start" /\ c.step = "served")

(* Mutant of Answered: the list does not wait for the start or stop.       *)
AnsweredOrFollowed(c) == c.step # "sent" \/ c.op \in {"start", "stop"}

Answered(c) == c.step # "sent"

(* Mutant of Arrive: the slot is freed before the answer is taken from it. *)
ArriveCleared(s) == LET c == calls[s] IN
  /\ c # NoCall /\ Answered(c)
  /\ calls' = [calls EXCEPT ![s] = NoCall]
  /\ pane' = [shows |-> "answer", call |-> calls'[s]]
  /\ UNCHANGED <<labView, marks, selected, drawer, stat, running, acts>>

(* The answer reaches the browser; that of an exec draws the summary again.*)
Arrive(s) == LET c == calls[s] IN
  /\ c # NoCall /\ Answered(c)
  /\ IF Follows(c)
     THEN /\ calls' = [calls EXCEPT ![s] =
                         Request("list", {}, c.op, IF c.lab = lab THEN c.intact ELSE {})]
          /\ pane' = [shows |-> "progress"]
     ELSE /\ calls' = [calls EXCEPT ![s] = NoCall]
          /\ pane' = IF c.step = "failed" THEN [shows |-> "error"] ELSE [shows |-> "answer", call |-> c]
  /\ IF c.op = "exec" THEN RenderBatchSelectionSummary(selected) ELSE UNCHANGED <<count, enabled>>
  /\ UNCHANGED <<labView, cy, rows, selected, drawer, stat, running, acts>>

-----------------------------------------------------------------------------
(* The server.                                                             *)

(* Captures of lab l at the nodes ns changed by somebody but the call s: a *)
(* list that has been made is not affected.                                *)
Disturb(s, l, ns) ==
  [r \in Slots |->
    IF r # s /\ calls[r] # NoCall /\ calls[r].lab = l /\ ~(calls[r].op = "list" /\ calls[r].step # "sent")
    THEN [calls[r] EXCEPT !.intact = @ \ ns] ELSE calls[r]]

Pairs(l, ns) == {l} \X ns

(* One node that the lab does not have, and the whole request is refused.  *)
Valid(c) ==
  /\ c.nodes \subseteq Nodes[c.lab]
  /\ c.nodes # {} \/ c.op \in {"list", "export"}

(* The request is refused, or it or its answer is lost on the way.         *)
Refuse(s) == LET c == calls[s] IN
  /\ c # NoCall /\ c.step \in {"sent", "served"}
  /\ calls' = [calls EXCEPT ![s].step = "failed",
                            ![s].intact = IF c.step = "served" THEN @ ELSE {}]
  /\ UNCHANGED <<labView, marks, selected, drawer, stat, pane, running, acts>>

(* Some of the captures may fail to start.                                 *)
ServeStart(s) == LET c == calls[s] IN
  /\ c # NoCall /\ c.step = "sent" /\ c.op = "start" /\ Valid(c)
  /\ \E ns \in SUBSET c.nodes :
       /\ running' = running \cup Pairs(c.lab, ns)
       /\ calls' = [Disturb(s, c.lab, ns) EXCEPT
                      ![s].step = "served", ![s].intact = {n \in @ : <<c.lab, n>> \in running'}]
  /\ UNCHANGED <<labView, marks, selected, drawer, stat, pane, acts>>

ServeStop(s) == LET c == calls[s] IN
  /\ c # NoCall /\ c.step = "sent" /\ c.op = "stop" /\ Valid(c)
  /\ running' = running \ Pairs(c.lab, c.nodes)
  /\ calls' = [Disturb(s, c.lab, c.nodes) EXCEPT ![s].step = "served"]
  /\ UNCHANGED <<labView, marks, selected, drawer, stat, pane, acts>>

ServeList(s) == LET c == calls[s] IN
  /\ c # NoCall /\ c.step = "sent" /\ c.op = "list"
  /\ calls' = [calls EXCEPT ![s].step = "served", ![s].got = {n \in Names : <<c.lab, n>> \in running}]
  /\ UNCHANGED <<labView, marks, selected, drawer, stat, pane, running, acts>>

ServeOther(s) == LET c == calls[s] IN
  /\ c # NoCall /\ c.step = "sent" /\ c.op \in {"exec", "export"} /\ Valid(c)
  /\ calls' = [calls EXCEPT ![s].step = "served"]
  /\ UNCHANGED <<labView, marks, selected, drawer, stat, pane, running, acts>>

(* A capture ends by itself.                                               *)
EndCapture(l, n) ==
  /\ <<l, n>> \in running
  /\ running' = running \ {<<l, n>>}
  /\ calls' = Disturb(0, l, {n})
  /\ UNCHANGED <<labView, marks, selected, drawer, stat, pane, acts>>

-----------------------------------------------------------------------------
User ==
  \/ \E n \in Names : ToggleNode(n)
  \/ Clear \/ AddMatched \/ OnlyMatched
  \/ \E q \in Texts, re \in BOOLEAN : TypeFilter(q, re)
  \/ OpenDrawer \/ CloseDrawer
  \/ \E l \in Labs : SelectLab(l)
  \/ Run \/ Stop \/ List
  \/ \E t \in {"exec", "export"} : SetBatchTab(t)
  \/ \E sc \in {"selected", "all"}, ks \in SUBSET Kinds : ChooseExport(sc, ks)

Next ==
  \/ User
  \/ \E l \in Labs : TakeTopology(l) \/ \E skip \in BOOLEAN : DrawTopology(l, skip)
  \/ \E s \in Slots : Arrive(s)
  \/ \E s \in Slots : Refuse(s) \/ ServeStart(s) \/ ServeStop(s) \/ ServeList(s) \/ ServeOther(s)
  \/ \E l \in Labs, n \in Names : EndCapture(l, n)

Spec == Init /\ [][Next]_vars

-----------------------------------------------------------------------------
(* Properties.                                                             *)

(* Five places show the selection: the two lists of nodes, the number, and *)
(* the buttons it enables.  Whatever redraws one of them, and whichever    *)
(* topology comes meanwhile, they agree with the set that Run would send.  *)
MarksFollowSelection ==
  /\ cy.marked = selected \cap cy.names
  /\ rows.marked = selected \cap rows.names
  /\ count = Cardinality(selected)
  /\ enabled <=> selected # {}

(* The pane says "Running..." or the like only while an answer is due that *)
(* will replace it, in whatever order overlapping operations end or fail.  *)
ProgressEnds == pane.shows = "progress" => \E s \in Slots : calls[s] # NoCall

(* The list that follows a start or a stop tells of what was done: started *)
(* captures are on it and stopped ones are not, but for those that another *)
(* request or their own end has changed meanwhile.                         *)
ListTellsOutcome ==
  pane.shows = "answer" /\ pane.call.op = "list" =>
    CASE pane.call.origin = "start" -> pane.call.intact \subseteq pane.call.got
      [] pane.call.origin = "stop"  -> pane.call.intact \cap pane.call.got = {}
      [] OTHER -> TRUE

(* The selection outlives a change of the lab, and nodes of the new lab    *)
(* may have the names of selected ones.  Still the server does nothing to  *)
(* a node that the user did not see marked when he clicked, once the list  *)
(* shows the new lab: names that are common to both labs are marked in it, *)
(* and for any other name the request is refused as a whole.  (Before the  *)
(* topology arrives, the old list is what he sees.)                        *)
TouchesOnlyShown == \A s \in Slots :
  calls[s] # NoCall /\ calls[s].step = "served" => calls[s].hidden = {}
=============================================================================
