---------------------------- MODULE TopologyView ----------------------------
(***************************************************************************)
(* The browser's view of a lab (internal/ui/static/app.js): the graph, the *)
(* list of nodes and the details of the selected node, drawn from answers  *)
(* of the server.  The page is one thread, but every await gives it to     *)
(* other handlers: a second request may be sent before the first is        *)
(* answered, and the answers arrive in any order, or fail.                 *)
(*                                                                         *)
(* A node is a number, in the order of names.  The batch selection and the *)
(* terminals are modelled in BatchDrawer and TerminalTabs; the layout, the *)
(* information float of an edge and the hint above the graph, which is all *)
(* that the option silent is about, are left out.                          *)
(***************************************************************************)
EXTENDS Integers, FiniteSets

CONSTANTS
  Labs,
  Shapes,       \* per lab and number of redeployments: its nodes and links
  NoLab,        \* the empty string as a name of a lab
  MaxCalls,     \* bound on the topology requests in flight
  MaxActs,      \* bound on what the user does
  MaxFailures   \* bound on the requests that fail

ASSUME ViewConstantsOK ==
  /\ NoLab \notin Labs
  /\ MaxCalls \in Nat \ {0} /\ MaxActs \in Nat /\ MaxFailures \in Nat
  /\ Shapes \in [Labs -> [0 .. 1 -> [nodes : SUBSET (Nat \ {0}), links : SUBSET (Nat \X Nat)]]]
  /\ \A l \in Labs, v \in 0 .. 1 : IsFiniteSet(Shapes[l][v].nodes)

NoNode == 0                  \* the empty string as a name of a node
Names == UNION {Shapes[l][v].nodes : l \in Labs, v \in 0 .. 1}
Slots == 1 .. MaxCalls
Empty == [nodes |-> {}, links |-> {}]

(* An answer: the lab as it was, and the node whose live data it carries.  *)
Topologies == [lab : Labs, ver : 0 .. 1, of : Names \cup {NoNode}]
NoTopology == [lab |-> NoLab, ver |-> 0, of |-> NoNode]

(* A pending loadTopology: what it asked for, its options, and whether     *)
(* init waits for it.                                                      *)
Calls == [lab : Labs, since : 0 .. 1, live : BOOLEAN, node : Names \cup {NoNode},
          force : BOOLEAN, skip : BOOLEAN, init : BOOLEAN]
NoCall == [lab |-> NoLab]

(* What the details pane shows; full: with the live data of its node.      *)
Details == [node : Names, lab : Labs, ver : 0 .. 1, full : BOOLEAN]
NoDetail == [node |-> NoNode]

VARIABLES
  ver,          \* server: how often each lab was redeployed
  page,         \* how far init has come
  labs,         \* state.labs
  lab,          \* state.lab
  topology,     \* state.topology
  selectedNode, \* state.selectedNode
  live,         \* state.live
  liveToggle, diffToggle, autoRefresh,   \* the check boxes
  timer,        \* is there an interval in state.timer?
  intervals,    \* the number of intervals that run
  calls,        \* the requests in flight
  cy, marked,   \* the graph, and the node it highlights
  rows,         \* the list of nodes, and the one it highlights
  detail,       \* the details pane
  prev,         \* state.detailPrevByNode: the lab a node's snapshot is from
  acts, failures, \* bounded counters
  crossed, early \* history, see RenderDetail and ToggleAuto

server == <<ver>>
boxes == <<liveToggle, diffToggle, autoRefresh>>
clock == <<timer, intervals>>
shown == <<cy, marked, rows, detail>>
history == <<crossed, early>>
vars == <<server, page, labs, lab, topology, selectedNode, live, boxes, clock, calls,
          shown, prev, acts, failures, history>>

TypeOK ==
  /\ ver \in [Labs -> 0 .. 1]
  /\ page \in {"labs", "topology", "ready", "failed"}
  /\ labs \subseteq Labs
  /\ lab \in Labs \cup {NoLab}
  /\ topology \in Topologies \cup {NoTopology}
  /\ selectedNode \in Names \cup {NoNode}
  /\ live \in BOOLEAN
  /\ liveToggle \in BOOLEAN /\ diffToggle \in BOOLEAN /\ autoRefresh \in BOOLEAN
  /\ timer \in BOOLEAN
  /\ intervals \in Nat
  /\ calls \in [Slots -> Calls \cup {NoCall}]
  /\ cy \in [nodes : SUBSET Names, links : SUBSET (Nat \X Nat)]
  /\ marked \in Names \cup {NoNode}
  /\ rows \in [nodes : SUBSET Names, active : Names \cup {NoNode}]
  /\ detail \in Details \cup {NoDetail}
  /\ prev \in [Names -> Labs \cup {NoLab}]
  /\ acts \in 0 .. MaxActs
  /\ failures \in 0 .. MaxFailures
  /\ crossed \in BOOLEAN /\ early \in BOOLEAN

Init ==
  /\ ver = [l \in Labs |-> 0]
  /\ page = "labs"
  /\ labs = {}
  /\ lab = NoLab
  /\ topology = NoTopology
  /\ selectedNode = NoNode
  /\ live = TRUE
  /\ liveToggle = TRUE /\ diffToggle = FALSE /\ autoRefresh = TRUE
  /\ timer = FALSE /\ intervals = 0
  /\ calls = [s \in Slots |-> NoCall]
  /\ cy = Empty /\ marked = NoNode
  /\ rows = [nodes |-> {}, active |-> NoNode]
  /\ detail = NoDetail
  /\ prev = [n \in Names |-> NoLab]
  /\ acts = 0 /\ failures = 0
  /\ crossed = FALSE /\ early = FALSE

-----------------------------------------------------------------------------
(* Drawing.                                                                *)

NodesOf(t) == IF t.lab = NoLab THEN {} ELSE Shapes[t.lab][t.ver].nodes
LinksOf(t) == IF t.lab = NoLab THEN {} ELSE Shapes[t.lab][t.ver].links

(* The server sorts the nodes by name.                                     *)
First(t) == IF NodesOf(t) = {} THEN NoNode
            ELSE CHOOSE n \in NodesOf(t) : \A m \in NodesOf(t) : n <= m

OrNone(n, ns) == IF n \in ns THEN n ELSE NoNode

(* Mutant of SyncGraph: elements the new topology lacks stay.              *)
SyncGraphAdding(t) == cy' = [nodes |-> cy.nodes \cup NodesOf(t), links |-> cy.links \cup LinksOf(t)]

(* Elements are added or updated by their ids, and stale ones removed.     *)
SyncGraph(t) == cy' = [nodes |-> NodesOf(t), links |-> LinksOf(t)]

HighlightSelection(sel) == marked' = OrNone(sel, cy'.nodes)

RenderNodes(t, sel) == rows' = [nodes |-> NodesOf(t), active |-> OrNone(sel, NodesOf(t))]

(* The node to detail: the selected one, or the first of the lab.          *)
Shown(t, sel) == IF sel \in NodesOf(t) THEN sel ELSE First(t)

(* Mutant of RenderDetail: the node it falls back to is not selected.      *)
RenderDetailOnly(t, sel, snapshots) == LET n == Shown(t, sel) IN
  /\ selectedNode' = sel
  /\ detail' = IF n = NoNode THEN NoDetail
               ELSE [node |-> n, lab |-> t.lab, ver |-> t.ver, full |-> t.of = n]
  /\ prev' = IF n = NoNode THEN snapshots ELSE [snapshots EXCEPT ![n] = t.lab]
  /\ crossed' = (crossed \/ (n # NoNode /\ t.lab # lab))

(* It selects the node it shows, and keeps what it shows for the next diff *)
(* (crossed: of a lab which is no longer the selected one).                *)
RenderDetail(t, sel, snapshots) == LET n == Shown(t, sel) IN
  /\ selectedNode' = IF n = NoNode THEN sel ELSE n
  /\ detail' = IF n = NoNode THEN NoDetail
               ELSE [node |-> n, lab |-> t.lab, ver |-> t.ver, full |-> t.of = n]
  /\ prev' = IF n = NoNode THEN snapshots ELSE [snapshots EXCEPT ![n] = t.lab]
  /\ crossed' = (crossed \/ (n # NoNode /\ t.lab # lab))

NoSnapshots == [n \in Names |-> NoLab]

-----------------------------------------------------------------------------
(* Requests.                                                               *)

Free == {s \in Slots : calls[s] = NoCall}
NextSlot == CHOOSE s \in Free : \A r \in Free : s <= r

(* loadTopology up to its await.                                           *)
Request(s, c) ==
  /\ calls' = [calls EXCEPT ![s] = c]
  /\ live' = c.live

NoRequest == UNCHANGED <<calls, live>>

(* loadTopology() as most handlers call it: for the selected node.         *)
Load(l, on, n, skip, init) ==
  IF l = NoLab THEN NoRequest
  ELSE /\ Free # {}
       /\ Request(NextSlot, [lab |-> l, since |-> ver[l], live |-> on, node |-> n,
                             force |-> FALSE, skip |-> skip, init |-> init])

(* loadTopology(n), which selects n when it is answered.                   *)
LoadNode(n, skip) ==
  /\ Free # {}
  /\ Request(NextSlot, [lab |-> lab, since |-> ver[lab], live |-> liveToggle, node |-> n,
                        force |-> TRUE, skip |-> skip, init |-> FALSE])

(* The end of init, unless c is a call of somebody else.                   *)
EndInit(c) ==
  IF c.init
  THEN /\ page' = "ready"
       /\ timer' = (timer \/ autoRefresh)
       /\ intervals' = IF autoRefresh THEN intervals + 1 ELSE intervals
  ELSE UNCHANGED <<page, timer, intervals>>

Selected(c, t) == IF c.force THEN c.node
                  ELSE IF selectedNode # NoNode THEN selectedNode ELSE First(t)

(* A live answer without a node: load again, for the node now selected.    *)
Again(s, c, n) ==
  Request(s, [c EXCEPT !.lab = lab, !.since = ver[lab], !.live = liveToggle,
                       !.node = n, !.force = TRUE])

(* The answer to the request in slot s, which the server gave at some time *)
(* since it was sent.                                                      *)
Answer(s) == LET c == calls[s] IN
  /\ c # NoCall
  /\ \E v \in c.since .. ver[c.lab] :
       LET t == [lab |-> c.lab, ver |-> v, of |-> IF c.live THEN c.node ELSE NoNode]
           sel == Selected(c, t)
       IN
       /\ topology' = t
       /\ IF live /\ c.node = NoNode /\ sel # NoNode
          THEN /\ Again(s, c, sel)
               /\ selectedNode' = sel
               /\ UNCHANGED <<page, clock, shown, prev, crossed>>
          ELSE /\ IF c.skip THEN UNCHANGED <<cy, marked>>
                  ELSE SyncGraph(t) /\ HighlightSelection(sel)
               /\ RenderNodes(t, sel)
               /\ RenderDetail(t, sel, prev)
               /\ EndInit(c)
               /\ calls' = [calls EXCEPT ![s] = NoCall]
               /\ UNCHANGED live
  /\ UNCHANGED <<server, labs, lab, boxes, acts, failures, early>>

(* The request fails, and whoever waits for it gives up.                   *)
Fail(s) == LET c == calls[s] IN
  /\ c # NoCall
  /\ failures < MaxFailures
  /\ failures' = failures + 1
  /\ calls' = [calls EXCEPT ![s] = NoCall]
  /\ page' = IF c.init THEN "failed" ELSE page
  /\ UNCHANGED <<server, labs, lab, topology, selectedNode, live, boxes, clock, shown, prev,
                 acts, history>>

-----------------------------------------------------------------------------
(* init.                                                                   *)

(* loadLabs is answered: the first lab is chosen and its topology loaded.  *)
LoadLabs == \E ls \in SUBSET Labs :
  /\ page = "labs"
  /\ labs' = ls
  /\ IF ls = {}
     THEN NoRequest /\ EndInit([init |-> TRUE]) /\ UNCHANGED lab
     ELSE /\ lab' \in ls
          /\ page' = "topology"
          /\ Load(lab', liveToggle, selectedNode, FALSE, TRUE)
          /\ UNCHANGED clock
  /\ UNCHANGED <<server, topology, selectedNode, boxes, shown, prev, acts, failures, history>>

LoadLabsFails ==
  /\ page = "labs"
  /\ failures < MaxFailures
  /\ failures' = failures + 1
  /\ page' = "failed"
  /\ UNCHANGED <<server, labs, lab, topology, selectedNode, live, boxes, clock, calls, shown,
                 prev, acts, history>>

(* The interval of the automatic refresh.                                  *)
Tick ==
  /\ intervals > 0
  /\ lab # NoLab
  /\ Load(lab, liveToggle, selectedNode, FALSE, FALSE)
  /\ UNCHANGED <<server, page, labs, lab, topology, selectedNode, boxes, clock, shown, prev,
                 acts, failures, history>>

-----------------------------------------------------------------------------
(* The user.                                                               *)

Act == acts < MaxActs /\ acts' = acts + 1

(* Mutant of SelectLab: the snapshots of the old lab are kept.             *)
SelectLabKeeping(l) ==
  /\ Act
  /\ l \in labs \ {lab}
  /\ lab' = l
  /\ Load(l, liveToggle, NoNode, FALSE, FALSE)
  /\ selectedNode' = NoNode
  /\ UNCHANGED <<server, page, labs, topology, boxes, clock, shown, prev, failures, history>>

(* labSelect.onchange (closeAllTerminalSessions is in TerminalTabs).       *)
SelectLab(l) ==
  /\ Act
  /\ l \in labs \ {lab}
  /\ lab' = l
  /\ Load(l, liveToggle, NoNode, FALSE, FALSE)
  /\ selectedNode' = NoNode
  /\ prev' = NoSnapshots
  /\ UNCHANGED <<server, page, labs, topology, boxes, clock, shown, failures, history>>

(* refreshBtn.onclick.                                                     *)
Refresh ==
  /\ Act
  /\ Load(lab, liveToggle, selectedNode, TRUE, FALSE)
  /\ UNCHANGED <<server, page, labs, lab, topology, selectedNode, boxes, clock, shown, prev,
                 failures, history>>

(* liveToggle.onchange.                                                    *)
ToggleLive ==
  /\ Act
  /\ liveToggle' = ~liveToggle
  /\ prev' = NoSnapshots
  /\ Load(lab, ~liveToggle, selectedNode, FALSE, FALSE)
  /\ UNCHANGED <<server, page, labs, lab, topology, selectedNode, diffToggle, autoRefresh, clock,
                 shown, failures, history>>

(* diffToggle.onchange.                                                    *)
ToggleDiff ==
  /\ Act
  /\ diffToggle' = ~diffToggle
  /\ RenderDetail(topology, selectedNode, IF diffToggle THEN NoSnapshots ELSE prev)
  /\ NoRequest
  /\ UNCHANGED <<server, page, labs, lab, topology, liveToggle, autoRefresh, clock, cy, marked,
                 rows, failures, early>>

(* Mutants of StopTimer: the interval is forgotten, or cleared unasked.    *)
StopTimerOnly == timer' = FALSE /\ UNCHANGED intervals
StopTimerTwice == timer' = FALSE /\ intervals' = intervals - 1

StopTimer == timer' = FALSE /\ intervals' = IF timer THEN intervals - 1 ELSE intervals

StartTimer ==
  IF timer THEN UNCHANGED clock ELSE timer' = TRUE /\ intervals' = intervals + 1

(* autoRefresh.onchange, which is bound before init has loaded anything.   *)
ToggleAuto ==
  /\ Act
  /\ autoRefresh' = ~autoRefresh
  /\ IF autoRefresh THEN StopTimer ELSE StartTimer
  /\ early' = (early \/ (~autoRefresh /\ page \in {"labs", "topology"}))
  /\ NoRequest
  /\ UNCHANGED <<server, page, labs, lab, topology, selectedNode, liveToggle, diffToggle, shown,
                 prev, failures, crossed>>

(* A node is selected, and its details are loaded or shown.                *)
Choose(n, skip) ==
  /\ Act
  /\ UNCHANGED cy
  /\ HighlightSelection(n)
  /\ RenderNodes(topology, n)
  /\ IF live
     THEN LoadNode(n, skip) /\ selectedNode' = n /\ UNCHANGED <<detail, prev, crossed>>
     ELSE NoRequest /\ RenderDetail(topology, n, prev)
  /\ UNCHANGED <<server, page, labs, lab, topology, boxes, clock, failures, early>>

(* A click on a node of the graph or on a row; openTerminalForNode, which  *)
(* leaves the graph alone.                                                 *)
TapNode(n) == n \in cy.nodes /\ Choose(n, FALSE)
ClickRow(n) == n \in rows.nodes /\ Choose(n, FALSE)
OpenTerminal(n) == n \in rows.nodes /\ Choose(n, TRUE)

(* A section or an interface is folded: the details are drawn again.       *)
Fold ==
  /\ Act
  /\ detail # NoDetail
  /\ RenderDetail(topology, selectedNode, prev)
  /\ NoRequest
  /\ UNCHANGED <<server, page, labs, lab, topology, boxes, clock, cy, marked, rows, failures, early>>

(* Somebody destroys a lab and deploys it in another shape.                *)
Redeploy(l) ==
  /\ Act
  /\ ver[l] = 0
  /\ ver' = [ver EXCEPT ![l] = 1]
  /\ NoRequest
  /\ UNCHANGED <<page, labs, lab, topology, selectedNode, boxes, clock, shown, prev, failures, history>>

User ==
  \/ \E l \in Labs : SelectLab(l) \/ Redeploy(l)
  \/ Refresh \/ ToggleLive \/ ToggleDiff \/ ToggleAuto \/ Fold
  \/ \E n \in Names : TapNode(n) \/ ClickRow(n) \/ OpenTerminal(n)

Next ==
  \/ \E s \in Slots : Answer(s) \/ Fail(s)
  \/ LoadLabs \/ LoadLabsFails
  \/ Tick
  \/ User

Spec == Init /\ [][Next]_vars

(* The server answers, and the browser runs its interval.                  *)
Fairness ==
  /\ \A s \in Slots : WF_vars(Answer(s))
  /\ WF_vars(LoadLabs)
  /\ WF_vars(Tick)

FairSpec == Spec /\ Fairness

-----------------------------------------------------------------------------
(* Properties.                                                             *)

Quiet == \A s \in Slots : calls[s] = NoCall

(* When no request is in flight and none has failed, the details are those *)
(* of the selected node, in whatever order clicks and answers came, and    *)
(* even where renderDetail had to fall back to another node.               *)
DetailFollowsSelection ==
  Quiet /\ failures = 0 /\ NodesOf(topology) # {} => detail.node = selectedNode

(* The snapshots that diffs are made from are of the selected lab, unless  *)
(* details of another one were drawn after the selection, by a late answer *)
(* or a click before the first answer.                                     *)
DiffWithinLab == ~crossed => \A n \in Names : prev[n] \in {lab, NoLab}

(* Switching the refresh off stops every interval: one that state.timer    *)
(* does not hold, and nobody can stop, exists only when the user switched  *)
(* the refresh on while init was still loading.                            *)
EveryIntervalIsHeld ==
  /\ intervals = (IF timer THEN 1 ELSE 0) \/ early
  /\ page = "ready" => timer = autoRefresh

(* The page shows lab l as it is, in all three panes.                      *)
Showing(l) == LET shape == Shapes[l][ver[l]] IN
  /\ cy = shape
  /\ rows.nodes = shape.nodes
  /\ rows.active = detail.node /\ marked = detail.node
  /\ detail.node = NoNode <=> shape.nodes = {}
  /\ detail # NoDetail => detail = [node |-> selectedNode, lab |-> l, ver |-> ver[l], full |-> liveToggle]

(* With the automatic refresh, whatever late answers, failed requests and  *)
(* redeployments did to the page, it comes to show the selected lab as it  *)
(* is, and stays with it.                                                  *)
ViewSettles == <>[](intervals = 0 \/ lab = NoLab \/ Showing(lab))
=============================================================================
