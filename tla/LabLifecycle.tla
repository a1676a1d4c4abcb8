---------------------------- MODULE LabLifecycle ----------------------------
(***************************************************************************)
(* `netnslab deploy` and `netnslab destroy`: processes of one command      *)
(* each, which share the network namespaces, links and bridges of the host *)
(* kernel and the run directory of each lab (internal/cli/commands.go and  *)
(* what it calls in internal/netns, internal/mgmt, internal/labstate).     *)
(*                                                                         *)
(* A process does one external command or file operation per step.  Such a *)
(* command succeeds, fails without an effect ("err"), or has its effect    *)
(* and is still reported as failed ("late": the ten second timeout of      *)
(* runCommand kills it after the kernel acted).  A process may be killed   *)
(* between two steps, and then runs no rollback.                           *)
(***************************************************************************)
EXTENDS Naturals, FiniteSets

CONSTANTS
  Procs,          \* the processes: each runs at most one command
  Labs, Nodes, Links,
  Ends,           \* Ends[k]: the two nodes of link k, as in topology.links
  StageNodes,     \* the nodes on which each per-node stage has work to do
  MgmtEnabled,    \* mgmt.enable
  HostEth0,       \* does the host itself have an interface named eth0?
  SameLab,        \* may two commands work on one lab at the same time?
  FaultKinds,     \* what may go wrong in a build: "err", "late", "kill"
  TeardownFaults, \* and in a teardown command: "err", "late"
  MaxFaults       \* bound on the number of faults

StageNames == {"br0", "sysctl", "routes", "netem", "env", "exec"}

(* The stages that configure something inside a namespace.                 *)
ConfStages == StageNames \ {"env"}

ASSUME ConstantsOK ==
  /\ Nodes # {}
  /\ Ends \in [Links -> Nodes \X Nodes]
  /\ StageNodes \in [StageNames -> SUBSET Nodes]
  /\ MgmtEnabled \in BOOLEAN /\ HostEth0 \in BOOLEAN /\ SameLab \in BOOLEAN
  /\ FaultKinds \subseteq {"err", "late", "kill"}
  /\ TeardownFaults \subseteq {"err", "late"}
  /\ MaxFaults \in Nat

VARIABLES
  pc,         \* where each process is
  cmd, lab,   \* its command line: deploy or destroy, and which lab
  todo,       \* what is left of the loop it is in (Go map order is arbitrary)
  cur,        \* the element of that loop it is working on
  netns,      \* the namespaces that exist, as <<lab, node>>
  conf,       \* what has been configured inside each of them
  veth,       \* the pair a process made for a link: where its two ends are
  bridge,     \* the labs whose management bridge exists
  mveth,      \* the management pair of a node: where its eth0 end is
  labDir,     \* the labs whose run directory exists
  nodeDir,    \* the directory of a node in it, with its env file or not
  stateFile,  \* lab-state.json
  faults,
  spoilt      \* history: the labs of which a teardown command went wrong

procVars == <<cmd, lab>>
kernel == <<netns, conf, veth, bridge, mveth>>
files == <<labDir, nodeDir, stateFile>>
history == <<faults, spoilt>>
vars == <<pc, procVars, todo, cur, kernel, files, history>>

StateName == "lab-state.json"

LabNodes == Labs \X Nodes

(* The stages of the two commands, each with the one that comes after it.  *)
After ==
  [nodes |-> "links", links |-> "br0", br0 |-> "sysctl", sysctl |-> "mgmtbr",
   mgmtbr |-> "mgmt", mgmt |-> "routes", routes |-> "netem", netem |-> "env",
   env |-> "exec", exec |-> "save",
   tdnetem |-> "tdmgmt", tdmgmt |-> "tdbridge", tdbridge |-> "tdns",
   tdns |-> "tdfiles", tdfiles |-> "tddir"]

Building == {"plan", "nodes", "createns", "loopup", "links", "moveA", "moveB",
             "linkconf", "mgmtbr", "mgmt", "mgmtmove", "mgmtconf", "save",
             "write"} \cup StageNames
Teardown == {"tdnetem", "tdmgmt", "tdbridge", "tdns", "tdfiles", "tddir"}
Working == Building \cup Teardown
Ended == {"ok", "failed", "refused", "killed"}
Active == Working \cup {"precheck", "load"}

(* What a stage loops over.                                                *)
Work(s, l) ==
  CASE s \in {"nodes", "tdns"}        -> Nodes
    [] s = "links"                    -> Links
    [] s \in StageNames               -> StageNodes[s]
    [] s \in {"mgmt", "tdmgmt"}       -> IF MgmtEnabled THEN Nodes ELSE {}
    [] s \in {"mgmtbr", "tdbridge"}   -> IF MgmtEnabled THEN {l} ELSE {}
    [] s = "tdnetem"                  -> StageNodes["netem"]
    [] s = "tdfiles"                  -> Nodes \cup {StateName}
    [] OTHER                          -> {}

TypeOK ==
  /\ pc \in [Procs -> Active \cup Ended \cup {"idle"}]
  /\ cmd \in [Procs -> {"deploy", "destroy"}]
  /\ lab \in [Procs -> Labs]
  /\ todo \in [Procs -> SUBSET (Nodes \cup Links \cup Labs \cup {StateName})]
  /\ cur \in [Procs -> Nodes \cup Links \cup {"-"}]
  /\ netns \subseteq LabNodes
  /\ conf \in [LabNodes -> SUBSET ConfStages]
  /\ veth \in [Procs \X Links -> {"none", "host", "half", "moved", "named"}]
  /\ bridge \subseteq Labs
  /\ mveth \in [LabNodes -> {"none", "host", "moved"}]
  /\ labDir \subseteq Labs
  /\ nodeDir \in [LabNodes -> {"none", "dir", "env"}]
  /\ stateFile \in [Labs -> {"none", "partial", "ok"}]
  /\ faults \in 0 .. MaxFaults
  /\ spoilt \subseteq Labs

Init ==
  /\ pc = [p \in Procs |-> "idle"]
  /\ cmd \in [Procs -> {"deploy", "destroy"}]
  /\ lab \in [Procs -> Labs]
  /\ todo = [p \in Procs |-> {}]
  /\ cur = [p \in Procs |-> "-"]
  /\ netns = {}
  /\ conf = [x \in LabNodes |-> {}]
  /\ veth = [x \in Procs \X Links |-> "none"]
  /\ bridge = {}
  /\ mveth = [x \in LabNodes |-> "none"]
  /\ labDir = {}
  /\ nodeDir = [x \in LabNodes |-> "none"]
  /\ stateFile = [l \in Labs |-> "none"]
  /\ faults = 0
  /\ spoilt = {}

-----------------------------------------------------------------------------
(* Control.                                                                *)

(* One external command or file operation with outcome o.  It can only     *)
(* succeed when the objects it names are there (pre); a failure without    *)
(* that cause, or after the effect, is a fault.                            *)
Outcome(pre, o, kinds) ==
  /\ o # "err" => pre
  /\ IF o = "late" \/ (o = "err" /\ pre)
     THEN o \in kinds /\ faults < MaxFaults /\ faults' = faults + 1
     ELSE UNCHANGED faults

Attempt(pre, o) == Outcome(pre, o, FaultKinds) /\ UNCHANGED spoilt

(* The same in a teardown.                                                 *)
Remove(p, pre, o) ==
  /\ Outcome(pre, o, TeardownFaults)
  /\ spoilt' = IF faults' = faults THEN spoilt ELSE spoilt \cup {lab[p]}

Outcomes == {"ok", "err", "late"}

Goto(p, s, t) ==
  /\ pc' = [pc EXCEPT ![p] = s]
  /\ todo' = [todo EXCEPT ![p] = t]

(* Mutants of OrRollback: no rollback, and one without the management      *)
(* network.                                                                *)
NoRollback(p, o, s, t) ==
  IF o = "ok" THEN Goto(p, s, t) ELSE Goto(p, "failed", {})
RollbackWithoutMgmt(p, o, s, t) ==
  IF o = "ok" THEN Goto(p, s, t) ELSE Goto(p, "tdns", Nodes)

(* An error return of the deploy handler runs its deferred rollback.       *)
OrRollback(p, o, s, t) ==
  IF o = "ok" THEN Goto(p, s, t) ELSE Goto(p, "tdnetem", Work("tdnetem", lab[p]))

(* A loop is over: the next stage starts.                                  *)
EndStage(p) ==
  /\ pc[p] \in DOMAIN After /\ todo[p] = {}
  /\ Goto(p, After[pc[p]], Work(After[pc[p]], lab[p]))
  /\ UNCHANGED <<procVars, cur, kernel, files, history>>

(* The process takes up the next element of its loop and goes to step s.   *)
Take(p, x, o, s) ==
  /\ cur' = [cur EXCEPT ![p] = x]
  /\ OrRollback(p, o, s, todo[p])

(* Mutant of Finish: the loop goes on after an error.                      *)
FinishIgnoringErrors(p, x, o, s) ==
  /\ cur' = [cur EXCEPT ![p] = "-"]
  /\ Goto(p, s, todo[p] \ {x})

(* It is done with that element and returns to the head of the loop.       *)
Finish(p, x, o, s) ==
  /\ cur' = [cur EXCEPT ![p] = "-"]
  /\ OrRollback(p, o, s, todo[p] \ {x})

(* Mutant of On: a name without the lab.                                   *)
OnWithoutLab(p, n) == <<n, n>>

(* The namespace of a node, named after the lab and the node.              *)
On(p, n) == <<lab[p], n>>

-----------------------------------------------------------------------------
(* Starting, and dying.                                                    *)

Start(p) ==
  /\ pc[p] = "idle"
  /\ SameLab \/ \A q \in Procs : pc[q] \in Active => lab[q] # lab[p]
  /\ Goto(p, IF cmd[p] = "deploy" THEN "precheck" ELSE "load", {})
  /\ UNCHANGED <<procVars, cur, kernel, files, history>>

(* deploy refuses a lab whose run directory exists.                        *)
Precheck(p) ==
  /\ pc[p] = "precheck"
  /\ Goto(p, IF lab[p] \in labDir THEN "refused" ELSE "plan", {})
  /\ UNCHANGED <<procVars, cur, kernel, files, history>>

(* Mutant of Load: destroy forgets the management network.                 *)
LoadWithoutMgmt(p) ==
  /\ pc[p] = "load"
  /\ IF stateFile[lab[p]] = "ok" THEN Goto(p, "tdns", Nodes) ELSE Goto(p, "refused", {})
  /\ UNCHANGED <<procVars, cur, kernel, files, history>>

(* destroy needs a readable lab-state.json.                                *)
Load(p) ==
  /\ pc[p] = "load"
  /\ IF stateFile[lab[p]] = "ok"
     THEN Goto(p, "tdnetem", Work("tdnetem", lab[p]))
     ELSE Goto(p, "refused", {})
  /\ UNCHANGED <<procVars, cur, kernel, files, history>>

(* A signal: deferred functions do not run.                                *)
Kill(p) ==
  /\ pc[p] \in Active
  /\ "kill" \in FaultKinds /\ faults < MaxFaults
  /\ Goto(p, "killed", {})
  /\ cur' = [cur EXCEPT ![p] = "-"]
  /\ faults' = faults + 1
  /\ UNCHANGED <<procVars, kernel, files, spoilt>>

-----------------------------------------------------------------------------
(* deploy.                                                                 *)

(* topology.Build and AllocateAddresses only touch the configuration, but  *)
(* may reject it.                                                          *)
Plan(p) == \E o \in {"ok", "err"} :
  /\ pc[p] = "plan"
  /\ Attempt(TRUE, o)
  /\ OrRollback(p, o, "nodes", Nodes)
  /\ UNCHANGED <<procVars, cur, kernel, files>>

EnsureLabDirs(p) == \E n \in todo[p], o \in Outcomes :
  /\ pc[p] = "nodes"
  /\ Attempt(TRUE, o)
  /\ IF o = "err" THEN UNCHANGED files
     ELSE /\ labDir' = labDir \cup {lab[p]}
          /\ nodeDir' = [nodeDir EXCEPT ![On(p, n)] = IF @ = "none" THEN "dir" ELSE @]
          /\ UNCHANGED stateFile
  /\ Take(p, n, o, "createns")
  /\ UNCHANGED <<procVars, kernel>>

CreateNamespace(p) == \E o \in Outcomes :
  /\ pc[p] = "createns"
  /\ Attempt(On(p, cur[p]) \notin netns, o)
  /\ netns' = IF o = "err" THEN netns ELSE netns \cup {On(p, cur[p])}
  /\ Take(p, cur[p], o, "loopup")
  /\ UNCHANGED <<procVars, conf, veth, bridge, mveth, files>>

EnsureLoopbackUp(p) == \E o \in {"ok", "err"} :
  /\ pc[p] = "loopup"
  /\ Attempt(On(p, cur[p]) \in netns, o)
  /\ Finish(p, cur[p], o, "nodes")
  /\ UNCHANGED <<procVars, kernel, files>>

(* The names v-<node>-<if> do not carry the lab: a pair of any lab that    *)
(* still has an end in the host namespace is in the way.                   *)
CreateVethPair(p) == \E k \in todo[p], o \in Outcomes :
  /\ pc[p] = "links"
  /\ Attempt((\A q \in Procs : veth[<<q, k>>] \notin {"host", "half"}), o)
  /\ veth' = IF o = "err" THEN veth ELSE [veth EXCEPT ![<<p, k>>] = "host"]
  /\ Take(p, k, o, "moveA")
  /\ UNCHANGED <<procVars, netns, conf, bridge, mveth, files>>

MoveEndA(p) == \E o \in Outcomes : LET k == cur[p] IN
  /\ pc[p] = "moveA"
  /\ Attempt(veth[<<p, k>>] = "host" /\ On(p, Ends[k][1]) \in netns, o)
  /\ veth' = IF o = "err" THEN veth ELSE [veth EXCEPT ![<<p, k>>] = "half"]
  /\ Take(p, k, o, "moveB")
  /\ UNCHANGED <<procVars, netns, conf, bridge, mveth, files>>

MoveEndB(p) == \E o \in Outcomes : LET k == cur[p] IN
  /\ pc[p] = "moveB"
  /\ Attempt(veth[<<p, k>>] = "half" /\ On(p, Ends[k][2]) \in netns, o)
  /\ veth' = IF o = "err" THEN veth ELSE [veth EXCEPT ![<<p, k>>] = "moved"]
  /\ Take(p, k, o, "linkconf")
  /\ UNCHANGED <<procVars, netns, conf, bridge, mveth, files>>

(* Both ends get their final names, addresses and come up.                 *)
ConfigureLink(p) == \E o \in Outcomes : LET k == cur[p] IN
  /\ pc[p] = "linkconf"
  /\ Attempt(/\ veth[<<p, k>>] = "moved"
             /\ (\A q \in Procs : lab[q] = lab[p] => veth[<<q, k>>] # "named"), o)
  /\ veth' = IF o = "err" THEN veth ELSE [veth EXCEPT ![<<p, k>>] = "named"]
  /\ Finish(p, k, o, "links")
  /\ UNCHANGED <<procVars, netns, conf, bridge, mveth, files>>

(* br0 in bridge nodes, sysctl, routes, netem, the startup script: commands *)
(* run inside an existing namespace, whose effect dies with it.            *)
ConfigureNode(p) == \E n \in todo[p], o \in Outcomes : LET s == pc[p] IN
  /\ s \in ConfStages
  /\ Attempt(On(p, n) \in netns, o)
  /\ conf' = IF o = "err" THEN conf ELSE [conf EXCEPT ![On(p, n)] = @ \cup {s}]
  /\ Finish(p, n, o, s)
  /\ UNCHANGED <<procVars, netns, veth, bridge, mveth, files>>

CreateMgmtBridge(p) == \E o \in Outcomes :
  /\ pc[p] = "mgmtbr" /\ lab[p] \in todo[p]
  /\ Attempt(lab[p] \notin bridge, o)
  /\ bridge' = IF o = "err" THEN bridge ELSE bridge \cup {lab[p]}
  /\ Finish(p, lab[p], o, "mgmtbr")
  /\ UNCHANGED <<procVars, netns, conf, veth, mveth, files>>

(* The peer is created under its final name eth0 in the host namespace,    *)
(* where there can be one eth0 at a time.                                  *)
CreateMgmtPair(p) == \E n \in todo[p], o \in Outcomes :
  /\ pc[p] = "mgmt"
  /\ Attempt(/\ ~HostEth0 /\ (\A x \in LabNodes : mveth[x] # "host")
             /\ mveth[On(p, n)] = "none", o)
  /\ mveth' = IF o = "err" THEN mveth ELSE [mveth EXCEPT ![On(p, n)] = "host"]
  /\ Take(p, n, o, "mgmtmove")
  /\ UNCHANGED <<procVars, netns, conf, veth, bridge, files>>

MoveMgmtEnd(p) == \E o \in Outcomes : LET x == On(p, cur[p]) IN
  /\ pc[p] = "mgmtmove"
  /\ Attempt(lab[p] \in bridge /\ mveth[x] = "host" /\ x \in netns, o)
  /\ mveth' = IF o = "err" THEN mveth ELSE [mveth EXCEPT ![x] = "moved"]
  /\ Take(p, cur[p], o, "mgmtconf")
  /\ UNCHANGED <<procVars, netns, conf, veth, bridge, files>>

ConfigureMgmtEnd(p) == \E o \in {"ok", "err"} : LET x == On(p, cur[p]) IN
  /\ pc[p] = "mgmtconf"
  /\ Attempt(mveth[x] = "moved", o)
  /\ Finish(p, cur[p], o, "mgmt")
  /\ UNCHANGED <<procVars, kernel, files>>

WriteNodeEnvFile(p) == \E n \in todo[p], o \in Outcomes :
  /\ pc[p] = "env"
  /\ Attempt(nodeDir[On(p, n)] # "none", o)
  /\ nodeDir' = IF o = "err" THEN nodeDir ELSE [nodeDir EXCEPT ![On(p, n)] = "env"]
  /\ Finish(p, n, o, "env")
  /\ UNCHANGED <<procVars, kernel, labDir, stateFile>>

(* labstate.Save is os.WriteFile: the file is truncated, then written.     *)
TruncateState(p) == \E o \in {"ok", "err"} :
  /\ pc[p] = "save"
  /\ Attempt(lab[p] \in labDir, o)
  /\ stateFile' = IF o = "err" THEN stateFile ELSE [stateFile EXCEPT ![lab[p]] = "partial"]
  /\ OrRollback(p, o, "write", {})
  /\ UNCHANGED <<procVars, cur, kernel, labDir, nodeDir>>

(* The last step of deploy: success = true.                                *)
WriteState(p) == \E o \in Outcomes :
  /\ pc[p] = "write"
  /\ Attempt(TRUE, o)
  /\ stateFile' = IF o = "err" \/ stateFile[lab[p]] = "none" THEN stateFile
                  ELSE [stateFile EXCEPT ![lab[p]] = "ok"]
  /\ OrRollback(p, o, "ok", {})
  /\ UNCHANGED <<procVars, cur, kernel, labDir, nodeDir>>

-----------------------------------------------------------------------------
(* Teardown: the rollback of a failed deploy, and destroy after Load.      *)
(* The errors of all but one of these commands are ignored.                *)

(* Mutant of Dropped: the loop does not advance.                           *)
DroppedNothing(p, x) == UNCHANGED <<pc, todo, procVars, cur>>

Dropped(p, x) ==
  /\ todo' = [todo EXCEPT ![p] = @ \ {x}]
  /\ UNCHANGED <<pc, procVars, cur>>

ClearNetem(p) == \E n \in todo[p], o \in Outcomes :
  /\ pc[p] = "tdnetem"
  /\ Remove(p, On(p, n) \in netns, o)
  /\ conf' = IF o = "err" THEN conf ELSE [conf EXCEPT ![On(p, n)] = @ \ {"netem"}]
  /\ Dropped(p, n)
  /\ UNCHANGED <<netns, veth, bridge, mveth, files>>

DeleteMgmtVeth(p) == \E n \in todo[p], o \in Outcomes :
  /\ pc[p] = "tdmgmt"
  /\ Remove(p, mveth[On(p, n)] # "none", o)
  /\ mveth' = IF o = "err" THEN mveth ELSE [mveth EXCEPT ![On(p, n)] = "none"]
  /\ Dropped(p, n)
  /\ UNCHANGED <<netns, conf, veth, bridge, files>>

(* The one error that counts: destroy returns it, before the namespaces    *)
(* are deleted.  The rollback of a deploy goes on.                         *)
DeleteMgmtBridge(p) == \E o \in Outcomes :
  /\ pc[p] = "tdbridge" /\ lab[p] \in todo[p]
  /\ Remove(p, lab[p] \in bridge, o)
  /\ bridge' = IF o = "err" THEN bridge ELSE bridge \ {lab[p]}
  /\ IF o # "ok" /\ cmd[p] = "destroy" THEN Goto(p, "failed", {})
                                       ELSE Goto(p, "tdbridge", {})
  /\ UNCHANGED <<procVars, cur, netns, conf, veth, mveth, files>>

(* Has pair y an end in namespace x?                                       *)
HasEndIn(y, x) ==
  /\ lab[y[1]] = x[1]
  /\ \/ Ends[y[2]][1] = x[2] /\ veth[y] \in {"half", "moved", "named"}
     \/ Ends[y[2]][2] = x[2] /\ veth[y] \in {"moved", "named"}

(* Deleting a namespace destroys the interfaces in it, and the peer of a   *)
(* veth goes with it wherever it is.                                       *)
DeleteNamespace(p) == \E n \in todo[p], o \in Outcomes : LET x == On(p, n) IN
  /\ pc[p] = "tdns"
  /\ Remove(p, x \in netns, o)
  /\ IF o = "err" THEN UNCHANGED kernel
     ELSE /\ netns' = netns \ {x}
          /\ conf' = [conf EXCEPT ![x] = {}]
          /\ veth' = [y \in Procs \X Links |-> IF HasEndIn(y, x) THEN "none" ELSE veth[y]]
          /\ mveth' = [mveth EXCEPT ![x] = IF @ = "moved" THEN "none" ELSE @]
          /\ UNCHANGED bridge
  /\ Dropped(p, n)
  /\ UNCHANGED files

(* os.RemoveAll of the run directory: its entries in any order, then the   *)
(* directory, which stays when an entry is left in it.                     *)
RemoveEntry(p) == \E e \in todo[p], o \in {"ok", "err"} :
  /\ pc[p] = "tdfiles"
  /\ Remove(p, TRUE, o)
  /\ IF o = "err" THEN UNCHANGED files
     ELSE /\ stateFile' = IF e = StateName THEN [stateFile EXCEPT ![lab[p]] = "none"] ELSE stateFile
          /\ nodeDir' = IF e \in Nodes THEN [nodeDir EXCEPT ![On(p, e)] = "none"] ELSE nodeDir
          /\ UNCHANGED labDir
  /\ Dropped(p, e)
  /\ UNCHANGED kernel

RemoveLabDir(p) == \E o \in {"ok", "err"} :
  /\ pc[p] = "tddir"
  /\ Remove(p, /\ lab[p] \in labDir /\ stateFile[lab[p]] = "none"
             /\ (\A n \in Nodes : nodeDir[On(p, n)] = "none"), o)
  /\ labDir' = IF o = "err" THEN labDir ELSE labDir \ {lab[p]}
  /\ Goto(p, IF cmd[p] = "deploy" THEN "failed" ELSE "ok", {})
  /\ UNCHANGED <<procVars, cur, kernel, nodeDir, stateFile>>

-----------------------------------------------------------------------------
Deploy(p) ==
  \/ Precheck(p) \/ Plan(p)
  \/ EnsureLabDirs(p) \/ CreateNamespace(p) \/ EnsureLoopbackUp(p)
  \/ CreateVethPair(p) \/ MoveEndA(p) \/ MoveEndB(p) \/ ConfigureLink(p)
  \/ ConfigureNode(p) \/ WriteNodeEnvFile(p)
  \/ CreateMgmtBridge(p) \/ CreateMgmtPair(p) \/ MoveMgmtEnd(p) \/ ConfigureMgmtEnd(p)
  \/ TruncateState(p) \/ WriteState(p)

TearDown(p) ==
  \/ Load(p) \/ ClearNetem(p) \/ DeleteMgmtVeth(p) \/ DeleteMgmtBridge(p)
  \/ DeleteNamespace(p) \/ RemoveEntry(p) \/ RemoveLabDir(p)

Step(p) == Deploy(p) \/ TearDown(p) \/ EndStage(p)

Next == \E p \in Procs : Start(p) \/ Step(p) \/ Kill(p)

Spec == Init /\ [][Next]_vars

(* runCommand bounds every command by ten seconds; only RunStartupExec has *)
(* no timeout: a step at "exec" may never come.                            *)
Fairness == \A p \in Procs : WF_vars(Step(p) /\ pc[p] # "exec")
FairSpec == Spec /\ Fairness

-----------------------------------------------------------------------------
(* Properties.                                                             *)

(* All of the lab exists, as deploy builds it.                             *)
Built(l) ==
  /\ l \in labDir
  /\ \A n \in Nodes :
       /\ <<l, n>> \in netns
       /\ \A s \in ConfStages : n \in StageNodes[s] => s \in conf[<<l, n>>]
       /\ nodeDir[<<l, n>>] # "none" /\ (n \in StageNodes["env"] => nodeDir[<<l, n>>] = "env")
  /\ \A k \in Links : \E p \in Procs : lab[p] = l /\ veth[<<p, k>>] = "named"
  /\ MgmtEnabled => l \in bridge /\ \A n \in Nodes : mveth[<<l, n>>] = "moved"

(* Something of it is left in the kernel under the lab's own names.        *)
Exists(l) ==
  \/ l \in bridge
  \/ \E n \in Nodes : <<l, n>> \in netns \/ mveth[<<l, n>>] # "none"

Busy(l) == \E p \in Procs : lab[p] = l /\ pc[p] \in Working

(* Whatever was killed when: a lab of which the kernel still has a         *)
(* namespace, a bridge or a management link has a run directory, so that   *)
(* the precheck of deploy keeps the next deploy off it (EnsureLabDirs comes *)
(* before the first namespace, RemoveLabDirs after the last).  Only a      *)
(* teardown command that fails, which the code ignores, breaks that.       *)
LeftoversKeepTheirDir == \A l \in Labs \ spoilt : Exists(l) => l \in labDir

(* lab-state.json is completed only when every object of the lab exists    *)
(* and is configured, whatever failed, was late or was left by an earlier  *)
(* command on it: what show, destroy and the UI read is true when written. *)
SavedOnlyWhenBuilt ==
  [][\A l \in Labs : stateFile[l] # "ok" /\ stateFile'[l] = "ok" => Built(l)]_vars

(* Deploy and destroy implement LabRegistry: a lab on which no command     *)
(* works is either deployed, all of it, or gone, all of it, unless a kill  *)
(* or a failed removal damaged it.  Pairs left                             *)
(* with both ends in the host namespace are left out: no rollback and no   *)
(* destroy removes those.                                                  *)
Pairs(l) == {y \in Procs \X Links : lab[y[1]] = l /\ veth[y] \in {"half", "moved", "named"}}

Damaged(l) == l \in spoilt \/ \E p \in Procs : lab[p] = l /\ pc[p] = "killed"

StatusOf(l) ==
  IF Damaged(l) THEN "damaged"
  ELSE IF Busy(l)
  THEN IF \E p \in Procs : lab[p] = l /\ pc[p] \in Working /\ cmd[p] = "deploy"
       THEN "building" ELSE "removing"
  ELSE IF stateFile[l] = "ok" THEN "deployed" ELSE "absent"

ExtentOf(l) ==
  IF Built(l) THEN "all"
  ELSE IF Exists(l) \/ l \in labDir \/ Pairs(l) # {} THEN "some" ELSE "none"

Registry == INSTANCE LabRegistry WITH
  status <- [l \in Labs |-> StatusOf(l)],
  extent <- [l \in Labs |-> ExtentOf(l)]

ImplementsRegistry == Registry!Spec

(* On a host with one lab, deploys and destroys in any sequence only fail  *)
(* when something went wrong in one of them: each leaves behind what the   *)
(* next one needs, and nothing that is in its way.                         *)
FaultFreeNeverFails ==
  faults = 0 /\ (\A p, q \in Procs : lab[p] = lab[q]) => \A p \in Procs : pc[p] # "failed"

(* Every command that is started ends, unless it waits for a startup       *)
(* script for ever.                                                        *)
EveryCommandEnds ==
  \A p \in Procs : []<>(pc[p] \in Ended \cup {"idle"}) \/ <>[](pc[p] = "exec")

-----------------------------------------------------------------------------
(* What the program says of itself and does not keep.                      *)

(* README.md:117, `destroy LAB` tears down the deployed lab: a destroy that *)
(* ran to its end, and was not refused, leaves no namespace of the lab.    *)
DestroyTearsDown ==
  [][\A p \in Procs : pc[p] \in Teardown /\ cmd[p] = "destroy" /\ pc'[p] \in {"ok", "failed"}
       => \A n \in Nodes : <<lab[p], n>> \notin netns']_vars

(* commands.go:47, a lab already deployed is left alone by another deploy: *)
(* no rollback removes a namespace of a lab whose state file is complete.  *)
DeployedSurvivesDeploy ==
  [][\A p \in Procs : pc[p] = "tdns" /\ cmd[p] = "deploy" /\ netns' # netns
       => stateFile[lab[p]] # "ok"]_vars
=============================================================================
