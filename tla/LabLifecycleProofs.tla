------------------------- MODULE LabLifecycleProofs -------------------------
(***************************************************************************)
(* Theorems about LabLifecycle, for any number of processes, labs, nodes,  *)
(* links and faults: types and the counts of faults, what a command leaves *)
(* behind when it is killed or fails, what lab-state.json says of a lab,   *)
(* the implementation of LabRegistry, and that a command without faults    *)
(* succeeds.                                                               *)
(***************************************************************************)
EXTENDS LabLifecycle, TLAPS

-----------------------------------------------------------------------------
(* What a process may hold.                                                *)

(* The steps that hold a node, those that hold a link, and the stages      *)
(* whose loop is over nodes.                                               *)
NodeSteps == {"createns", "loopup", "mgmtmove", "mgmtconf"}
LinkSteps == {"moveA", "moveB", "linkconf"}
NodeLoops == {"nodes", "mgmt", "tdnetem", "tdmgmt", "tdns"} \cup StageNames

PCs == Active \cup Ended \cup {"idle"}

(* What a process at step s may hold: a loop only goes over what it is     *)
(* meant for.                                                              *)
LoopOK(s, t, c) ==
  /\ s \in PCs
  /\ t \subseteq Nodes \cup Links \cup Labs \cup {StateName}
  /\ c \in Nodes \cup Links \cup {"-"}
  /\ s \in NodeLoops \cup NodeSteps => t \subseteq Nodes
  /\ s \in NodeSteps => c \in Nodes
  /\ s \in LinkSteps \cup {"links"} => t \subseteq Links
  /\ s \in LinkSteps => c \in Links

LoopsOK == \A p \in Procs : LoopOK(pc[p], todo[p], cur[p])

(* The types of the variables that are not control.                        *)
DataOK ==
  /\ cmd \in [Procs -> {"deploy", "destroy"}]
  /\ lab \in [Procs -> Labs]
  /\ netns \subseteq LabNodes
  /\ conf \in [LabNodes -> SUBSET ConfStages]
  /\ veth \in [Procs \X Links -> {"none", "host", "half", "moved", "named"}]
  /\ bridge \subseteq Labs
  /\ mveth \in [LabNodes -> {"none", "host", "moved"}]
  /\ labDir \subseteq Labs
  /\ nodeDir \in [LabNodes -> {"none", "dir", "env"}]
  /\ stateFile \in [Labs -> {"none", "partial", "ok"}]
  /\ faults \in 0 .. MaxFaults
  /\ spoilt \subseteq Labs

Functions == pc = [p \in Procs |-> pc[p]] /\ todo = [p \in Procs |-> todo[p]] /\ cur = [p \in Procs |-> cur[p]]

TypeInv == DataOK /\ Functions /\ LoopsOK

LEMMA TypeInvType == TypeInv => TypeOK
<1> SUFFICES ASSUME TypeInv PROVE TypeOK
  OBVIOUS
<1>1. \A p \in Procs : /\ pc[p] \in Active \cup Ended \cup {"idle"}
                       /\ todo[p] \in SUBSET (Nodes \cup Links \cup Labs \cup {StateName})
                       /\ cur[p] \in Nodes \cup Links \cup {"-"}
  BY DEF TypeInv, LoopsOK, LoopOK, PCs
<1> QED
  BY <1>1 DEF TypeInv, TypeOK, DataOK, Functions

-----------------------------------------------------------------------------
(* The control of a process and its type.                                  *)

LEMMA ControlStep ==
  ASSUME TypeInv, NEW p \in Procs, NEW s, NEW t, NEW c, LoopOK(s, t, c),
         pc' = [pc EXCEPT ![p] = s], todo' = [todo EXCEPT ![p] = t],
         cur' = [cur EXCEPT ![p] = c]
  PROVE  (Functions /\ LoopsOK)'
BY DEF TypeInv, Functions, LoopsOK

LEMMA GotoStays ==
  ASSUME TypeInv, NEW p \in Procs, NEW s, NEW t, Goto(p, s, t), cur' = cur,
         LoopOK(s, t, cur[p])
  PROVE  (Functions /\ LoopsOK)'
<1>1. cur' = [cur EXCEPT ![p] = cur[p]]
  BY DEF TypeInv, Functions
<1> QED
  BY <1>1, ControlStep DEF Goto

(* Where a rollback starts.                                                *)
LEMMA RollbackOK ==
  ASSUME TypeInv, NEW l \in Labs, NEW c \in Nodes \cup Links \cup {"-"}
  PROVE  LoopOK("tdnetem", Work("tdnetem", l), c)
BY ConstantsOK DEF LoopOK, Work, PCs, Active, Working, Teardown, NodeSteps, LinkSteps, StageNames

LEMMA OrRollbackOK ==
  ASSUME TypeInv, NEW p \in Procs, NEW s, NEW t, NEW o, OrRollback(p, o, s, t),
         NEW c \in Nodes \cup Links \cup {"-"}, cur' = [cur EXCEPT ![p] = c],
         LoopOK(s, t, c)
  PROVE  (Functions /\ LoopsOK)'
<1>1. LoopOK("tdnetem", Work("tdnetem", lab[p]), c)
  BY RollbackOK DEF TypeInv, DataOK
<1> QED
  BY <1>1, ControlStep DEF OrRollback, Goto

LEMMA TakeOK ==
  ASSUME TypeInv, NEW p \in Procs, NEW x, NEW o, NEW s, Take(p, x, o, s),
         LoopOK(s, todo[p], x)
  PROVE  (Functions /\ LoopsOK)'
<1>1. x \in Nodes \cup Links \cup {"-"}
  BY DEF LoopOK
<1> QED
  BY <1>1, OrRollbackOK DEF Take

LEMMA FinishOK ==
  ASSUME TypeInv, NEW p \in Procs, NEW x, NEW o, NEW s, Finish(p, x, o, s),
         LoopOK(s, todo[p] \ {x}, "-")
  PROVE  (Functions /\ LoopsOK)'
BY OrRollbackOK DEF Finish

LEMMA DroppedOK ==
  ASSUME TypeInv, NEW p \in Procs, NEW x, Dropped(p, x), pc[p] \notin NodeSteps \cup LinkSteps
  PROVE  (Functions /\ LoopsOK)'
<1>1. LoopOK(pc[p], todo[p] \ {x}, cur[p])
  BY DEF TypeInv, LoopsOK, LoopOK
<1>2. Goto(p, pc[p], todo[p] \ {x}) /\ cur' = cur
  BY DEF Dropped, Goto, TypeInv, Functions
<1> QED
  BY <1>1, <1>2, GotoStays

LEMMA WorkOK ==
  ASSUME NEW s \in DOMAIN After, NEW l \in Labs, NEW c \in Nodes \cup Links \cup {"-"}
  PROVE  LoopOK(After[s], Work(After[s], l), c)
BY ConstantsOK DEF LoopOK, After, Work, PCs, Active, Working, Building, Teardown, NodeSteps,
     LinkSteps, NodeLoops, StageNames

-----------------------------------------------------------------------------
(* Types.                                                                  *)

LEMMA TypeInvInit == Init => TypeInv
<1> SUFFICES ASSUME Init PROVE TypeInv
  OBVIOUS
<1>1. DataOK
  BY ConstantsOK DEF Init, DataOK, LabNodes
<1>2. \A p \in Procs : LoopOK("idle", {}, "-")
  BY DEF LoopOK, PCs, NodeSteps, LinkSteps, NodeLoops, StageNames
<1> QED
  BY <1>1, <1>2 DEF Init, TypeInv, Functions, LoopsOK

(* What each step leaves of the types.                                     *)
LEMMA DataNext == TypeInv /\ [Next]_vars => DataOK'
<1> SUFFICES ASSUME TypeInv, [Next]_vars PROVE DataOK'
  OBVIOUS
<1> USE ConstantsOK DEF TypeInv, DataOK, LoopsOK, LoopOK, NodeSteps, LinkSteps, LabNodes,
      kernel, files, procVars, history, Outcome, On
<1>1. ASSUME NEW p \in Procs, Start(p) PROVE DataOK'
  BY <1>1 DEF Start
<1>2. ASSUME NEW p \in Procs, Precheck(p) PROVE DataOK'
  BY <1>2 DEF Precheck
<1>3. ASSUME NEW p \in Procs, Load(p) PROVE DataOK'
  BY <1>3 DEF Load
<1>4. ASSUME NEW p \in Procs, Kill(p) PROVE DataOK'
  BY <1>4 DEF Kill
<1>5. ASSUME NEW p \in Procs, Plan(p) PROVE DataOK'
  BY <1>5 DEF Plan, Attempt
<1>6. ASSUME NEW p \in Procs, EnsureLabDirs(p) PROVE DataOK'
  <2>0. faults' \in 0 .. MaxFaults
    BY <1>6 DEF EnsureLabDirs, Attempt
  <2>1. PICK n \in todo[p] :
          /\ pc[p] = "nodes"
          /\ UNCHANGED <<cmd, lab, netns, conf, veth, bridge, mveth, stateFile, spoilt>>
          /\ labDir' = labDir \/ labDir' = labDir \cup {lab[p]}
          /\ nodeDir' = nodeDir \/ nodeDir' = [nodeDir EXCEPT ![On(p, n)] = IF @ = "none" THEN "dir" ELSE @]
    BY <1>6 DEF EnsureLabDirs, Attempt
  <2>2. On(p, n) \in LabNodes
    BY <2>1 DEF NodeLoops
  <2>3. nodeDir' \in [LabNodes -> {"none", "dir", "env"}]
    <3>1. nodeDir[On(p, n)] \in {"none", "dir", "env"}
      BY <2>2
    <3>2. PICK d \in {"none", "dir", "env"} :
            nodeDir' = nodeDir \/ nodeDir' = [nodeDir EXCEPT ![On(p, n)] = d]
      BY <2>1, <3>1
    <3> HIDE DEF On, LabNodes
    <3> QED
      BY <3>2
  <2>4. labDir' \subseteq Labs
    BY <2>1
  <2> HIDE DEF On, LabNodes
  <2> QED
    BY <2>0, <2>1, <2>3, <2>4
<1>7. ASSUME NEW p \in Procs, CreateNamespace(p) PROVE DataOK'
  BY <1>7 DEF CreateNamespace, Attempt
<1>8. ASSUME NEW p \in Procs, EnsureLoopbackUp(p) PROVE DataOK'
  BY <1>8 DEF EnsureLoopbackUp, Attempt
<1>9. ASSUME NEW p \in Procs, CreateVethPair(p) PROVE DataOK'
  BY <1>9 DEF CreateVethPair, Attempt
<1>10. ASSUME NEW p \in Procs, MoveEndA(p) PROVE DataOK'
  BY <1>10 DEF MoveEndA, Attempt
<1>11. ASSUME NEW p \in Procs, MoveEndB(p) PROVE DataOK'
  BY <1>11 DEF MoveEndB, Attempt
<1>12. ASSUME NEW p \in Procs, ConfigureLink(p) PROVE DataOK'
  BY <1>12 DEF ConfigureLink, Attempt
<1>13. ASSUME NEW p \in Procs, ConfigureNode(p) PROVE DataOK'
  BY <1>13 DEF ConfigureNode, Attempt, NodeLoops, ConfStages
<1>14. ASSUME NEW p \in Procs, CreateMgmtBridge(p) PROVE DataOK'
  BY <1>14 DEF CreateMgmtBridge, Attempt
<1>15. ASSUME NEW p \in Procs, CreateMgmtPair(p) PROVE DataOK'
  BY <1>15 DEF CreateMgmtPair, Attempt, NodeLoops
<1>16. ASSUME NEW p \in Procs, MoveMgmtEnd(p) PROVE DataOK'
  BY <1>16 DEF MoveMgmtEnd, Attempt
<1>17. ASSUME NEW p \in Procs, ConfigureMgmtEnd(p) PROVE DataOK'
  BY <1>17 DEF ConfigureMgmtEnd, Attempt
<1>18. ASSUME NEW p \in Procs, WriteNodeEnvFile(p) PROVE DataOK'
  BY <1>18 DEF WriteNodeEnvFile, Attempt, NodeLoops, StageNames
<1>19. ASSUME NEW p \in Procs, TruncateState(p) PROVE DataOK'
  BY <1>19 DEF TruncateState, Attempt
<1>20. ASSUME NEW p \in Procs, WriteState(p) PROVE DataOK'
  BY <1>20 DEF WriteState, Attempt
<1>21. ASSUME NEW p \in Procs, ClearNetem(p) PROVE DataOK'
  BY <1>21 DEF ClearNetem, Remove, NodeLoops, Dropped
<1>22. ASSUME NEW p \in Procs, DeleteMgmtVeth(p) PROVE DataOK'
  BY <1>22 DEF DeleteMgmtVeth, Remove, NodeLoops, Dropped
<1>23. ASSUME NEW p \in Procs, DeleteMgmtBridge(p) PROVE DataOK'
  BY <1>23 DEF DeleteMgmtBridge, Remove, Dropped
<1>24. ASSUME NEW p \in Procs, DeleteNamespace(p) PROVE DataOK'
  <2>1. PICK n \in todo[p], o \in Outcomes :
          /\ Remove(p, On(p, n) \in netns, o) /\ Dropped(p, n) /\ UNCHANGED files
          /\ IF o = "err" THEN UNCHANGED kernel
             ELSE /\ netns' = netns \ {On(p, n)}
                  /\ conf' = [conf EXCEPT ![On(p, n)] = {}]
                  /\ veth' = [y \in Procs \X Links |-> IF HasEndIn(y, On(p, n)) THEN "none" ELSE veth[y]]
                  /\ mveth' = [mveth EXCEPT ![On(p, n)] = IF @ = "moved" THEN "none" ELSE @]
                  /\ UNCHANGED bridge
    BY <1>24 DEF DeleteNamespace
  <2>2. /\ cmd' = cmd /\ lab' = lab /\ labDir' = labDir /\ nodeDir' = nodeDir /\ stateFile' = stateFile
        /\ faults' \in 0 .. MaxFaults /\ spoilt' \subseteq Labs
    BY <2>1 DEF Remove, Dropped
  <2>3. netns' \subseteq LabNodes /\ bridge' \subseteq Labs
    BY <2>1
  <2>4. conf' \in [LabNodes -> SUBSET ConfStages]
    <3>1. conf' = conf \/ conf' = [conf EXCEPT ![On(p, n)] = {}]
      BY <2>1
    <3> QED
      BY <3>1
  <2>5. mveth' \in [LabNodes -> {"none", "host", "moved"}]
    <3>1. PICK v \in {"none", mveth[On(p, n)]} :
            mveth' = mveth \/ mveth' = [mveth EXCEPT ![On(p, n)] = v]
      BY <2>1
    <3>2. On(p, n) \in LabNodes
      BY <1>24 DEF DeleteNamespace, NodeLoops
    <3>3. v \in {"none", "host", "moved"}
      BY <3>2
    <3> HIDE DEF On, LabNodes
    <3> QED
      BY <3>1, <3>3
  <2>6. veth' \in [Procs \X Links -> {"none", "host", "half", "moved", "named"}]
    BY <2>1
  <2> QED
    BY <2>2, <2>3, <2>4, <2>5, <2>6
<1>25. ASSUME NEW p \in Procs, RemoveEntry(p) PROVE DataOK'
  <2>1. PICK e \in todo[p], o \in {"ok", "err"} :
          /\ Remove(p, TRUE, o) /\ Dropped(p, e) /\ UNCHANGED kernel
          /\ IF o = "err" THEN UNCHANGED files
             ELSE /\ stateFile' = IF e = StateName THEN [stateFile EXCEPT ![lab[p]] = "none"] ELSE stateFile
                  /\ nodeDir' = IF e \in Nodes THEN [nodeDir EXCEPT ![On(p, e)] = "none"] ELSE nodeDir
                  /\ UNCHANGED labDir
    BY <1>25 DEF RemoveEntry
  <2>2. /\ cmd' = cmd /\ lab' = lab /\ netns' = netns /\ conf' = conf /\ veth' = veth
        /\ bridge' = bridge /\ mveth' = mveth
        /\ faults' \in 0 .. MaxFaults /\ spoilt' \subseteq Labs
    BY <2>1 DEF Remove, Dropped
  <2>3. labDir' \subseteq Labs /\ nodeDir' \in [LabNodes -> {"none", "dir", "env"}]
    BY <2>1
  <2>4. stateFile' \in [Labs -> {"none", "partial", "ok"}]
    BY <2>1
  <2> QED
    BY <2>2, <2>3, <2>4
<1>26. ASSUME NEW p \in Procs, RemoveLabDir(p) PROVE DataOK'
  BY <1>26 DEF RemoveLabDir, Remove
<1>27. ASSUME NEW p \in Procs, EndStage(p) PROVE DataOK'
  BY <1>27 DEF EndStage
<1>28. CASE UNCHANGED vars
  BY <1>28 DEF vars
<1> QED
  BY <1>1, <1>2, <1>3, <1>4, <1>5, <1>6, <1>7, <1>8, <1>9, <1>10, <1>11, <1>12, <1>13, <1>14,
     <1>15, <1>16, <1>17, <1>18, <1>19, <1>20, <1>21, <1>22, <1>23, <1>24, <1>25, <1>26, <1>27, <1>28
  DEF Next, Step, Deploy, TearDown

LEMMA ControlNext == TypeInv /\ [Next]_vars => (Functions /\ LoopsOK)'
<1> SUFFICES ASSUME TypeInv, [Next]_vars PROVE (Functions /\ LoopsOK)'
  OBVIOUS
<1>0. \A p \in Procs : LoopOK(pc[p], todo[p], cur[p]) /\ lab[p] \in Labs
  BY DEF TypeInv, LoopsOK, DataOK
<1> USE DEF PCs, Active, Working, Building, Teardown, Ended, NodeSteps, LinkSteps, NodeLoops, StageNames
<1>1. ASSUME NEW p \in Procs, Start(p) PROVE (Functions /\ LoopsOK)'
  <2>1. Goto(p, "precheck", {}) \/ Goto(p, "load", {})
    BY <1>1 DEF Start, Goto
  <2>2. LoopOK("precheck", {}, cur[p]) /\ LoopOK("load", {}, cur[p])
    BY <1>0, RollbackOK DEF LoopOK
  <2>3. cur' = cur
    BY <1>1 DEF Start
  <2> QED
    BY <2>1, <2>2, <2>3, GotoStays
<1>2. ASSUME NEW p \in Procs, Precheck(p) PROVE (Functions /\ LoopsOK)'
  <2>1. Goto(p, "refused", {}) \/ Goto(p, "plan", {})
    BY <1>2 DEF Precheck, Goto
  <2>2. LoopOK("refused", {}, cur[p]) /\ LoopOK("plan", {}, cur[p])
    BY <1>0, RollbackOK DEF LoopOK
  <2>3. cur' = cur
    BY <1>2 DEF Precheck
  <2> QED
    BY <2>1, <2>2, <2>3, GotoStays
<1>3. ASSUME NEW p \in Procs, Load(p) PROVE (Functions /\ LoopsOK)'
  <2>1. Goto(p, "tdnetem", Work("tdnetem", lab[p])) \/ Goto(p, "refused", {})
    BY <1>3 DEF Load, Goto
  <2>2. LoopOK("tdnetem", Work("tdnetem", lab[p]), cur[p]) /\ LoopOK("refused", {}, cur[p])
    BY <1>0, RollbackOK DEF LoopOK
  <2>3. cur' = cur
    BY <1>3 DEF Load
  <2> QED
    BY <2>1, <2>2, <2>3, GotoStays
<1>4. ASSUME NEW p \in Procs, Kill(p) PROVE (Functions /\ LoopsOK)'
  <2>1. LoopOK("killed", {}, "-")
    BY DEF LoopOK
  <2> QED
    BY <1>4, <2>1, ControlStep DEF Kill, Goto
<1>5. ASSUME NEW p \in Procs, Plan(p) PROVE (Functions /\ LoopsOK)'
  <2>1. PICK o \in Outcomes : pc[p] = "plan" /\ OrRollback(p, o, "nodes", Nodes)
    BY <1>5 DEF Plan, Outcomes
  <2>2. cur' = [cur EXCEPT ![p] = cur[p]] /\ LoopOK("nodes", Nodes, cur[p]) /\ cur[p] \in Nodes \cup Links \cup {"-"}
    BY <1>0, <1>5 DEF Plan, LoopOK, TypeInv, Functions
  <2> QED
    BY <2>1, <2>2, OrRollbackOK
<1>6. ASSUME NEW p \in Procs, EnsureLabDirs(p) PROVE (Functions /\ LoopsOK)'
  <2>1. PICK x \in todo[p], o \in Outcomes : pc[p] = "nodes" /\ Take(p, x, o, "createns")
    BY <1>6 DEF EnsureLabDirs
  <2>2. LoopOK("createns", todo[p], x)
    BY <1>0, <2>1 DEF LoopOK
  <2> QED
    BY <2>1, <2>2, TakeOK
<1>7. ASSUME NEW p \in Procs, CreateNamespace(p) PROVE (Functions /\ LoopsOK)'
  <2>1. PICK o \in Outcomes : pc[p] = "createns" /\ Take(p, cur[p], o, "loopup")
    BY <1>7 DEF CreateNamespace
  <2>2. LoopOK("loopup", todo[p], cur[p])
    BY <1>0, <2>1 DEF LoopOK
  <2> QED
    BY <2>1, <2>2, TakeOK
<1>8. ASSUME NEW p \in Procs, EnsureLoopbackUp(p) PROVE (Functions /\ LoopsOK)'
  <2>1. PICK o \in Outcomes : pc[p] = "loopup" /\ Finish(p, cur[p], o, "nodes")
    BY <1>8 DEF EnsureLoopbackUp, Outcomes
  <2>2. LoopOK("nodes", todo[p] \ {cur[p]}, "-")
    BY <1>0, <2>1 DEF LoopOK, ConfStages
  <2> QED
    BY <2>1, <2>2, FinishOK
<1>9. ASSUME NEW p \in Procs, CreateVethPair(p) PROVE (Functions /\ LoopsOK)'
  <2>1. PICK x \in todo[p], o \in Outcomes : pc[p] = "links" /\ Take(p, x, o, "moveA")
    BY <1>9 DEF CreateVethPair
  <2>2. LoopOK("moveA", todo[p], x)
    BY <1>0, <2>1 DEF LoopOK
  <2> QED
    BY <2>1, <2>2, TakeOK
<1>10. ASSUME NEW p \in Procs, MoveEndA(p) PROVE (Functions /\ LoopsOK)'
  <2>1. PICK o \in Outcomes : pc[p] = "moveA" /\ Take(p, cur[p], o, "moveB")
    BY <1>10 DEF MoveEndA
  <2>2. LoopOK("moveB", todo[p], cur[p])
    BY <1>0, <2>1 DEF LoopOK
  <2> QED
    BY <2>1, <2>2, TakeOK
<1>11. ASSUME NEW p \in Procs, MoveEndB(p) PROVE (Functions /\ LoopsOK)'
  <2>1. PICK o \in Outcomes : pc[p] = "moveB" /\ Take(p, cur[p], o, "linkconf")
    BY <1>11 DEF MoveEndB
  <2>2. LoopOK("linkconf", todo[p], cur[p])
    BY <1>0, <2>1 DEF LoopOK
  <2> QED
    BY <2>1, <2>2, TakeOK
<1>12. ASSUME NEW p \in Procs, ConfigureLink(p) PROVE (Functions /\ LoopsOK)'
  <2>1. PICK o \in Outcomes : pc[p] = "linkconf" /\ Finish(p, cur[p], o, "links")
    BY <1>12 DEF ConfigureLink, Outcomes
  <2>2. LoopOK("links", todo[p] \ {cur[p]}, "-")
    BY <1>0, <2>1 DEF LoopOK, ConfStages
  <2> QED
    BY <2>1, <2>2, FinishOK
<1>13. ASSUME NEW p \in Procs, ConfigureNode(p) PROVE (Functions /\ LoopsOK)'
  <2>1. PICK x \in todo[p], o \in Outcomes : pc[p] \in ConfStages /\ Finish(p, x, o, pc[p])
    BY <1>13 DEF ConfigureNode, Outcomes
  <2>2. LoopOK(pc[p], todo[p] \ {x}, "-")
    BY <1>0, <2>1 DEF LoopOK, ConfStages
  <2> QED
    BY <2>1, <2>2, FinishOK
<1>14. ASSUME NEW p \in Procs, CreateMgmtBridge(p) PROVE (Functions /\ LoopsOK)'
  <2>1. PICK o \in Outcomes : pc[p] = "mgmtbr" /\ Finish(p, lab[p], o, "mgmtbr")
    BY <1>14 DEF CreateMgmtBridge, Outcomes
  <2>2. LoopOK("mgmtbr", todo[p] \ {lab[p]}, "-")
    BY <1>0, <2>1 DEF LoopOK, ConfStages
  <2> QED
    BY <2>1, <2>2, FinishOK
<1>15. ASSUME NEW p \in Procs, CreateMgmtPair(p) PROVE (Functions /\ LoopsOK)'
  <2>1. PICK x \in todo[p], o \in Outcomes : pc[p] = "mgmt" /\ Take(p, x, o, "mgmtmove")
    BY <1>15 DEF CreateMgmtPair
  <2>2. LoopOK("mgmtmove", todo[p], x)
    BY <1>0, <2>1 DEF LoopOK
  <2> QED
    BY <2>1, <2>2, TakeOK
<1>16. ASSUME NEW p \in Procs, MoveMgmtEnd(p) PROVE (Functions /\ LoopsOK)'
  <2>1. PICK o \in Outcomes : pc[p] = "mgmtmove" /\ Take(p, cur[p], o, "mgmtconf")
    BY <1>16 DEF MoveMgmtEnd
  <2>2. LoopOK("mgmtconf", todo[p], cur[p])
    BY <1>0, <2>1 DEF LoopOK
  <2> QED
    BY <2>1, <2>2, TakeOK
<1>17. ASSUME NEW p \in Procs, ConfigureMgmtEnd(p) PROVE (Functions /\ LoopsOK)'
  <2>1. PICK o \in Outcomes : pc[p] = "mgmtconf" /\ Finish(p, cur[p], o, "mgmt")
    BY <1>17 DEF ConfigureMgmtEnd, Outcomes
  <2>2. LoopOK("mgmt", todo[p] \ {cur[p]}, "-")
    BY <1>0, <2>1 DEF LoopOK, ConfStages
  <2> QED
    BY <2>1, <2>2, FinishOK
<1>18. ASSUME NEW p \in Procs, WriteNodeEnvFile(p) PROVE (Functions /\ LoopsOK)'
  <2>1. PICK x \in todo[p], o \in Outcomes : pc[p] = "env" /\ Finish(p, x, o, "env")
    BY <1>18 DEF WriteNodeEnvFile, Outcomes
  <2>2. LoopOK("env", todo[p] \ {x}, "-")
    BY <1>0, <2>1 DEF LoopOK, ConfStages
  <2> QED
    BY <2>1, <2>2, FinishOK
<1>19. ASSUME NEW p \in Procs, TruncateState(p) PROVE (Functions /\ LoopsOK)'
  <2>1. PICK o \in Outcomes : pc[p] = "save" /\ OrRollback(p, o, "write", {})
    BY <1>19 DEF TruncateState, Outcomes
  <2>2. cur' = [cur EXCEPT ![p] = cur[p]] /\ LoopOK("write", {}, cur[p]) /\ cur[p] \in Nodes \cup Links \cup {"-"}
    BY <1>0, <1>19 DEF TruncateState, LoopOK, TypeInv, Functions
  <2> QED
    BY <2>1, <2>2, OrRollbackOK
<1>20. ASSUME NEW p \in Procs, WriteState(p) PROVE (Functions /\ LoopsOK)'
  <2>1. PICK o \in Outcomes : pc[p] = "write" /\ OrRollback(p, o, "ok", {})
    BY <1>20 DEF WriteState, Outcomes
  <2>2. cur' = [cur EXCEPT ![p] = cur[p]] /\ LoopOK("ok", {}, cur[p]) /\ cur[p] \in Nodes \cup Links \cup {"-"}
    BY <1>0, <1>20 DEF WriteState, LoopOK, TypeInv, Functions
  <2> QED
    BY <2>1, <2>2, OrRollbackOK
<1>21. ASSUME NEW p \in Procs, ClearNetem(p) PROVE (Functions /\ LoopsOK)'
  <2>1. \E x : Dropped(p, x)
    BY <1>21 DEF ClearNetem
  <2>2. pc[p] \notin NodeSteps \cup LinkSteps
    BY <1>21 DEF ClearNetem
  <2> QED
    BY <2>1, <2>2, DroppedOK
<1>22. ASSUME NEW p \in Procs, DeleteMgmtVeth(p) PROVE (Functions /\ LoopsOK)'
  <2>1. \E x : Dropped(p, x)
    BY <1>22 DEF DeleteMgmtVeth
  <2>2. pc[p] \notin NodeSteps \cup LinkSteps
    BY <1>22 DEF DeleteMgmtVeth
  <2> QED
    BY <2>1, <2>2, DroppedOK
<1>23. ASSUME NEW p \in Procs, DeleteMgmtBridge(p) PROVE (Functions /\ LoopsOK)'
  <2>1. Goto(p, "failed", {}) \/ Goto(p, "tdbridge", {})
    BY <1>23 DEF DeleteMgmtBridge, Goto
  <2>2. LoopOK("failed", {}, cur[p]) /\ LoopOK("tdbridge", {}, cur[p])
    BY <1>0, RollbackOK DEF LoopOK
  <2>3. cur' = cur
    BY <1>23 DEF DeleteMgmtBridge
  <2> QED
    BY <2>1, <2>2, <2>3, GotoStays
<1>24. ASSUME NEW p \in Procs, DeleteNamespace(p) PROVE (Functions /\ LoopsOK)'
  <2>1. \E x : Dropped(p, x)
    BY <1>24 DEF DeleteNamespace
  <2>2. pc[p] \notin NodeSteps \cup LinkSteps
    BY <1>24 DEF DeleteNamespace
  <2> QED
    BY <2>1, <2>2, DroppedOK
<1>25. ASSUME NEW p \in Procs, RemoveEntry(p) PROVE (Functions /\ LoopsOK)'
  <2>1. \E x : Dropped(p, x)
    BY <1>25 DEF RemoveEntry
  <2>2. pc[p] \notin NodeSteps \cup LinkSteps
    BY <1>25 DEF RemoveEntry
  <2> QED
    BY <2>1, <2>2, DroppedOK
<1>26. ASSUME NEW p \in Procs, RemoveLabDir(p) PROVE (Functions /\ LoopsOK)'
  <2>1. Goto(p, "failed", {}) \/ Goto(p, "ok", {})
    BY <1>26 DEF RemoveLabDir, Goto
  <2>2. LoopOK("failed", {}, cur[p]) /\ LoopOK("ok", {}, cur[p])
    BY <1>0, RollbackOK DEF LoopOK
  <2>3. cur' = cur
    BY <1>26 DEF RemoveLabDir
  <2> QED
    BY <2>1, <2>2, <2>3, GotoStays
<1>27. ASSUME NEW p \in Procs, EndStage(p) PROVE (Functions /\ LoopsOK)'
  <2>1. LoopOK(After[pc[p]], Work(After[pc[p]], lab[p]), cur[p])
    BY <1>0, <1>27, WorkOK DEF EndStage, LoopOK
  <2>2. cur' = [cur EXCEPT ![p] = cur[p]]
    BY <1>27 DEF EndStage, TypeInv, Functions
  <2> QED
    BY <1>27, <2>1, <2>2, ControlStep DEF EndStage, Goto
<1>28. CASE UNCHANGED vars
  BY <1>28 DEF vars, TypeInv, Functions, LoopsOK
<1> QED
  BY <1>1, <1>2, <1>3, <1>4, <1>5, <1>6, <1>7, <1>8, <1>9, <1>10, <1>11, <1>12, <1>13, <1>14,
     <1>15, <1>16, <1>17, <1>18, <1>19, <1>20, <1>21, <1>22, <1>23, <1>24, <1>25, <1>26, <1>27, <1>28
  DEF Next, Step, Deploy, TearDown

LEMMA TypeInvNext == TypeInv /\ [Next]_vars => TypeInv'
BY DataNext, ControlNext DEF TypeInv

(* TypeOK: among others, a loop only ever holds nodes where nodes are      *)
(* expected, and links where links are.                                    *)
THEOREM TypeCorrect == Spec => []TypeOK
BY TypeInvInit, TypeInvNext, TypeInvType, PTL DEF Spec

-----------------------------------------------------------------------------
(* What deploy and destroy leave behind: as long as no two commands work   *)
(* on one lab at the same time, a namespace, bridge or management link of  *)
(* a lab never outlives its run directory, whatever is killed or fails in  *)
(* a deploy and whatever else happens on the host.                         *)

(* The steps of a deploy behind its first EnsureLabDirs.                   *)
PastDirs == Building \ {"plan", "nodes"}
HasDirs(q) == pc[q] \in PastDirs \/ (pc[q] = "nodes" /\ todo[q] # Nodes)

MgmtStages == {"mgmtbr", "mgmt", "tdmgmt", "tdbridge"}

(* Where a teardown has been.                                              *)
MgmtSwept(q, n) ==
  \/ pc[q] = "tdmgmt" /\ MgmtEnabled /\ n \notin todo[q]
  \/ pc[q] \in {"tdbridge", "tdns", "tdfiles", "tddir"}
BridgeSwept(q) ==
  (pc[q] = "tdbridge" /\ lab[q] \notin todo[q]) \/ pc[q] \in {"tdns", "tdfiles", "tddir"}
NodeSwept(q, n) == (pc[q] = "tdns" /\ n \notin todo[q]) \/ pc[q] \in {"tdfiles", "tddir"}

(* One command works on a lab at a time.                                   *)
Exclusive ==
  \A p, q \in Procs : pc[p] \in Active /\ pc[q] \in Active /\ lab[p] = lab[q] => p = q

(* A deploy is behind EnsureLabDirs only with a run directory.             *)
DirsMade(q) == HasDirs(q) => lab[q] \in labDir

(* Without mgmt.enable the loops over the management network are empty.    *)
MgmtSkipped(q) ==
  ~MgmtEnabled => /\ pc[q] \notin {"mgmtmove", "mgmtconf"}
                  /\ pc[q] \in MgmtStages => todo[q] = {}

(* Where a teardown without a failure has been, nothing is left.           *)
Swept(q) == lab[q] \notin spoilt =>
  /\ \A n \in Nodes : MgmtSwept(q, n) => mveth[<<lab[q], n>>] = "none"
  /\ BridgeSwept(q) => lab[q] \notin bridge
  /\ \A n \in Nodes : NodeSwept(q, n) => <<lab[q], n>> \notin netns

ProcInv(q) == DirsMade(q) /\ MgmtSkipped(q) /\ Swept(q)

MgmtOff == ~MgmtEnabled => bridge = {} /\ \A x \in LabNodes : mveth[x] = "none"

Leftovers(l) == l \notin spoilt /\ Exists(l) => l \in labDir

LeftInv ==
  /\ TypeInv /\ Exclusive /\ MgmtOff
  /\ \A q \in Procs : ProcInv(q)
  /\ \A l \in Labs : Leftovers(l)

-----------------------------------------------------------------------------
(* The invariant implies the property.                                     *)

LEMMA LeftInvImplies == LeftInv => LeftoversKeepTheirDir
BY DEF LeftInv, Leftovers, LeftoversKeepTheirDir

LEMMA LeftInvInit == Init => LeftInv
<1> SUFFICES ASSUME Init PROVE LeftInv
  OBVIOUS
<1>1. TypeInv
  BY TypeInvInit
<1>2. Exclusive
  BY DEF Init, Exclusive, Active, Working, Building, Teardown, StageNames
<1>3. MgmtOff
  BY DEF Init, MgmtOff
<1>4. \A q \in Procs : ProcInv(q)
  BY DEF Init, ProcInv, DirsMade, HasDirs, PastDirs, Building, StageNames, MgmtSkipped, MgmtStages,
     Swept, MgmtSwept, BridgeSwept, NodeSwept
<1>5. \A l \in Labs : Leftovers(l)
  BY DEF Init, Leftovers, Exists, LabNodes
<1> QED
  BY <1>1, <1>2, <1>3, <1>4, <1>5 DEF LeftInv

-----------------------------------------------------------------------------
(* A step of p as the rest of the host sees it.                            *)
Others(p) ==
  /\ lab' = lab
  /\ \A q \in Procs \ {p} : pc'[q] = pc[q] /\ todo'[q] = todo[q]
  /\ \A l \in Labs \ {lab[p]} :
       /\ l \in labDir' <=> l \in labDir
       /\ l \in bridge' <=> l \in bridge
       /\ l \in spoilt' <=> l \in spoilt
       /\ \A n \in Nodes : /\ <<l, n>> \in netns' <=> <<l, n>> \in netns
                          /\ mveth'[<<l, n>>] = mveth[<<l, n>>]

(* And what it owes its own lab.                                           *)
Own(p) == ProcInv(p)' /\ MgmtOff' /\ Leftovers(lab[p])'

LEMMA Combine ==
  ASSUME LeftInv, TypeInv', NEW p \in Procs, pc[p] \in Active, Others(p), Own(p)
  PROVE  LeftInv'
<1> USE DEF LeftInv
<1>0. lab \in [Procs -> Labs] /\ lab' = lab
  BY DEF TypeInv, DataOK, Others
<1>1. Exclusive'
  <2> SUFFICES ASSUME NEW q \in Procs, NEW r \in Procs, pc'[q] \in Active, pc'[r] \in Active,
                      lab[q] = lab[r]
               PROVE  q = r
    BY <1>0 DEF Exclusive
  <2>1. \A x \in Procs : pc'[x] \in Active => pc[x] \in Active
    BY DEF Others
  <2> QED
    BY <2>1 DEF Exclusive
<1>2. ASSUME NEW q \in Procs PROVE ProcInv(q)'
  <2>1. CASE q = p
    BY <2>1 DEF Own
  <2>2. CASE q # p
    <3>1. pc'[q] = pc[q] /\ todo'[q] = todo[q] /\ lab'[q] = lab[q] /\ lab[q] \in Labs
      BY <1>0, <2>2 DEF Others
    <3>2. ProcInv(q)
      OBVIOUS
    <3>3. MgmtSkipped(q)'
      BY <3>1, <3>2 DEF ProcInv, MgmtSkipped
    <3>4. CASE pc[q] \in Active
      <4>1. lab[q] # lab[p]
        BY <2>2, <3>4 DEF Exclusive
      <4>2. DirsMade(q)'
        BY <3>1, <3>2, <4>1 DEF ProcInv, DirsMade, HasDirs, Others
      <4>3. Swept(q)'
        BY <3>1, <3>2, <4>1 DEF ProcInv, Swept, MgmtSwept, BridgeSwept, NodeSwept, Others
      <4> QED
        BY <3>3, <4>2, <4>3 DEF ProcInv
    <3>5. CASE pc[q] \notin Active
      <4>1. pc[q] \notin Working
        BY <3>5 DEF Active
      <4>2. DirsMade(q)'
        BY <3>1, <4>1 DEF DirsMade, HasDirs, PastDirs, Working, Building
      <4>3. Swept(q)'
        BY <3>1, <4>1 DEF Swept, MgmtSwept, BridgeSwept, NodeSwept, Working, Teardown
      <4> QED
        BY <3>3, <4>2, <4>3 DEF ProcInv
    <3> QED
      BY <3>4, <3>5
  <2> QED
    BY <2>1, <2>2
<1>3. ASSUME NEW l \in Labs PROVE Leftovers(l)'
  <2>1. CASE l = lab[p]
    BY <1>0, <2>1 DEF Own
  <2>2. CASE l # lab[p]
    BY <2>2 DEF Others, Leftovers, Exists
  <2> QED
    BY <2>1, <2>2
<1> QED
  BY <1>1, <1>2, <1>3 DEF Own

(* Steps that touch neither kernel objects nor the run directory.          *)
LEMMA Quiet ==
  ASSUME LeftInv, TypeInv', NEW p \in Procs, pc[p] \in Active, NEW s, NEW t, Goto(p, s, t),
         UNCHANGED <<lab, netns, bridge, mveth, labDir>>,
         spoilt' = spoilt \/ spoilt' = spoilt \cup {lab[p]},
         ProcInv(p)'
  PROVE  LeftInv'
<1>1. Others(p)
  BY DEF Others, Goto, LeftInv, TypeInv, Functions
<1>2. MgmtOff' /\ Leftovers(lab[p])'
  BY DEF LeftInv, TypeInv, DataOK, MgmtOff, Leftovers, Exists
<1> QED
  BY <1>1, <1>2, Combine DEF Own
-----------------------------------------------------------------------------
(* The control of a process and what it owes.                              *)

(* A process that enters or goes on with a step of a deploy, or starts a   *)
(* teardown, owes no clean-up.                                             *)
LEMMA BuildStep ==
  ASSUME LeftInv, NEW p \in Procs, NEW s, NEW t, Goto(p, s, t), lab' = lab,
         s \notin {"tdmgmt", "tdbridge", "tdns", "tdfiles", "tddir"},
         s \in PastDirs \/ (s = "nodes" /\ t # Nodes) => lab[p] \in labDir',
         ~MgmtEnabled => s \notin {"mgmtmove", "mgmtconf"} /\ (s \in MgmtStages => t = {})
  PROVE  ProcInv(p)'
BY DEF LeftInv, TypeInv, Functions, Goto, ProcInv, DirsMade, HasDirs, MgmtSkipped, MgmtStages,
   Swept, MgmtSwept, BridgeSwept, NodeSwept

LEMMA BuildOrRollback ==
  ASSUME LeftInv, NEW p \in Procs, NEW o, NEW s, NEW t, OrRollback(p, o, s, t), lab' = lab,
         s \notin {"tdmgmt", "tdbridge", "tdns", "tdfiles", "tddir"},
         s \in PastDirs \/ (s = "nodes" /\ t # Nodes) => lab[p] \in labDir',
         ~MgmtEnabled => s \notin {"mgmtmove", "mgmtconf"} /\ (s \in MgmtStages => t = {})
  PROVE  ProcInv(p)' /\ \E r, u : Goto(p, r, u)
<1>1. CASE Goto(p, s, t)
  BY <1>1, BuildStep
<1>2. CASE Goto(p, "tdnetem", Work("tdnetem", lab[p]))
  <2>1. "tdnetem" \notin PastDirs \cup MgmtStages
    BY DEF PastDirs, Building, StageNames, MgmtStages
  <2> QED
    BY <1>2, <2>1, BuildStep
<1> QED
  BY <1>1, <1>2 DEF OrRollback

(* The steps of a deploy that move a process and leave kernel objects and  *)
(* the run directory alone.                                                *)
LEMMA QuietBuild ==
  ASSUME LeftInv, TypeInv', NEW p \in Procs, pc[p] \in Active, NEW o, NEW s, NEW t,
         OrRollback(p, o, s, t), UNCHANGED <<lab, netns, bridge, mveth, labDir, spoilt>>,
         s \notin {"tdmgmt", "tdbridge", "tdns", "tdfiles", "tddir"},
         s \in PastDirs \/ (s = "nodes" /\ t # Nodes) => lab[p] \in labDir,
         ~MgmtEnabled => s \notin {"mgmtmove", "mgmtconf"} /\ (s \in MgmtStages => t = {})
  PROVE  LeftInv'
<1>1. ProcInv(p)' /\ \E r, u : Goto(p, r, u)
  BY BuildOrRollback
<1> QED
  BY <1>1, Quiet

(* A step that starts nothing: the command starts, is refused or killed.   *)
LEMMA QuietStep ==
  ASSUME LeftInv, TypeInv', NEW p \in Procs, NEW s, NEW t, Goto(p, s, t),
         UNCHANGED <<lab, netns, bridge, mveth, labDir, spoilt>>,
         pc[p] \in Active, s \notin Working \ {"plan", "tdnetem"}
  PROVE  LeftInv'
<1>1. ProcInv(p)'
  <2>1. s \notin PastDirs /\ s # "nodes" /\ s \notin MgmtStages
        /\ s \notin {"tdmgmt", "tdbridge", "tdns", "tdfiles", "tddir", "mgmtmove", "mgmtconf"}
    BY DEF PastDirs, Working, Building, Teardown, MgmtStages, StageNames
  <2> QED
    BY <2>1, BuildStep
<1> QED
  BY <1>1, Quiet

-----------------------------------------------------------------------------
(* Each step preserves the invariant.                                      *)

LEMMA StartKeeps ==
  ASSUME LeftInv, TypeInv', NEW p \in Procs, SameLab = FALSE, Start(p)
  PROVE  LeftInv'
<1> USE DEF LeftInv
<1>1. PICK s \in {"precheck", "load"} : Goto(p, s, {})
  BY DEF Start, Goto
<1>2. UNCHANGED <<lab, netns, bridge, mveth, labDir, spoilt>>
  BY DEF Start, procVars, kernel, files, history
<1>3. /\ pc'[p] = s /\ todo'[p] = {}
      /\ \A q \in Procs \ {p} : pc'[q] = pc[q] /\ todo'[q] = todo[q]
  BY <1>1 DEF Goto, TypeInv, Functions
<1>4. \A q \in Procs \ {p} : pc[q] \in Active => lab[q] # lab[p]
  BY DEF Start
<1>5. Exclusive'
  BY <1>2, <1>3, <1>4 DEF Exclusive
<1>6. ASSUME NEW q \in Procs PROVE ProcInv(q)'
  <2>1. CASE q = p
    BY <1>1, <1>2, <2>1, BuildStep DEF PastDirs, Building, MgmtStages, StageNames
  <2>2. CASE q # p
    <3>1. ProcInv(q) /\ pc'[q] = pc[q] /\ todo'[q] = todo[q]
      BY <1>3, <2>2
    <3> QED
      BY <1>2, <3>1 DEF ProcInv, DirsMade, HasDirs, MgmtSkipped, Swept, MgmtSwept, BridgeSwept, NodeSwept
  <2> QED
    BY <2>1, <2>2
<1>7. MgmtOff' /\ \A l \in Labs : Leftovers(l)'
  BY <1>2 DEF MgmtOff, Leftovers, Exists
<1> QED
  BY <1>5, <1>6, <1>7

LEMMA ControlKeeps ==
  ASSUME LeftInv, TypeInv', NEW p \in Procs, Precheck(p) \/ Load(p) \/ Kill(p) \/ Plan(p)
  PROVE  LeftInv'
<1> USE DEF procVars, kernel, files, history
<1>1. CASE Precheck(p)
  <2>1. PICK s \in {"refused", "plan"} : Goto(p, s, {})
    BY <1>1 DEF Precheck, Goto
  <2> QED
    BY <1>1, <2>1, QuietStep DEF Precheck, Active, Working, Building, Teardown, StageNames
<1>2. CASE Load(p)
  <2>1. Goto(p, "tdnetem", Work("tdnetem", lab[p])) \/ Goto(p, "refused", {})
    BY <1>2 DEF Load
  <2> QED
    BY <1>2, <2>1, QuietStep DEF Load, Active, Working, Building, Teardown, StageNames
<1>3. CASE Kill(p)
  <2>1. "killed" \notin Working
    BY DEF Working, Building, Teardown, StageNames
  <2> QED
    BY <1>3, <2>1, QuietStep DEF Kill
<1>4. CASE Plan(p)
  <2>1. PICK o \in {"ok", "err"} : Attempt(TRUE, o) /\ OrRollback(p, o, "nodes", Nodes)
    BY <1>4 DEF Plan
  <2>2. "nodes" \notin PastDirs \cup MgmtStages
    BY DEF PastDirs, MgmtStages, Building, StageNames
  <2> QED
    BY <1>4, <2>1, <2>2, QuietBuild DEF Plan, Attempt, Active, Working, Building
<1> QED
  BY <1>1, <1>2, <1>3, <1>4
(* The steps of a deploy inside the namespaces and at the files of the     *)
(* nodes.                                                                  *)
LEMMA ConfigureKeeps ==
  ASSUME LeftInv, TypeInv', NEW p \in Procs,
         \/ EnsureLoopbackUp(p) \/ CreateVethPair(p) \/ MoveEndA(p) \/ MoveEndB(p)
         \/ ConfigureLink(p) \/ ConfigureNode(p) \/ WriteNodeEnvFile(p)
         \/ ConfigureMgmtEnd(p) \/ TruncateState(p) \/ WriteState(p)
  PROVE  LeftInv'
<1> USE DEF procVars, kernel, files, history, Attempt
<1>0. /\ pc[p] \in PastDirs => lab[p] \in labDir /\ pc[p] \in Active
      /\ pc[p] \in NodeSteps => cur[p] \in Nodes
      /\ pc[p] = "mgmtconf" => MgmtEnabled
  BY DEF LeftInv, ProcInv, DirsMade, HasDirs, MgmtSkipped, PastDirs, Active, Working, TypeInv,
     LoopsOK, LoopOK
<1>1. CASE EnsureLoopbackUp(p)
  <2>1. PICK o \in {"ok", "err"} : Finish(p, cur[p], o, "nodes")
    BY <1>1 DEF EnsureLoopbackUp
  <2>2. OrRollback(p, o, "nodes", todo[p] \ {cur[p]})
    BY <2>1 DEF Finish
  <2>3. pc[p] \in PastDirs /\ "nodes" \notin MgmtStages
    BY <1>1 DEF EnsureLoopbackUp, PastDirs, Building, MgmtStages
  <2> QED
    BY <1>0, <1>1, <2>2, <2>3, QuietBuild DEF EnsureLoopbackUp
<1>2. CASE CreateVethPair(p) \/ MoveEndA(p) \/ MoveEndB(p) \/ ConfigureLink(p)
  <2>1. pc[p] \in {"links", "moveA", "moveB", "linkconf"}
    BY <1>2 DEF CreateVethPair, MoveEndA, MoveEndB, ConfigureLink
  <2>2. PICK o \in Outcomes, s \in {"links", "moveA", "moveB", "linkconf"}, t \in {todo[p], todo[p] \ {cur[p]}} :
          OrRollback(p, o, s, t)
    BY <1>2 DEF CreateVethPair, MoveEndA, MoveEndB, ConfigureLink, Take, Finish
  <2>3. UNCHANGED <<lab, netns, bridge, mveth, labDir, spoilt>>
    BY <1>2 DEF CreateVethPair, MoveEndA, MoveEndB, ConfigureLink
  <2>4. pc[p] \in PastDirs /\ s \in PastDirs /\ s \notin MgmtStages
    BY <2>1, <2>2 DEF PastDirs, Building, MgmtStages
  <2> QED
    BY <1>0, <2>2, <2>3, <2>4, QuietBuild
<1>3. CASE ConfigureNode(p)
  <2>1. PICK n \in todo[p], o \in Outcomes : Finish(p, n, o, pc[p])
    BY <1>3 DEF ConfigureNode
  <2>2. OrRollback(p, o, pc[p], todo[p] \ {n})
    BY <2>1 DEF Finish
  <2>3. /\ pc[p] \in PastDirs /\ pc[p] \notin MgmtStages
        /\ pc[p] \notin {"tdmgmt", "tdbridge", "tdns", "tdfiles", "tddir", "mgmtmove", "mgmtconf", "nodes"}
    BY <1>3 DEF ConfigureNode, ConfStages, PastDirs, Building, MgmtStages, StageNames
  <2>4. UNCHANGED <<lab, netns, bridge, mveth, labDir, spoilt>>
    BY <1>3 DEF ConfigureNode
  <2> QED
    BY <1>0, <2>2, <2>3, <2>4, QuietBuild
<1>4. CASE WriteNodeEnvFile(p)
  <2>1. PICK n \in todo[p], o \in Outcomes : Finish(p, n, o, "env")
    BY <1>4 DEF WriteNodeEnvFile
  <2>2. OrRollback(p, o, "env", todo[p] \ {n})
    BY <2>1 DEF Finish
  <2>3. pc[p] = "env" /\ "env" \in PastDirs /\ "env" \notin MgmtStages
    BY <1>4 DEF WriteNodeEnvFile, PastDirs, Building, MgmtStages, StageNames
  <2>4. UNCHANGED <<lab, netns, bridge, mveth, labDir, spoilt>>
    BY <1>4 DEF WriteNodeEnvFile
  <2> QED
    BY <1>0, <2>2, <2>3, <2>4, QuietBuild
<1>5. CASE ConfigureMgmtEnd(p)
  <2>1. PICK o \in {"ok", "err"} : Finish(p, cur[p], o, "mgmt")
    BY <1>5 DEF ConfigureMgmtEnd
  <2>2. OrRollback(p, o, "mgmt", todo[p] \ {cur[p]})
    BY <2>1 DEF Finish
  <2>3. pc[p] = "mgmtconf" /\ pc[p] \in PastDirs
    BY <1>5 DEF ConfigureMgmtEnd, PastDirs, Building
  <2>4. UNCHANGED <<lab, netns, bridge, mveth, labDir, spoilt>>
    BY <1>5 DEF ConfigureMgmtEnd
  <2> QED
    BY <1>0, <2>2, <2>3, <2>4, QuietBuild
<1>6. CASE TruncateState(p) \/ WriteState(p)
  <2>1. pc[p] \in {"save", "write"}
    BY <1>6 DEF TruncateState, WriteState
  <2>2. PICK o \in Outcomes, s \in {"write", "ok"} : OrRollback(p, o, s, {})
    BY <1>6 DEF TruncateState, WriteState, Outcomes
  <2>3. pc[p] \in PastDirs
    BY <2>1 DEF PastDirs, Building
  <2>4. UNCHANGED <<lab, netns, bridge, mveth, labDir, spoilt>>
    BY <1>6 DEF TruncateState, WriteState
  <2> QED
    BY <1>0, <2>2, <2>3, <2>4, QuietBuild DEF PastDirs, Building, MgmtStages
<1> QED
  BY <1>1, <1>2, <1>3, <1>4, <1>5, <1>6

(* The steps of a deploy that create what a teardown has to find.          *)
LEMMA CreateKeeps ==
  ASSUME LeftInv, TypeInv', NEW p \in Procs,
         \/ EnsureLabDirs(p) \/ CreateNamespace(p)
         \/ CreateMgmtBridge(p) \/ CreateMgmtPair(p) \/ MoveMgmtEnd(p)
  PROVE  LeftInv'
<1> USE DEF procVars, kernel, files, history, Attempt
<1>0. /\ pc[p] \in PastDirs => lab[p] \in labDir
      /\ pc[p] = "nodes" => todo[p] \subseteq Nodes
      /\ pc[p] = "createns" => cur[p] \in Nodes
      /\ pc[p] \in {"mgmt", "mgmtmove"} => todo[p] \subseteq Nodes
      /\ pc[p] = "mgmtmove" => cur[p] \in Nodes
      /\ pc[p] = "mgmtmove" \/ (pc[p] \in MgmtStages /\ todo[p] # {}) => MgmtEnabled
      /\ lab \in [Procs -> Labs]
  BY DEF LeftInv, ProcInv, DirsMade, HasDirs, MgmtSkipped, TypeInv, LoopsOK, LoopOK, DataOK,
     NodeSteps, NodeLoops
<1>1. CASE EnsureLabDirs(p)
  <2>1. PICK n \in todo[p], o \in Outcomes :
          /\ pc[p] = "nodes" /\ UNCHANGED spoilt /\ Take(p, n, o, "createns")
          /\ labDir' = labDir \/ labDir' = labDir \cup {lab[p]}
          /\ o = "ok" => labDir' = labDir \cup {lab[p]}
          /\ UNCHANGED <<lab, netns, bridge, mveth>>
    BY <1>1 DEF EnsureLabDirs, Outcomes
  <2>2. OrRollback(p, o, "createns", todo[p])
    BY <2>1 DEF Take
  <2>3. ProcInv(p)' /\ \E r, u : Goto(p, r, u)
    <3>1. CASE o = "ok"
      BY <2>1, <2>2, <3>1, BuildOrRollback DEF MgmtStages
    <3>2. CASE o # "ok"
      <4>1. Goto(p, "tdnetem", Work("tdnetem", lab[p]))
        BY <2>2, <3>2 DEF OrRollback
      <4> QED
        BY <2>1, <4>1, BuildStep DEF PastDirs, Building, StageNames, MgmtStages
    <3> QED
      BY <3>1, <3>2
  <2>4. Others(p)
    BY <2>1, <2>3 DEF Others, Goto, LeftInv, TypeInv, Functions
  <2>5. MgmtOff' /\ Leftovers(lab[p])'
    BY <1>0, <2>1 DEF LeftInv, MgmtOff, Leftovers, Exists
  <2> QED
    BY <2>1, <2>3, <2>4, <2>5, Combine DEF Own, Active, Working, Building
<1>2. CASE CreateNamespace(p)
  <2>1. PICK o \in Outcomes :
          /\ pc[p] = "createns" /\ UNCHANGED spoilt /\ Take(p, cur[p], o, "loopup")
          /\ netns' = netns \/ netns' = netns \cup {On(p, cur[p])}
          /\ UNCHANGED <<lab, bridge, mveth, labDir>>
    BY <1>2 DEF CreateNamespace
  <2>2. OrRollback(p, o, "loopup", todo[p])
    BY <2>1 DEF Take
  <2>3. lab[p] \in labDir
    BY <1>0, <2>1 DEF PastDirs, Building
  <2>4. ProcInv(p)' /\ \E r, u : Goto(p, r, u)
    BY <2>1, <2>2, <2>3, BuildOrRollback DEF MgmtStages
  <2>5. Others(p)
    BY <2>1, <2>4 DEF Others, Goto, LeftInv, TypeInv, Functions, On
  <2>6. MgmtOff' /\ Leftovers(lab[p])'
    BY <2>1, <2>3 DEF LeftInv, MgmtOff, Leftovers
  <2> QED
    BY <2>1, <2>4, <2>5, <2>6, Combine DEF Own, Active, Working, Building
<1>3. CASE CreateMgmtBridge(p)
  <2>1. PICK o \in Outcomes :
          /\ pc[p] = "mgmtbr" /\ lab[p] \in todo[p] /\ UNCHANGED spoilt
          /\ Finish(p, lab[p], o, "mgmtbr")
          /\ bridge' = bridge \/ bridge' = bridge \cup {lab[p]}
          /\ UNCHANGED <<lab, netns, mveth, labDir>>
    BY <1>3 DEF CreateMgmtBridge
  <2>2. OrRollback(p, o, "mgmtbr", todo[p] \ {lab[p]})
    BY <2>1 DEF Finish
  <2>3. lab[p] \in labDir /\ MgmtEnabled
    BY <1>0, <2>1 DEF PastDirs, Building, MgmtStages
  <2>4. ProcInv(p)' /\ \E r, u : Goto(p, r, u)
    BY <2>1, <2>2, <2>3, BuildOrRollback
  <2>5. Others(p)
    BY <2>1, <2>4 DEF Others, Goto, LeftInv, TypeInv, Functions
  <2>6. MgmtOff' /\ Leftovers(lab[p])'
    BY <2>1, <2>3 DEF LeftInv, MgmtOff, Leftovers
  <2> QED
    BY <2>1, <2>4, <2>5, <2>6, Combine DEF Own, Active, Working, Building
<1>4. CASE CreateMgmtPair(p) \/ MoveMgmtEnd(p)
  <2>1. PICK o \in Outcomes, n \in Nodes, s \in {"mgmtmove", "mgmtconf"}, v \in {"host", "moved"} :
          /\ pc[p] \in {"mgmt", "mgmtmove"} /\ UNCHANGED spoilt /\ Take(p, n, o, s)
          /\ pc[p] = "mgmt" => todo[p] # {}
          /\ mveth' = mveth \/ mveth' = [mveth EXCEPT ![On(p, n)] = v]
          /\ UNCHANGED <<lab, netns, bridge, labDir>>
    <3>1. CASE CreateMgmtPair(p)
      <4>1. PICK n \in todo[p], o \in Outcomes :
              /\ pc[p] = "mgmt" /\ UNCHANGED spoilt /\ Take(p, n, o, "mgmtmove")
              /\ mveth' = mveth \/ mveth' = [mveth EXCEPT ![On(p, n)] = "host"]
              /\ UNCHANGED <<lab, netns, bridge, labDir>>
        BY <3>1 DEF CreateMgmtPair
      <4>2. n \in Nodes
        BY <1>0, <4>1
      <4> QED
        BY <4>1, <4>2
    <3>2. CASE MoveMgmtEnd(p)
      <4>1. PICK o \in Outcomes :
              /\ pc[p] = "mgmtmove" /\ UNCHANGED spoilt /\ Take(p, cur[p], o, "mgmtconf")
              /\ mveth' = mveth \/ mveth' = [mveth EXCEPT ![On(p, cur[p])] = "moved"]
              /\ UNCHANGED <<lab, netns, bridge, labDir>>
        BY <3>2 DEF MoveMgmtEnd
      <4>2. cur[p] \in Nodes
        BY <1>0, <4>1
      <4> QED
        BY <4>1, <4>2
    <3> QED
      BY <1>4, <3>1, <3>2
  <2>2. OrRollback(p, o, s, todo[p])
    BY <2>1 DEF Take
  <2>3. lab[p] \in labDir /\ MgmtEnabled
    BY <1>0, <2>1 DEF PastDirs, Building, MgmtStages
  <2>4. ProcInv(p)' /\ \E r, u : Goto(p, r, u)
    BY <2>1, <2>2, <2>3, BuildOrRollback
  <2>5. Others(p)
    BY <1>0, <2>1, <2>4 DEF Others, Goto, LeftInv, TypeInv, Functions, On, DataOK, LabNodes
  <2>6. MgmtOff' /\ Leftovers(lab[p])'
    BY <2>1, <2>3 DEF LeftInv, MgmtOff, Leftovers
  <2> QED
    BY <2>1, <2>4, <2>5, <2>6, Combine DEF Own, Active, Working, Building
<1> QED
  BY <1>1, <1>2, <1>3, <1>4
LEMMA EndStageKeeps ==
  ASSUME LeftInv, TypeInv', NEW p \in Procs, EndStage(p)
  PROVE  LeftInv'
<1> DEFINE s == After[pc[p]]
           t == Work(s, lab[p])
<1>0. /\ pc[p] \in DOMAIN After /\ todo[p] = {} /\ Goto(p, s, t)
      /\ UNCHANGED <<lab, netns, bridge, mveth, labDir, spoilt>>
  BY DEF EndStage, procVars, kernel, files, history
<1>1. ProcInv(p) /\ MgmtOff /\ lab[p] \in Labs /\ TypeInv
  BY DEF LeftInv, TypeInv, DataOK
<1>2. pc'[p] = s /\ todo'[p] = t /\ lab'[p] = lab[p]
  BY <1>0, <1>1 DEF Goto, TypeInv, Functions
<1>3. ProcInv(p)'
  <2>1. CASE pc[p] \in Building
    <3>1. s \in PastDirs
      BY <1>0, <2>1 DEF After, Building, PastDirs, StageNames
    <3>2. lab[p] \in labDir
      <4>1. HasDirs(p)
        BY <1>0, <2>1, ConstantsOK DEF HasDirs, PastDirs, After
      <4> QED
        BY <1>1, <4>1 DEF ProcInv, DirsMade
    <3>3. s \notin {"mgmtmove", "mgmtconf"}
      BY <1>0, <2>1 DEF After, Building, StageNames
    <3>4. s \notin {"tdmgmt", "tdbridge", "tdns", "tdfiles", "tddir", "nodes"}
      BY <1>0, <2>1 DEF After, Building, StageNames
    <3>5. ~MgmtEnabled /\ s \in MgmtStages => t = {}
      BY <3>4 DEF MgmtStages, Work, StageNames
    <3> QED
      BY <1>0, <3>1, <3>2, <3>3, <3>4, <3>5, BuildStep DEF LeftInv
  <2>2. CASE pc[p] \notin Building
    <3>1. \/ pc[p] = "tdnetem" /\ s = "tdmgmt"
          \/ pc[p] = "tdmgmt" /\ s = "tdbridge"
          \/ pc[p] = "tdbridge" /\ s = "tdns"
          \/ pc[p] = "tdns" /\ s = "tdfiles"
          \/ pc[p] = "tdfiles" /\ s = "tddir"
      <4>1. pc[p] \in {"tdnetem", "tdmgmt", "tdbridge", "tdns", "tdfiles"}
        BY <1>0, <2>2 DEF After, Building, StageNames
      <4>2. pc[p] = "tdnetem" => s = "tdmgmt"
        BY DEF After
      <4>3. pc[p] = "tdmgmt" => s = "tdbridge"
        BY DEF After
      <4>4. pc[p] = "tdbridge" => s = "tdns"
        BY DEF After
      <4>5. pc[p] = "tdns" => s = "tdfiles"
        BY DEF After
      <4>6. pc[p] = "tdfiles" => s = "tddir"
        BY DEF After
      <4> QED
        BY <4>1, <4>2, <4>3, <4>4, <4>5, <4>6
    <3>2. s \notin PastDirs /\ s # "nodes"
      BY <3>1 DEF PastDirs, Building, StageNames
    <3>3. DirsMade(p)'
      BY <1>2, <3>2 DEF DirsMade, HasDirs
    <3>4. MgmtSkipped(p)'
      BY <1>2, <3>1 DEF MgmtSkipped, MgmtStages, Work, StageNames
    <3>5. ASSUME lab[p] \notin spoilt, NEW n \in Nodes, MgmtSwept(p, n)' PROVE mveth[<<lab[p], n>>] = "none"
      <4>1. s = "tdmgmt" /\ MgmtEnabled => t = Nodes
        BY DEF Work, StageNames
      <4>2. s # "tdmgmt"
        BY <1>2, <3>5, <4>1 DEF MgmtSwept
      <4>3. CASE MgmtEnabled
        BY <1>0, <1>1, <3>1, <3>5, <4>2, <4>3 DEF ProcInv, Swept, MgmtSwept
      <4>4. CASE ~MgmtEnabled
        BY <1>1, <4>4 DEF MgmtOff, LabNodes
      <4> QED
        BY <4>3, <4>4
    <3>6. ASSUME lab[p] \notin spoilt, BridgeSwept(p)' PROVE lab[p] \notin bridge
      <4>1. s = "tdbridge" /\ MgmtEnabled => t = {lab[p]}
        BY DEF Work, StageNames
      <4>2. CASE MgmtEnabled
        BY <1>0, <1>1, <1>2, <3>1, <3>6, <4>1, <4>2 DEF ProcInv, Swept, BridgeSwept
      <4>3. CASE ~MgmtEnabled
        BY <1>1, <4>3 DEF MgmtOff
      <4> QED
        BY <4>2, <4>3
    <3>7. ASSUME lab[p] \notin spoilt, NEW n \in Nodes, NodeSwept(p, n)' PROVE <<lab[p], n>> \notin netns
      <4>1. s = "tdns" => t = Nodes
        BY DEF Work, StageNames
      <4> QED
        BY <1>0, <1>1, <1>2, <3>1, <3>7, <4>1 DEF ProcInv, Swept, NodeSwept
    <3>8. Swept(p)'
      BY <1>0, <1>2, <3>5, <3>6, <3>7 DEF Swept
    <3> QED
      BY <3>3, <3>4, <3>8 DEF ProcInv
  <2> QED
    BY <2>1, <2>2
<1>4. pc[p] \in Active
  BY <1>0 DEF After, Active, Working, Building, Teardown, StageNames
<1> QED
  BY <1>0, <1>3, <1>4, Quiet

(* A teardown command on an element of the current loop.                   *)
LEMMA DroppedKeeps ==
  ASSUME LeftInv, NEW p \in Procs, NEW x, Dropped(p, x)
  PROVE  Goto(p, pc[p], todo[p] \ {x}) /\ lab' = lab /\ pc' = pc /\ todo'[p] = todo[p] \ {x}
BY DEF Dropped, Goto, LeftInv, TypeInv, Functions, procVars

(* Without a failure, the object a teardown command names is gone.         *)
LEMMA RemoveSpoils ==
  ASSUME TypeInv, NEW p \in Procs, NEW pre, NEW o \in Outcomes, Remove(p, pre, o)
  PROVE  /\ spoilt' = spoilt \/ spoilt' = spoilt \cup {lab[p]}
         /\ lab[p] \notin spoilt' => o = "ok" \/ (o = "err" /\ ~pre)
BY ConstantsOK DEF Remove, Outcome, Outcomes, TypeInv, DataOK

LEMMA ClearNetemKeeps ==
  ASSUME LeftInv, TypeInv', NEW p \in Procs, ClearNetem(p) \/ RemoveEntry(p)
  PROVE  LeftInv'
<1>1. PICK x \in todo[p] :
        /\ pc[p] \in {"tdnetem", "tdfiles"} /\ Dropped(p, x)
        /\ spoilt' = spoilt \/ spoilt' = spoilt \cup {lab[p]}
  BY DEF ClearNetem, RemoveEntry, Remove
<1>2. UNCHANGED <<netns, bridge, mveth, labDir>>
  BY DEF ClearNetem, RemoveEntry, files, kernel
<1>3. lab' = lab /\ pc' = pc /\ Goto(p, pc[p], todo[p] \ {x})
  BY <1>1, DroppedKeeps
<1>4. spoilt' = spoilt \/ spoilt' = spoilt \cup {lab[p]}
  BY <1>1
<1>5. ProcInv(p)'
  <2>1. ProcInv(p)
    BY DEF LeftInv
  <2>2. pc[p] \notin PastDirs /\ pc[p] \notin MgmtStages
    BY <1>1 DEF PastDirs, Building, MgmtStages, StageNames
  <2>3. DirsMade(p)' /\ MgmtSkipped(p)'
    BY <1>1, <1>3, <2>2 DEF DirsMade, HasDirs, MgmtSkipped
  <2>4. Swept(p)'
    BY <1>1, <1>2, <1>3, <1>4, <2>1 DEF ProcInv, Swept, MgmtSwept, BridgeSwept, NodeSwept
  <2> QED
    BY <2>3, <2>4 DEF ProcInv
<1> QED
  BY <1>1, <1>2, <1>3, <1>4, <1>5, Quiet DEF Active, Working, Teardown
(* The teardown commands that delete kernel objects.                       *)
LEMMA DeleteMgmtKeeps ==
  ASSUME LeftInv, TypeInv', NEW p \in Procs, DeleteMgmtVeth(p)
  PROVE  LeftInv'
<1>1. PICK n \in todo[p], o \in Outcomes :
        /\ pc[p] = "tdmgmt" /\ Remove(p, mveth[On(p, n)] # "none", o) /\ Dropped(p, n)
        /\ mveth' = IF o = "err" THEN mveth ELSE [mveth EXCEPT ![On(p, n)] = "none"]
        /\ UNCHANGED <<netns, bridge, labDir>>
  BY DEF DeleteMgmtVeth, files
<1>2. /\ lab' = lab /\ pc' = pc /\ Goto(p, pc[p], todo[p] \ {n}) /\ todo'[p] = todo[p] \ {n}
  BY <1>1, DroppedKeeps
<1>3. /\ spoilt' = spoilt \/ spoilt' = spoilt \cup {lab[p]}
      /\ lab[p] \notin spoilt' => o = "ok" \/ (o = "err" /\ mveth[On(p, n)] = "none")
  BY <1>1, ConstantsOK DEF Remove, Outcome, Outcomes, LeftInv, TypeInv, DataOK
<1>4. /\ TypeInv /\ ProcInv(p) /\ MgmtOff /\ Leftovers(lab[p]) /\ lab[p] \in Labs
      /\ todo[p] \subseteq Nodes /\ mveth \in [LabNodes -> {"none", "host", "moved"}]
  BY <1>1 DEF LeftInv, TypeInv, DataOK, LoopsOK, LoopOK, NodeLoops
<1>5. /\ On(p, n) \in LabNodes /\ On(p, n) = <<lab[p], n>>
  BY <1>1, <1>4 DEF On, LabNodes
<1>6. /\ mveth' = mveth \/ mveth' = [mveth EXCEPT ![<<lab[p], n>>] = "none"]
      /\ lab[p] \notin spoilt' => mveth'[<<lab[p], n>>] = "none"
  BY <1>1, <1>3, <1>4, <1>5
<1>7. ProcInv(p)'
  <2>1. "tdmgmt" \notin PastDirs
    BY DEF PastDirs, Building, StageNames
  <2>2. DirsMade(p)' /\ MgmtSkipped(p)'
    BY <1>1, <1>2, <1>4, <2>1 DEF DirsMade, HasDirs, ProcInv, MgmtSkipped, MgmtStages
  <2>3. Swept(p)'
    BY <1>1, <1>2, <1>3, <1>4, <1>6 DEF ProcInv, Swept, MgmtSwept, BridgeSwept, NodeSwept, LabNodes
  <2> QED
    BY <2>2, <2>3 DEF ProcInv
<1>8. Others(p)
  BY <1>1, <1>2, <1>3, <1>4, <1>6 DEF Others, Goto, TypeInv, Functions, LabNodes
<1>9. MgmtOff' /\ Leftovers(lab[p])'
  BY <1>1, <1>2, <1>3, <1>4, <1>6 DEF MgmtOff, Leftovers, Exists, LabNodes
<1> QED
  BY <1>1, <1>7, <1>8, <1>9, Combine DEF Own, Active, Working, Teardown

LEMMA DeleteBridgeKeeps ==
  ASSUME LeftInv, TypeInv', NEW p \in Procs, DeleteMgmtBridge(p)
  PROVE  LeftInv'
<1>1. PICK o \in Outcomes, s \in {"failed", "tdbridge"} :
        /\ pc[p] = "tdbridge" /\ Remove(p, lab[p] \in bridge, o) /\ Goto(p, s, {})
        /\ bridge' = IF o = "err" THEN bridge ELSE bridge \ {lab[p]}
        /\ UNCHANGED <<lab, netns, mveth, labDir>>
  BY DEF DeleteMgmtBridge, files, procVars
<1>2. /\ spoilt' = spoilt \/ spoilt' = spoilt \cup {lab[p]}
      /\ lab[p] \notin spoilt' => lab[p] \notin bridge'
  BY <1>1, ConstantsOK DEF Remove, Outcome, Outcomes, LeftInv, TypeInv, DataOK
<1>3. TypeInv /\ ProcInv(p) /\ MgmtOff /\ Leftovers(lab[p]) /\ lab[p] \in Labs
  BY DEF LeftInv, TypeInv, DataOK
<1>4. pc'[p] = s /\ todo'[p] = {}
  BY <1>1, <1>3 DEF Goto, TypeInv, Functions
<1>5. ProcInv(p)'
  <2>1. s \notin PastDirs /\ s # "nodes"
    BY <1>1 DEF PastDirs, Building, StageNames
  <2>2. DirsMade(p)' /\ MgmtSkipped(p)'
    BY <1>1, <1>4, <2>1 DEF DirsMade, HasDirs, MgmtSkipped
  <2>3. Swept(p)'
    BY <1>1, <1>2, <1>3, <1>4 DEF ProcInv, Swept, MgmtSwept, BridgeSwept, NodeSwept
  <2> QED
    BY <2>2, <2>3 DEF ProcInv
<1>6. Others(p)
  BY <1>1, <1>2, <1>3 DEF Others, Goto, TypeInv, Functions
<1>7. MgmtOff' /\ Leftovers(lab[p])'
  BY <1>1, <1>2, <1>3 DEF MgmtOff, Leftovers, Exists
<1> QED
  BY <1>1, <1>5, <1>6, <1>7, Combine DEF Own, Active, Working, Teardown

LEMMA DeleteNamespaceKeeps ==
  ASSUME LeftInv, TypeInv', NEW p \in Procs, DeleteNamespace(p)
  PROVE  LeftInv'
<1>1. PICK n \in todo[p], o \in Outcomes :
        /\ pc[p] = "tdns" /\ Remove(p, On(p, n) \in netns, o) /\ Dropped(p, n)
        /\ IF o = "err" THEN UNCHANGED <<netns, mveth>>
           ELSE /\ netns' = netns \ {On(p, n)}
                /\ mveth' = [mveth EXCEPT ![On(p, n)] = IF @ = "moved" THEN "none" ELSE @]
        /\ UNCHANGED <<bridge, labDir>>
  BY DEF DeleteNamespace, files, kernel
<1>2. /\ lab' = lab /\ pc' = pc /\ Goto(p, pc[p], todo[p] \ {n}) /\ todo'[p] = todo[p] \ {n}
  BY <1>1, DroppedKeeps
<1>3. /\ spoilt' = spoilt \/ spoilt' = spoilt \cup {lab[p]}
      /\ lab[p] \notin spoilt' => On(p, n) \notin netns'
  BY <1>1, ConstantsOK DEF Remove, Outcome, Outcomes, LeftInv, TypeInv, DataOK
<1>4. /\ TypeInv /\ ProcInv(p) /\ MgmtOff /\ Leftovers(lab[p]) /\ lab[p] \in Labs
      /\ todo[p] \subseteq Nodes /\ mveth \in [LabNodes -> {"none", "host", "moved"}]
  BY <1>1 DEF LeftInv, TypeInv, DataOK, LoopsOK, LoopOK, NodeLoops
<1>5. /\ On(p, n) \in LabNodes /\ On(p, n) = <<lab[p], n>>
  BY <1>1, <1>4 DEF On, LabNodes
<1>6. /\ netns' \subseteq netns
      /\ \A x \in LabNodes : mveth[x] = "none" => mveth'[x] = "none"
      /\ \A x \in LabNodes : x # <<lab[p], n>> => (x \in netns' <=> x \in netns) /\ mveth'[x] = mveth[x]
  BY <1>1, <1>4, <1>5
<1>7. ProcInv(p)'
  <2>1. "tdns" \notin PastDirs
    BY DEF PastDirs, Building, StageNames
  <2>2. DirsMade(p)' /\ MgmtSkipped(p)'
    BY <1>1, <1>2, <2>1 DEF DirsMade, HasDirs, MgmtSkipped, MgmtStages
  <2>3. Swept(p)'
    BY <1>1, <1>2, <1>3, <1>4, <1>5, <1>6 DEF ProcInv, Swept, MgmtSwept, BridgeSwept, NodeSwept, LabNodes
  <2> QED
    BY <2>2, <2>3 DEF ProcInv
<1>8. Others(p)
  BY <1>1, <1>2, <1>3, <1>4, <1>6 DEF Others, Goto, TypeInv, Functions, LabNodes
<1>9. MgmtOff' /\ Leftovers(lab[p])'
  <2>1. MgmtOff'
    BY <1>1, <1>4, <1>6 DEF MgmtOff
  <2>2. lab[p] \notin spoilt' => (Exists(lab[p])' => Exists(lab[p]))
    BY <1>1, <1>2, <1>4, <1>6 DEF Exists, LabNodes, TypeInv, DataOK
  <2> QED
    BY <1>1, <1>2, <1>3, <1>4, <2>1, <2>2 DEF Leftovers
<1> QED
  BY <1>1, <1>7, <1>8, <1>9, Combine DEF Own, Active, Working, Teardown

(* The directory goes last, when a teardown without a failure has swept    *)
(* everything else.                                                        *)
LEMMA RemoveLabDirKeeps ==
  ASSUME LeftInv, TypeInv', NEW p \in Procs, RemoveLabDir(p)
  PROVE  LeftInv'
<1>1. PICK s \in {"failed", "ok"} :
        /\ pc[p] = "tddir" /\ Goto(p, s, {})
        /\ labDir' = labDir \/ labDir' = labDir \ {lab[p]}
        /\ spoilt' = spoilt \/ spoilt' = spoilt \cup {lab[p]}
        /\ UNCHANGED <<lab, netns, mveth, bridge>>
  BY DEF RemoveLabDir, Remove, kernel, procVars
<1>2. TypeInv /\ ProcInv(p) /\ MgmtOff /\ Leftovers(lab[p]) /\ lab[p] \in Labs
  BY DEF LeftInv, TypeInv, DataOK
<1>3. s \notin PastDirs /\ s # "nodes" /\ s \notin MgmtStages
  BY <1>1 DEF PastDirs, Building, MgmtStages, StageNames
<1>4. ProcInv(p)'
  BY <1>1, <1>3, BuildStep
<1>5. Others(p)
  BY <1>1, <1>2 DEF Others, Goto, TypeInv, Functions
<1>6. lab[p] \notin spoilt => ~Exists(lab[p])
  BY <1>1, <1>2 DEF ProcInv, Swept, MgmtSwept, BridgeSwept, NodeSwept, Exists
<1>7. MgmtOff' /\ Leftovers(lab[p])'
  BY <1>1, <1>2, <1>6 DEF MgmtOff, Leftovers, Exists
<1> QED
  BY <1>1, <1>4, <1>5, <1>7, Combine DEF Own, Active, Working, Teardown

-----------------------------------------------------------------------------
LEMMA LeftInvNext == SameLab = FALSE /\ LeftInv /\ [Next]_vars => LeftInv'
<1> SUFFICES ASSUME SameLab = FALSE, LeftInv, [Next]_vars PROVE LeftInv'
  OBVIOUS
<1>1. TypeInv'
  BY TypeInvNext DEF LeftInv
<1>2. CASE UNCHANGED vars
  BY <1>1, <1>2 DEF vars, procVars, kernel, files, history, LeftInv, Exclusive, MgmtOff, ProcInv,
     DirsMade, HasDirs, MgmtSkipped, Swept, MgmtSwept, BridgeSwept, NodeSwept, Leftovers, Exists
<1>3. ASSUME NEW p \in Procs, Start(p) \/ Step(p) \/ Kill(p) PROVE LeftInv'
  <2>1. CASE Start(p)
    BY <1>1, <2>1, StartKeeps
  <2>2. CASE Kill(p) \/ Precheck(p) \/ Load(p) \/ Plan(p)
    BY <1>1, <2>2, ControlKeeps
  <2>3. CASE \/ EnsureLoopbackUp(p) \/ CreateVethPair(p) \/ MoveEndA(p) \/ MoveEndB(p)
             \/ ConfigureLink(p) \/ ConfigureNode(p) \/ WriteNodeEnvFile(p)
             \/ ConfigureMgmtEnd(p) \/ TruncateState(p) \/ WriteState(p)
    BY <1>1, <2>3, ConfigureKeeps
  <2>4. CASE \/ EnsureLabDirs(p) \/ CreateNamespace(p)
             \/ CreateMgmtBridge(p) \/ CreateMgmtPair(p) \/ MoveMgmtEnd(p)
    BY <1>1, <2>4, CreateKeeps
  <2>5. CASE EndStage(p)
    BY <1>1, <2>5, EndStageKeeps
  <2>6. CASE ClearNetem(p) \/ RemoveEntry(p)
    BY <1>1, <2>6, ClearNetemKeeps
  <2>7. CASE DeleteMgmtVeth(p) \/ DeleteMgmtBridge(p) \/ DeleteNamespace(p) \/ RemoveLabDir(p)
    BY <1>1, <2>7, DeleteMgmtKeeps, DeleteBridgeKeeps, DeleteNamespaceKeeps, RemoveLabDirKeeps
  <2> QED
    BY <1>3, <2>1, <2>2, <2>3, <2>4, <2>5, <2>6, <2>7 DEF Step, Deploy, TearDown
<1> QED
  BY <1>2, <1>3 DEF Next

(* While the commands on one lab do not overlap: however many of them run  *)
(* on however many labs, and whatever is killed, fails or times out in a   *)
(* deploy, a lab of which the kernel still has something has its run       *)
(* directory, unless a removal failed on that very lab.                    *)
THEOREM LeftoversAreAnnounced ==
  ASSUME SameLab = FALSE
  PROVE  Spec => []LeftoversKeepTheirDir
<1>1. LeftInv /\ [Next]_vars => LeftInv'
  BY LeftInvNext
<1> QED
  BY <1>1, LeftInvInit, LeftInvImplies, PTL DEF Spec

-----------------------------------------------------------------------------
(* What a deploy has built at each of its stages and what a teardown has   *)
(* removed: lab-state.json is completed for a whole lab only, and deploy   *)
(* and destroy implement LabRegistry.                                      *)

(* A step of p as the rest of the host sees it, all of it.                 *)
OtherProcs(p) == \A q \in Procs \ {p} : pc'[q] = pc[q] /\ todo'[q] = todo[q] /\ cur'[q] = cur[q]

OtherLabs(p) ==
  \A l \in Labs \ {lab[p]} :
    /\ l \in labDir' <=> l \in labDir
    /\ l \in bridge' <=> l \in bridge
    /\ l \in spoilt' <=> l \in spoilt
    /\ stateFile'[l] = stateFile[l]
    /\ \A n \in Nodes : /\ <<l, n>> \in netns' <=> <<l, n>> \in netns
                        /\ mveth'[<<l, n>>] = mveth[<<l, n>>]
                        /\ conf'[<<l, n>>] = conf[<<l, n>>]
                        /\ nodeDir'[<<l, n>>] = nodeDir[<<l, n>>]

OtherPairs(p) == \A q \in Procs, k \in Links : lab[q] # lab[p] => veth'[<<q, k>>] = veth[<<q, k>>]

Elsewhere(p) == UNCHANGED procVars /\ OtherProcs(p) /\ OtherLabs(p) /\ OtherPairs(p)

LEMMA GotoMoves ==
  ASSUME TypeInv, NEW p \in Procs, NEW s, NEW t, Goto(p, s, t), NEW c, cur' = [cur EXCEPT ![p] = c]
  PROVE  OtherProcs(p) /\ pc'[p] = s /\ todo'[p] = t /\ cur'[p] = c
BY DEF TypeInv, Functions, Goto, OtherProcs

LEMMA GotoHolds ==
  ASSUME TypeInv, NEW p \in Procs, NEW s, NEW t, Goto(p, s, t), cur' = cur
  PROVE  OtherProcs(p) /\ pc'[p] = s /\ todo'[p] = t /\ cur'[p] = cur[p]
BY DEF TypeInv, Functions, Goto, OtherProcs

(* Where an operation of a build leads: on to s with t, or to the rollback. *)
LEMMA RollbackMoves ==
  ASSUME TypeInv, NEW p \in Procs, NEW o, NEW s, NEW t, OrRollback(p, o, s, t),
         NEW c, cur' = [cur EXCEPT ![p] = c]
  PROVE  /\ OtherProcs(p) /\ cur'[p] = c
         /\ o = "ok" => pc'[p] = s /\ todo'[p] = t
         /\ o # "ok" => pc'[p] = "tdnetem" /\ todo'[p] = Work("tdnetem", lab[p])
<1>1. CASE o = "ok"
  BY <1>1, GotoMoves DEF OrRollback
<1>2. CASE o # "ok"
  BY <1>2, GotoMoves DEF OrRollback
<1> QED
  BY <1>1, <1>2

LEMMA RollbackHolds ==
  ASSUME TypeInv, NEW p \in Procs, NEW o, NEW s, NEW t, OrRollback(p, o, s, t), cur' = cur
  PROVE  /\ OtherProcs(p) /\ cur'[p] = cur[p]
         /\ o = "ok" => pc'[p] = s /\ todo'[p] = t
         /\ o # "ok" => pc'[p] = "tdnetem" /\ todo'[p] = Work("tdnetem", lab[p])
<1>1. CASE o = "ok"
  BY <1>1, GotoHolds DEF OrRollback
<1>2. CASE o # "ok"
  BY <1>2, GotoHolds DEF OrRollback
<1> QED
  BY <1>1, <1>2

LEMMA TakeMoves ==
  ASSUME TypeInv, NEW p \in Procs, NEW x, NEW o, NEW s, Take(p, x, o, s)
  PROVE  /\ OtherProcs(p) /\ cur'[p] = x
         /\ o = "ok" => pc'[p] = s /\ todo'[p] = todo[p]
         /\ o # "ok" => pc'[p] = "tdnetem" /\ todo'[p] = Work("tdnetem", lab[p])
BY RollbackMoves DEF Take

LEMMA FinishMoves ==
  ASSUME TypeInv, NEW p \in Procs, NEW x, NEW o, NEW s, Finish(p, x, o, s)
  PROVE  /\ OtherProcs(p) /\ cur'[p] = "-"
         /\ o = "ok" => pc'[p] = s /\ todo'[p] = todo[p] \ {x}
         /\ o # "ok" => pc'[p] = "tdnetem" /\ todo'[p] = Work("tdnetem", lab[p])
BY RollbackMoves DEF Finish

LEMMA DroppedMoves ==
  ASSUME TypeInv, NEW p \in Procs, NEW x, Dropped(p, x)
  PROVE  /\ UNCHANGED procVars /\ OtherProcs(p) /\ pc' = pc /\ cur' = cur
         /\ todo'[p] = todo[p] \ {x}
BY DEF Dropped, TypeInv, Functions, OtherProcs

(* What a process does inside its own lab, in the kernel or in the files.  *)
LEMMA StillElsewhere ==
  ASSUME UNCHANGED <<kernel, files>>, NEW p \in Procs,
         spoilt' = spoilt \/ spoilt' = spoilt \cup {lab[p]}
  PROVE  OtherLabs(p) /\ OtherPairs(p)
BY DEF kernel, files, OtherLabs, OtherPairs

LEMMA ControlElsewhere ==
  ASSUME TypeInv, NEW p \in Procs,
         \/ Start(p) \/ Precheck(p) \/ Load(p) \/ Kill(p) \/ Plan(p) \/ EndStage(p)
         \/ EnsureLoopbackUp(p) \/ ConfigureMgmtEnd(p)
  PROVE  Elsewhere(p)
<1>1. UNCHANGED <<procVars, kernel, files, spoilt>>
  BY DEF Start, Precheck, Load, Kill, Plan, EndStage, EnsureLoopbackUp, ConfigureMgmtEnd, Attempt,
     history
<1>2. OtherProcs(p)
  <2>1. CASE Start(p) \/ Precheck(p) \/ Load(p) \/ EndStage(p)
    <3>1. (\E s, t : Goto(p, s, t)) /\ cur' = cur
      BY <2>1 DEF Start, Precheck, Load, EndStage
    <3> QED
      BY <3>1, GotoHolds
  <2>2. CASE Kill(p)
    BY <2>2, GotoMoves DEF Kill
  <2>3. CASE Plan(p)
    <3>1. PICK o \in {"ok", "err"} : OrRollback(p, o, "nodes", Nodes) /\ cur' = cur
      BY <2>3 DEF Plan
    <3> QED
      BY <3>1, RollbackHolds
  <2>4. CASE EnsureLoopbackUp(p) \/ ConfigureMgmtEnd(p)
    <3>1. \E x, o, s : Finish(p, x, o, s)
      BY <2>4 DEF EnsureLoopbackUp, ConfigureMgmtEnd
    <3> QED
      BY <3>1, FinishMoves
  <2> QED
    BY <2>1, <2>2, <2>3, <2>4
<1> QED
  BY <1>1, <1>2, StillElsewhere DEF Elsewhere

LEMMA BuildElsewhere ==
  ASSUME TypeInv, NEW p \in Procs,
         \/ EnsureLabDirs(p) \/ CreateNamespace(p) \/ CreateVethPair(p) \/ MoveEndA(p) \/ MoveEndB(p)
         \/ ConfigureLink(p) \/ ConfigureNode(p) \/ CreateMgmtBridge(p) \/ CreateMgmtPair(p)
         \/ MoveMgmtEnd(p) \/ WriteNodeEnvFile(p) \/ TruncateState(p) \/ WriteState(p)
  PROVE  Elsewhere(p)
<1> USE DEF Attempt, kernel, files
<1>0. lab[p] \in Labs /\ DataOK
  BY DEF TypeInv, DataOK
<1>1. UNCHANGED <<procVars, spoilt>>
  BY DEF EnsureLabDirs, CreateNamespace, CreateVethPair, MoveEndA, MoveEndB, ConfigureLink, ConfigureNode,
     CreateMgmtBridge, CreateMgmtPair, MoveMgmtEnd, WriteNodeEnvFile, TruncateState, WriteState
<1>2. OtherProcs(p)
  <2>1. CASE \/ EnsureLabDirs(p) \/ CreateNamespace(p) \/ CreateVethPair(p) \/ MoveEndA(p) \/ MoveEndB(p)
             \/ CreateMgmtPair(p) \/ MoveMgmtEnd(p)
    <3>1. \E x, o, s : Take(p, x, o, s)
      BY <2>1 DEF EnsureLabDirs, CreateNamespace, CreateVethPair, MoveEndA, MoveEndB, CreateMgmtPair, MoveMgmtEnd
    <3> QED
      BY <3>1, TakeMoves
  <2>2. CASE ConfigureLink(p) \/ ConfigureNode(p) \/ CreateMgmtBridge(p) \/ WriteNodeEnvFile(p)
    <3>1. \E x, o, s : Finish(p, x, o, s)
      BY <2>2 DEF ConfigureLink, ConfigureNode, CreateMgmtBridge, WriteNodeEnvFile
    <3> QED
      BY <3>1, FinishMoves
  <2>3. CASE TruncateState(p) \/ WriteState(p)
    <3>1. (\E o, s, t : OrRollback(p, o, s, t)) /\ cur' = cur
      BY <2>3 DEF TruncateState, WriteState
    <3> QED
      BY <3>1, RollbackHolds
  <2> QED
    BY <2>1, <2>2, <2>3
<1>3. OtherPairs(p)
  <2>1. CASE CreateVethPair(p) \/ MoveEndA(p) \/ MoveEndB(p) \/ ConfigureLink(p)
    <3>1. PICK k, v : veth' = veth \/ veth' = [veth EXCEPT ![<<p, k>>] = v]
      BY <2>1 DEF CreateVethPair, MoveEndA, MoveEndB, ConfigureLink
    <3> QED
      BY <1>0, <3>1 DEF OtherPairs, DataOK
  <2>2. CASE \/ EnsureLabDirs(p) \/ CreateNamespace(p) \/ ConfigureNode(p) \/ CreateMgmtBridge(p)
             \/ CreateMgmtPair(p) \/ MoveMgmtEnd(p) \/ WriteNodeEnvFile(p) \/ TruncateState(p) \/ WriteState(p)
    BY <2>2 DEF EnsureLabDirs, CreateNamespace, ConfigureNode, CreateMgmtBridge, CreateMgmtPair,
       MoveMgmtEnd, WriteNodeEnvFile, TruncateState, WriteState, OtherPairs
  <2> QED
    BY <2>1, <2>2
<1>4. OtherLabs(p)
  <2> USE <1>0, <1>1 DEF OtherLabs, On, DataOK, LabNodes
  <2>1. CASE EnsureLabDirs(p)
    <3>1. PICK n, d : /\ labDir' = labDir \/ labDir' = labDir \cup {lab[p]}
                      /\ nodeDir' = nodeDir \/ nodeDir' = [nodeDir EXCEPT ![<<lab[p], n>>] = d]
      BY <2>1 DEF EnsureLabDirs
    <3> QED
      BY <2>1, <3>1 DEF EnsureLabDirs
  <2>2. CASE CreateNamespace(p)
    BY <2>2 DEF CreateNamespace
  <2>3. CASE CreateVethPair(p) \/ MoveEndA(p) \/ MoveEndB(p) \/ ConfigureLink(p)
    BY <2>3 DEF CreateVethPair, MoveEndA, MoveEndB, ConfigureLink
  <2>4. CASE ConfigureNode(p)
    BY <2>4 DEF ConfigureNode
  <2>5. CASE CreateMgmtBridge(p)
    BY <2>5 DEF CreateMgmtBridge
  <2>6. CASE CreateMgmtPair(p) \/ MoveMgmtEnd(p)
    <3>1. PICK n, v : mveth' = mveth \/ mveth' = [mveth EXCEPT ![<<lab[p], n>>] = v]
      BY <2>6 DEF CreateMgmtPair, MoveMgmtEnd
    <3>2. UNCHANGED <<netns, conf, bridge, labDir, nodeDir, stateFile>>
      BY <2>6 DEF CreateMgmtPair, MoveMgmtEnd
    <3> QED
      BY <3>1, <3>2
  <2>7. CASE WriteNodeEnvFile(p)
    BY <2>7 DEF WriteNodeEnvFile
  <2>8. CASE TruncateState(p) \/ WriteState(p)
    BY <2>8 DEF TruncateState, WriteState
  <2> QED
    BY <2>1, <2>2, <2>3, <2>4, <2>5, <2>6, <2>7, <2>8
<1> QED
  BY <1>1, <1>2, <1>3, <1>4 DEF Elsewhere

LEMMA TeardownElsewhere ==
  ASSUME TypeInv, NEW p \in Procs,
         \/ ClearNetem(p) \/ DeleteMgmtVeth(p) \/ DeleteMgmtBridge(p) \/ DeleteNamespace(p)
         \/ RemoveEntry(p) \/ RemoveLabDir(p)
  PROVE  Elsewhere(p)
<1> USE DEF Remove, kernel, files
<1>0. lab[p] \in Labs /\ DataOK
  BY DEF TypeInv, DataOK
<1>1. UNCHANGED procVars /\ OtherProcs(p)
  <2>1. CASE ClearNetem(p) \/ DeleteMgmtVeth(p) \/ DeleteNamespace(p) \/ RemoveEntry(p)
    <3>1. \E x : Dropped(p, x)
      BY <2>1 DEF ClearNetem, DeleteMgmtVeth, DeleteNamespace, RemoveEntry
    <3> QED
      BY <3>1, DroppedMoves
  <2>2. CASE DeleteMgmtBridge(p) \/ RemoveLabDir(p)
    <3>1. (\E s, t : Goto(p, s, t)) /\ cur' = cur /\ UNCHANGED procVars
      BY <2>2 DEF DeleteMgmtBridge, RemoveLabDir
    <3> QED
      BY <3>1, GotoHolds
  <2> QED
    BY <2>1, <2>2
<1>2. spoilt' = spoilt \/ spoilt' = spoilt \cup {lab[p]}
  BY DEF ClearNetem, DeleteMgmtVeth, DeleteMgmtBridge, DeleteNamespace, RemoveEntry, RemoveLabDir
<1>3. OtherPairs(p)
  <2>1. CASE DeleteNamespace(p)
    <3>1. PICK n : \/ veth' = veth
                   \/ veth' = [y \in Procs \X Links |-> IF HasEndIn(y, On(p, n)) THEN "none" ELSE veth[y]]
      BY <2>1 DEF DeleteNamespace
    <3> QED
      BY <1>0, <3>1 DEF OtherPairs, DataOK, HasEndIn, On
  <2>2. CASE ~DeleteNamespace(p)
    BY <2>2 DEF ClearNetem, DeleteMgmtVeth, DeleteMgmtBridge, RemoveEntry, RemoveLabDir, OtherPairs
  <2> QED
    BY <2>1, <2>2
<1>4. OtherLabs(p)
  <2> USE <1>0, <1>2 DEF OtherLabs, On, DataOK, LabNodes
  <2>1. CASE ClearNetem(p)
    BY <2>1 DEF ClearNetem
  <2>2. CASE DeleteMgmtVeth(p)
    BY <2>2 DEF DeleteMgmtVeth
  <2>3. CASE DeleteMgmtBridge(p)
    BY <2>3 DEF DeleteMgmtBridge
  <2>4. CASE DeleteNamespace(p)
    <3>1. PICK n, v : /\ mveth' = mveth \/ mveth' = [mveth EXCEPT ![<<lab[p], n>>] = v]
                      /\ netns' = netns \/ netns' = netns \ {<<lab[p], n>>}
                      /\ conf' = conf \/ conf' = [conf EXCEPT ![<<lab[p], n>>] = {}]
      BY <2>4 DEF DeleteNamespace
    <3> QED
      BY <2>4, <3>1 DEF DeleteNamespace
  <2>5. CASE RemoveEntry(p)
    <3>1. PICK n : /\ stateFile' = stateFile \/ stateFile' = [stateFile EXCEPT ![lab[p]] = "none"]
                   /\ nodeDir' = nodeDir \/ nodeDir' = [nodeDir EXCEPT ![<<lab[p], n>>] = "none"]
      BY <2>5 DEF RemoveEntry
    <3> QED
      BY <2>5, <3>1 DEF RemoveEntry
  <2>6. CASE RemoveLabDir(p)
    BY <2>6 DEF RemoveLabDir
  <2> QED
    BY <2>1, <2>2, <2>3, <2>4, <2>5, <2>6
<1> QED
  BY <1>1, <1>3, <1>4 DEF Elsewhere

LEMMA StepElsewhere ==
  ASSUME TypeInv, NEW p \in Procs, Start(p) \/ Step(p) \/ Kill(p)
  PROVE  Elsewhere(p)
BY ControlElsewhere, BuildElsewhere, TeardownElsewhere DEF Step, Deploy, TearDown

(* What a process that is at work sees of a step of another one.           *)
Undisturbed(q) ==
  /\ lab' = lab /\ cmd' = cmd /\ pc'[q] = pc[q] /\ todo'[q] = todo[q] /\ cur'[q] = cur[q]
  /\ lab[q] \in labDir' <=> lab[q] \in labDir
  /\ lab[q] \in bridge' <=> lab[q] \in bridge
  /\ lab[q] \in spoilt' <=> lab[q] \in spoilt
  /\ stateFile'[lab[q]] = stateFile[lab[q]]
  /\ \A n \in Nodes : /\ <<lab[q], n>> \in netns' <=> <<lab[q], n>> \in netns
                      /\ mveth'[<<lab[q], n>>] = mveth[<<lab[q], n>>]
                      /\ conf'[<<lab[q], n>>] = conf[<<lab[q], n>>]
                      /\ nodeDir'[<<lab[q], n>>] = nodeDir[<<lab[q], n>>]
  /\ \A k \in Links : veth'[<<q, k>>] = veth[<<q, k>>]

LEMMA StepIsActive ==
  ASSUME NEW p \in Procs, Step(p) \/ Kill(p)
  PROVE  pc[p] \in Active
<1> USE DEF Active, Working, Building, Teardown, StageNames
<1>1. CASE Kill(p)
  BY <1>1 DEF Kill
<1>2. CASE Deploy(p)
  BY <1>2 DEF Deploy, Precheck, Plan, EnsureLabDirs, CreateNamespace, EnsureLoopbackUp, CreateVethPair,
     MoveEndA, MoveEndB, ConfigureLink, ConfigureNode, ConfStages, WriteNodeEnvFile, CreateMgmtBridge,
     CreateMgmtPair, MoveMgmtEnd, ConfigureMgmtEnd, TruncateState, WriteState
<1>3. CASE TearDown(p)
  BY <1>3 DEF TearDown, Load, ClearNetem, DeleteMgmtVeth, DeleteMgmtBridge, DeleteNamespace, RemoveEntry,
     RemoveLabDir
<1>4. CASE EndStage(p)
  BY <1>4 DEF EndStage, After
<1> QED
  BY <1>1, <1>2, <1>3, <1>4 DEF Step

LEMMA StepDisturbsNoOther ==
  ASSUME LeftInv, NEW p \in Procs, Start(p) \/ Step(p) \/ Kill(p),
         NEW q \in Procs \ {p}, pc[q] \in Active
  PROVE  Undisturbed(q)
<1>1. TypeInv /\ lab[q] \in Labs
  BY DEF LeftInv, TypeInv, DataOK
<1>2. Elsewhere(p)
  BY <1>1, StepElsewhere
<1>3. CASE Start(p)
  BY <1>1, <1>2, <1>3 DEF Start, Elsewhere, OtherProcs, Undisturbed, procVars, kernel, files, history
<1>4. CASE Step(p) \/ Kill(p)
  <2>1. lab[q] # lab[p]
    BY <1>4, StepIsActive DEF LeftInv, Exclusive
  <2> QED
    BY <1>1, <1>2, <2>1 DEF Elsewhere, OtherProcs, OtherLabs, OtherPairs, Undisturbed, procVars
<1> QED
  BY <1>3, <1>4

-----------------------------------------------------------------------------
(* What a build has done.                                                  *)

Stages == {"nodes", "links", "mgmtbr", "mgmt"} \cup StageNames

(* The order of the stages, and the stage to which each step belongs.      *)
Place ==
  [plan |-> 0, nodes |-> 1, createns |-> 1, loopup |-> 1,
   links |-> 2, moveA |-> 2, moveB |-> 2, linkconf |-> 2, br0 |-> 3, sysctl |-> 4,
   mgmtbr |-> 5, mgmt |-> 6, mgmtmove |-> 6, mgmtconf |-> 6, routes |-> 7,
   netem |-> 8, env |-> 9, exec |-> 10, save |-> 11, write |-> 12]

(* p is done with element x of stage s.                                    *)
Through(p, s, x) ==
  /\ pc[p] \in Building
  /\ Place[pc[p]] > Place[s] \/ (Place[pc[p]] = Place[s] /\ x \notin todo[p])

(* What has come of it.                                                    *)
Deed(p, s, x) ==
  /\ s = "nodes"  => <<lab[p], x>> \in netns /\ nodeDir[<<lab[p], x>>] # "none"
  /\ s = "links"  => veth[<<p, x>>] = "named"
  /\ s \in ConfStages => s \in conf[<<lab[p], x>>]
  /\ s = "mgmtbr" => x \in bridge
  /\ s = "mgmt"   => mveth[<<lab[p], x>>] = "moved"
  /\ s = "env"    => nodeDir[<<lab[p], x>>] = "env"

Deeds(p) == \A s \in Stages : \A x \in Work(s, lab[p]) : Through(p, s, x) => Deed(p, s, x)

NodeDirMade(p) == pc[p] \in {"createns", "loopup"} => nodeDir[<<lab[p], cur[p]>>] # "none"

BuildInv == LeftInv /\ \A p \in Procs : Deeds(p) /\ NodeDirMade(p)

LEMMA WorkIs ==
  ASSUME NEW l \in Labs
  PROVE  /\ Work("nodes", l) = Nodes /\ Work("links", l) = Links
         /\ \A s \in StageNames : Work(s, l) = StageNodes[s] /\ StageNodes[s] \subseteq Nodes
         /\ Work("mgmt", l) = IF MgmtEnabled THEN Nodes ELSE {}
         /\ Work("mgmtbr", l) = IF MgmtEnabled THEN {l} ELSE {}
BY ConstantsOK DEF Work, StageNames

LEMMA WorkElements ==
  ASSUME NEW l \in Labs, NEW s \in Stages, NEW x \in Work(s, l)
  PROVE  /\ s \in {"nodes", "mgmt"} \cup StageNames => x \in Nodes
         /\ s = "links" => x \in Links
         /\ s = "mgmtbr" => x = l
         /\ s \in {"mgmtbr", "mgmt"} => MgmtEnabled
BY WorkIs DEF Stages

LEMMA HoldsNode ==
  ASSUME TypeInv, NEW p \in Procs, pc[p] \in NodeSteps
  PROVE  cur[p] \in Nodes
BY DEF TypeInv, LoopsOK, LoopOK

LEMMA NoDeeds ==
  ASSUME NEW p \in Procs, pc'[p] \notin Building
  PROVE  Deeds(p)' /\ NodeDirMade(p)'
BY DEF Deeds, NodeDirMade, Through, Building

(* The deeds of a process that is at work last while another one works.    *)
LEMMA DeedsOfOthers ==
  ASSUME BuildInv, NEW p \in Procs, Start(p) \/ Step(p) \/ Kill(p), NEW q \in Procs \ {p}
  PROVE  Deeds(q)' /\ NodeDirMade(q)'
<1>1. TypeInv /\ LeftInv /\ Deeds(q) /\ NodeDirMade(q) /\ lab[q] \in Labs
  BY DEF BuildInv, LeftInv, TypeInv, DataOK
<1>2. Elsewhere(p)
  BY <1>1, StepElsewhere
<1>3. CASE pc[q] \in Building
  <2>1. Undisturbed(q)
    BY <1>1, <1>3, StepDisturbsNoOther DEF Active, Working
  <2>2. \A s \in Stages : \A x \in Work(s, lab[q]) : Deed(q, s, x) => Deed(q, s, x)'
    <3> SUFFICES ASSUME NEW s \in Stages, NEW x \in Work(s, lab[q]), Deed(q, s, x)
                 PROVE  Deed(q, s, x)'
      OBVIOUS
    <3>1. /\ s \in {"nodes", "mgmt"} \cup StageNames => x \in Nodes
          /\ s = "links" => x \in Links
          /\ s = "mgmtbr" => x = lab[q]
      BY <1>1, WorkElements
    <3> QED
      BY <2>1, <3>1 DEF Undisturbed, Deed, ConfStages, StageNames
  <2>3. Deeds(q)'
    BY <1>1, <2>1, <2>2 DEF Deeds, Undisturbed, Through, Work
  <2>4. NodeDirMade(q)'
    BY <1>1, <2>1, HoldsNode DEF NodeDirMade, Undisturbed, NodeSteps
  <2> QED
    BY <2>3, <2>4
<1>4. CASE pc[q] \notin Building
  BY <1>2, <1>4, NoDeeds DEF Elsewhere, OtherProcs
<1> QED
  BY <1>3, <1>4

(* A step that keeps what has been done and stays in its stage.            *)
LEMMA DeedsKept ==
  ASSUME BuildInv, NEW p \in Procs, pc[p] \in Building, lab' = lab,
         Place[pc'[p]] = Place[pc[p]], NEW D, todo'[p] = todo[p] \ D,
         \A s \in Stages : \A x \in Work(s, lab[p]) :
           /\ Through(p, s, x) => Deed(p, s, x)'
           /\ Place[s] = Place[pc[p]] /\ x \in D => Deed(p, s, x)'
  PROVE  Deeds(p)'
<1> SUFFICES ASSUME NEW s \in Stages, NEW x \in Work(s, lab[p]), Through(p, s, x)'
             PROVE  Deed(p, s, x)'
  BY DEF Deeds, Work
<1>1. CASE Through(p, s, x)
  BY <1>1
<1>2. CASE ~Through(p, s, x)
  <2>1. Place[s] = Place[pc[p]] /\ x \in D
    BY <1>2 DEF Through
  <2> QED
    BY <2>1
<1> QED
  BY <1>1, <1>2

LEMMA DeedsLast ==
  ASSUME BuildInv, NEW p \in Procs, pc[p] \in Building, lab' = lab,
         Place[pc'[p]] = Place[pc[p]], todo'[p] = todo[p],
         \A s \in Stages : \A x \in Work(s, lab[p]) : Through(p, s, x) => Deed(p, s, x)'
  PROVE  Deeds(p)'
<1> SUFFICES ASSUME NEW s \in Stages, NEW x \in Work(s, lab[p]), Through(p, s, x)'
             PROVE  Deed(p, s, x)'
  BY DEF Deeds, Work
<1>1. Through(p, s, x)
  BY DEF Through
<1> QED
  BY <1>1

(* The end of a stage: its loop has no element left.                       *)
LEMMA DeedsAtEndStage ==
  ASSUME BuildInv, NEW p \in Procs, EndStage(p)
  PROVE  Deeds(p)' /\ NodeDirMade(p)'
<1> DEFINE r == After[pc[p]]
<1>1. /\ pc[p] \in DOMAIN After /\ todo[p] = {} /\ lab' = lab /\ lab[p] \in Labs
      /\ UNCHANGED <<netns, conf, veth, bridge, mveth, nodeDir, cur>>
      /\ pc'[p] = r /\ todo'[p] = Work(r, lab[p])
  BY GotoHolds DEF EndStage, BuildInv, LeftInv, TypeInv, DataOK, procVars, kernel, files
<1>2. r \notin {"createns", "loopup"}
  BY <1>1 DEF After
<1>3. NodeDirMade(p)'
  BY <1>1, <1>2 DEF NodeDirMade
<1>4. CASE r \notin Building
  BY <1>1, <1>3, <1>4, NoDeeds
<1>5. CASE r \in Building
  <2>1. pc[p] \in Building
    BY <1>1, <1>5 DEF After, Building, StageNames
  <2>2. \A s \in Stages : Place[r] > Place[s] => Place[pc[p]] > Place[s] \/ Place[pc[p]] = Place[s]
    BY <1>1, <2>1 DEF After, Building, StageNames, Stages, Place
  <2>3. \A s \in Stages : Place[r] = Place[s] => r = s \/ r \in {"save"}
    BY <1>1, <2>1 DEF After, Building, StageNames, Stages, Place
  <2>4. Place["save"] \notin {Place[s] : s \in Stages}
    BY DEF Stages, StageNames, Place
  <2>5. ASSUME NEW s \in Stages, NEW x \in Work(s, lab[p]), Through(p, s, x)'
        PROVE  Deed(p, s, x)'
    <3>1. Through(p, s, x)
      BY <1>1, <2>1, <2>2, <2>3, <2>4, <2>5 DEF Through
    <3>2. Deed(p, s, x)
      BY <3>1 DEF BuildInv, Deeds
    <3> QED
      BY <1>1, <3>2 DEF Deed
  <2>6. Deeds(p)'
    BY <1>1, <2>5 DEF Deeds, Work
  <2> QED
    BY <1>3, <2>6
<1> QED
  BY <1>4, <1>5

LEMMA DeedsAtStart ==
  ASSUME BuildInv, NEW p \in Procs, Precheck(p) \/ Plan(p)
  PROVE  Deeds(p)' /\ NodeDirMade(p)'
<1>1. TypeInv
  BY DEF BuildInv, LeftInv
<1>2. CASE Precheck(p)
  <2>1. pc'[p] \in {"refused", "plan"}
    BY <1>1, <1>2, GotoHolds DEF Precheck
  <2>2. \A s \in Stages : ~(Place["plan"] > Place[s]) /\ Place["plan"] # Place[s]
    BY DEF Stages, StageNames, Place
  <2> QED
    BY <2>1, <2>2 DEF Deeds, Through, NodeDirMade, Building, StageNames
<1>3. CASE Plan(p)
  <2>1. PICK o \in {"ok", "err"} : OrRollback(p, o, "nodes", Nodes) /\ cur' = cur
    BY <1>3 DEF Plan
  <2>2. (pc'[p] = "nodes" /\ todo'[p] = Nodes) \/ pc'[p] = "tdnetem"
    BY <1>1, <2>1, RollbackHolds
  <2>3. CASE pc'[p] = "tdnetem"
    BY <2>3, NoDeeds DEF Building, StageNames
  <2>4. CASE pc'[p] = "nodes" /\ todo'[p] = Nodes
    <3>1. \A s \in Stages : ~(Place["nodes"] > Place[s]) /\ (Place["nodes"] = Place[s] => s = "nodes")
      BY DEF Stages, StageNames, Place
    <3>2. lab' = lab /\ lab[p] \in Labs
      BY <1>1, <1>3 DEF Plan, procVars, TypeInv, DataOK
    <3> QED
      BY <2>4, <3>1, <3>2, WorkIs DEF Deeds, Through, NodeDirMade, Work
  <2> QED
    BY <2>2, <2>3, <2>4
<1> QED
  BY <1>2, <1>3

(* The place of each step of a build among the stages.                     *)
LEMMA PlaceOf ==
  /\ \A s \in Stages, r \in {"nodes", "createns", "loopup"} : Place[s] = Place[r] <=> s = "nodes"
  /\ \A s \in Stages, r \in {"links"} \cup LinkSteps : Place[s] = Place[r] <=> s = "links"
  /\ \A s \in Stages, r \in {"mgmt", "mgmtmove", "mgmtconf"} : Place[s] = Place[r] <=> s = "mgmt"
  /\ \A s \in Stages, r \in {"mgmtbr"} \cup StageNames : Place[s] = Place[r] <=> s = r
  /\ \A s \in Stages : Place["write"] > Place[s] /\ Place["save"] > Place[s]
BY DEF Stages, StageNames, Place, LinkSteps

LEMMA PlaceShared ==
  /\ \A r, s \in {"nodes", "createns", "loopup"} : Place[r] = Place[s] /\ r \in Building
  /\ \A r, s \in {"links"} \cup LinkSteps : Place[r] = Place[s] /\ r \in Building
  /\ \A r, s \in {"mgmt", "mgmtmove", "mgmtconf"} : Place[r] = Place[s] /\ r \in Building
BY DEF Place, LinkSteps, Building

LEMMA DeedsOfNodes ==
  ASSUME BuildInv, NEW p \in Procs, EnsureLabDirs(p) \/ CreateNamespace(p) \/ EnsureLoopbackUp(p)
  PROVE  Deeds(p)' /\ NodeDirMade(p)'
<1>0. TypeInv /\ Deeds(p) /\ NodeDirMade(p) /\ lab[p] \in Labs /\ DataOK
  BY DEF BuildInv, LeftInv, TypeInv, DataOK
<1>1. CASE EnsureLabDirs(p)
  <2>1. PICK n \in todo[p], o \in Outcomes :
          /\ pc[p] = "nodes" /\ Take(p, n, o, "createns") /\ lab' = lab
          /\ o = "ok" => nodeDir' = [nodeDir EXCEPT ![<<lab[p], n>>] = IF @ = "none" THEN "dir" ELSE @]
          /\ UNCHANGED <<netns, conf, veth, bridge, mveth>>
    BY <1>1 DEF EnsureLabDirs, procVars, kernel, On
  <2>2. CASE o # "ok"
    BY <1>0, <2>1, <2>2, TakeMoves, NoDeeds DEF Building, StageNames
  <2>3. CASE o = "ok"
    <3>1. pc'[p] = "createns" /\ todo'[p] = todo[p] /\ cur'[p] = n
      BY <1>0, <2>1, <2>3, TakeMoves
    <3>2. <<lab[p], n>> \in LabNodes
      BY <1>0, <2>1 DEF TypeInv, LoopsOK, LoopOK, NodeLoops, LabNodes
    <3>3. nodeDir'[<<lab[p], n>>] # "none"
      BY <1>0, <2>1, <2>3, <3>2 DEF DataOK
    <3>4. \A m \in Nodes : /\ nodeDir[<<lab[p], m>>] # "none" => nodeDir'[<<lab[p], m>>] # "none"
                           /\ nodeDir[<<lab[p], m>>] = "env" => nodeDir'[<<lab[p], m>>] = "env"
      <4>1. \A y \in LabNodes : nodeDir'[y] = IF y = <<lab[p], n>>
                                             THEN IF nodeDir[y] = "none" THEN "dir" ELSE nodeDir[y]
                                             ELSE nodeDir[y]
        BY <1>0, <2>1, <2>3, <3>2 DEF DataOK
      <4>2. \A m \in Nodes : <<lab[p], m>> \in LabNodes
        BY <1>0 DEF LabNodes
      <4> QED
        BY <4>1, <4>2
    <3>5. \A s \in Stages : \A x \in Work(s, lab[p]) : Through(p, s, x) => Deed(p, s, x)'
      BY <1>0, <2>1, <3>4, WorkElements DEF Deeds, Deed, StageNames
    <3>6. Deeds(p)'
      BY <2>1, <3>1, <3>5, DeedsLast, PlaceShared
    <3>7. NodeDirMade(p)'
      BY <2>1, <3>1, <3>3 DEF NodeDirMade
    <3> QED
      BY <3>6, <3>7
  <2> QED
    BY <2>2, <2>3
<1>2. CASE CreateNamespace(p)
  <2>1. PICK o \in Outcomes :
          /\ pc[p] = "createns" /\ Take(p, cur[p], o, "loopup") /\ lab' = lab /\ nodeDir' = nodeDir
          /\ netns \subseteq netns' /\ UNCHANGED <<conf, veth, bridge, mveth>>
    BY <1>2 DEF CreateNamespace, procVars, files
  <2>2. CASE o # "ok"
    BY <1>0, <2>1, <2>2, TakeMoves, NoDeeds DEF Building, StageNames
  <2>3. CASE o = "ok"
    <3>1. pc'[p] = "loopup" /\ todo'[p] = todo[p] /\ cur'[p] = cur[p]
      BY <1>0, <2>1, <2>3, TakeMoves
    <3>2. \A s \in Stages : \A x \in Work(s, lab[p]) : Through(p, s, x) => Deed(p, s, x)'
      BY <1>0, <2>1 DEF Deeds, Deed
    <3>3. Deeds(p)'
      BY <2>1, <3>1, <3>2, DeedsLast, PlaceShared
    <3>4. NodeDirMade(p)'
      BY <1>0, <2>1, <3>1 DEF NodeDirMade
    <3> QED
      BY <3>3, <3>4
  <2> QED
    BY <2>2, <2>3
<1>3. CASE EnsureLoopbackUp(p)
  <2>1. PICK o \in {"ok", "err"} :
          /\ pc[p] = "loopup" /\ Finish(p, cur[p], o, "nodes")
          /\ o # "err" => <<lab[p], cur[p]>> \in netns
          /\ UNCHANGED <<lab, nodeDir, netns, conf, veth, bridge, mveth>>
    BY <1>3 DEF EnsureLoopbackUp, procVars, files, kernel, Attempt, Outcome, On
  <2>2. CASE o # "ok"
    BY <1>0, <2>1, <2>2, FinishMoves, NoDeeds DEF Building, StageNames
  <2>3. CASE o = "ok"
    <3>1. pc'[p] = "nodes" /\ todo'[p] = todo[p] \ {cur[p]}
      BY <1>0, <2>1, <2>3, FinishMoves
    <3>0. PICK n : n = cur[p]
      OBVIOUS
    <3>2. \A s \in Stages : \A x \in Work(s, lab[p]) :
            /\ Through(p, s, x) => Deed(p, s, x)'
            /\ Place[s] = Place[pc[p]] /\ x \in {n} => Deed(p, s, x)'
      <4>1. \A s \in Stages : Place[s] = Place[pc[p]] => s = "nodes"
        BY <2>1, PlaceOf
      <4>2. nodeDir[<<lab[p], n>>] # "none" /\ <<lab[p], n>> \in netns
        BY <1>0, <2>1, <2>3, <3>0 DEF NodeDirMade
      <4>3. Deed(p, "nodes", n)'
        BY <2>1, <4>2 DEF Deed, ConfStages, StageNames
      <4>4. \A s \in Stages : \A x \in Work(s, lab[p]) : Through(p, s, x) => Deed(p, s, x)'
        BY <1>0, <2>1 DEF Deeds, Deed
      <4> QED
        BY <4>1, <4>3, <4>4
    <3>3. Deeds(p)'
      BY <2>1, <3>0, <3>1, <3>2, DeedsKept, PlaceShared
    <3>4. NodeDirMade(p)'
      BY <3>1 DEF NodeDirMade
    <3> QED
      BY <3>3, <3>4
  <2> QED
    BY <2>2, <2>3
<1> QED
  BY <1>1, <1>2, <1>3

(* An operation takes an element on, or has done with it.                  *)
LEMMA TakenOn ==
  ASSUME BuildInv, NEW p \in Procs, lab' = lab, NEW n, NEW o, NEW r, Take(p, n, o, r),
         pc[p] \in Building, Place[r] = Place[pc[p]], r \notin {"createns", "loopup"},
         o = "ok" => \A s \in Stages : \A x \in Work(s, lab[p]) : Through(p, s, x) => Deed(p, s, x)'
  PROVE  Deeds(p)' /\ NodeDirMade(p)'
<1>1. /\ o = "ok" => pc'[p] = r /\ todo'[p] = todo[p]
      /\ o # "ok" => pc'[p] = "tdnetem"
  BY TakeMoves DEF BuildInv, LeftInv
<1>2. CASE o = "ok"
  BY <1>1, <1>2, DeedsLast DEF NodeDirMade
<1>3. CASE o # "ok"
  BY <1>1, <1>3, NoDeeds DEF Building, StageNames
<1> QED
  BY <1>2, <1>3

LEMMA DoneWith ==
  ASSUME BuildInv, NEW p \in Procs, lab' = lab, NEW n, NEW o, NEW r, Finish(p, n, o, r),
         pc[p] \in Building, Place[r] = Place[pc[p]], r \notin {"createns", "loopup"},
         o = "ok" => \A s \in Stages : \A x \in Work(s, lab[p]) :
                       /\ Through(p, s, x) => Deed(p, s, x)'
                       /\ Place[s] = Place[pc[p]] /\ x \in {n} => Deed(p, s, x)'
  PROVE  Deeds(p)' /\ NodeDirMade(p)'
<1>1. /\ o = "ok" => pc'[p] = r /\ todo'[p] = todo[p] \ {n}
      /\ o # "ok" => pc'[p] = "tdnetem"
  BY FinishMoves DEF BuildInv, LeftInv
<1>2. CASE o = "ok"
  BY <1>1, <1>2, DeedsKept DEF NodeDirMade
<1>3. CASE o # "ok"
  BY <1>1, <1>3, NoDeeds DEF Building, StageNames
<1> QED
  BY <1>2, <1>3

LEMMA DeedsOfLinks ==
  ASSUME BuildInv, NEW p \in Procs,
         CreateVethPair(p) \/ MoveEndA(p) \/ MoveEndB(p) \/ ConfigureLink(p)
  PROVE  Deeds(p)' /\ NodeDirMade(p)'
<1>0. TypeInv /\ Deeds(p) /\ lab[p] \in Labs /\ DataOK
  BY DEF BuildInv, LeftInv, TypeInv, DataOK
<1> USE DEF Attempt, Outcome
<1>1. ASSUME NEW k, NEW v, veth' = [veth EXCEPT ![<<p, k>>] = v],
             UNCHANGED <<lab, nodeDir, netns, conf, bridge, mveth>>,
             Through(p, "links", k) => veth[<<p, k>>] # "named"
      PROVE  \A s \in Stages : \A x \in Work(s, lab[p]) : Through(p, s, x) => Deed(p, s, x)'
  <2> SUFFICES ASSUME NEW s \in Stages, NEW x \in Work(s, lab[p]), Through(p, s, x)
               PROVE  Deed(p, s, x)'
    OBVIOUS
  <2>1. Deed(p, s, x)
    BY <1>0 DEF Deeds
  <2>2. s = "links" => x \in Links /\ x # k
    BY <1>0, <1>1, <2>1, WorkElements DEF Deed
  <2> QED
    BY <1>0, <1>1, <2>1, <2>2 DEF Deed, DataOK
<1>2. CASE CreateVethPair(p)
  <2>1. PICK k \in todo[p], o \in Outcomes :
          /\ pc[p] = "links" /\ Take(p, k, o, "moveA")
          /\ o = "ok" => veth' = [veth EXCEPT ![<<p, k>>] = "host"]
          /\ UNCHANGED <<lab, nodeDir, netns, conf, bridge, mveth>>
    BY <1>2 DEF CreateVethPair, procVars, files
  <2>2. ~Through(p, "links", k)
    BY <2>1 DEF Through, Place
  <2>3. "links" \in Building /\ Place["moveA"] = Place["links"]
    BY DEF Building, Place
  <2> QED
    BY <1>1, <2>1, <2>2, <2>3, TakenOn
<1>3. CASE MoveEndA(p)
  <2>1. PICK o \in Outcomes :
          /\ pc[p] = "moveA" /\ Take(p, cur[p], o, "moveB")
          /\ o = "ok" => veth[<<p, cur[p]>>] = "host" /\ veth' = [veth EXCEPT ![<<p, cur[p]>>] = "half"]
          /\ UNCHANGED <<lab, nodeDir, netns, conf, bridge, mveth>>
    BY <1>3 DEF MoveEndA, procVars, files
  <2>2. "moveA" \in Building /\ Place["moveB"] = Place["moveA"]
    BY DEF Building, Place
  <2> QED
    BY <1>1, <2>1, <2>2, TakenOn
<1>4. CASE MoveEndB(p)
  <2>1. PICK o \in Outcomes :
          /\ pc[p] = "moveB" /\ Take(p, cur[p], o, "linkconf")
          /\ o = "ok" => veth[<<p, cur[p]>>] = "half" /\ veth' = [veth EXCEPT ![<<p, cur[p]>>] = "moved"]
          /\ UNCHANGED <<lab, nodeDir, netns, conf, bridge, mveth>>
    BY <1>4 DEF MoveEndB, procVars, files
  <2>2. "moveB" \in Building /\ Place["linkconf"] = Place["moveB"]
    BY DEF Building, Place
  <2> QED
    BY <1>1, <2>1, <2>2, TakenOn
<1>5. CASE ConfigureLink(p)
  <2>0. PICK k : k = cur[p]
    OBVIOUS
  <2>1. PICK o \in Outcomes :
          /\ pc[p] = "linkconf" /\ Finish(p, k, o, "links")
          /\ o = "ok" => veth[<<p, k>>] = "moved" /\ veth' = [veth EXCEPT ![<<p, k>>] = "named"]
          /\ UNCHANGED <<lab, nodeDir, netns, conf, bridge, mveth>>
    BY <1>5, <2>0 DEF ConfigureLink, procVars, files
  <2>2. "linkconf" \in Building /\ Place["links"] = Place["linkconf"]
        /\ \A s \in Stages : Place[s] = Place["linkconf"] => s = "links"
    BY PlaceOf DEF Building, Place, LinkSteps
  <2>3. k \in Links
    BY <1>0, <2>0, <2>1 DEF TypeInv, LoopsOK, LoopOK, LinkSteps
  <2>4. o = "ok" => Deed(p, "links", k)'
    BY <1>0, <2>1, <2>3 DEF Deed, DataOK, ConfStages, StageNames
  <2>5. o = "ok" => \A s \in Stages : \A x \in Work(s, lab[p]) : Through(p, s, x) => Deed(p, s, x)'
    BY <1>1, <2>1
  <2> QED
    BY <2>1, <2>2, <2>4, <2>5, DoneWith
<1> QED
  BY <1>2, <1>3, <1>4, <1>5

LEMMA DeedsOfStages ==
  ASSUME BuildInv, NEW p \in Procs, ConfigureNode(p) \/ WriteNodeEnvFile(p) \/ CreateMgmtBridge(p)
  PROVE  Deeds(p)' /\ NodeDirMade(p)'
<1>0. TypeInv /\ Deeds(p) /\ lab[p] \in Labs /\ DataOK
  BY DEF BuildInv, LeftInv, TypeInv, DataOK
<1> USE DEF Attempt, Outcome
<1>1. CASE ConfigureNode(p)
  <2>1. PICK n \in todo[p], o \in Outcomes :
          /\ pc[p] \in ConfStages /\ Finish(p, n, o, pc[p])
          /\ o = "ok" => conf' = [conf EXCEPT ![<<lab[p], n>>] = @ \cup {pc[p]}]
          /\ UNCHANGED <<lab, nodeDir, netns, veth, bridge, mveth>>
    BY <1>1 DEF ConfigureNode, procVars, files, On
  <2>2. /\ pc[p] \in Building /\ pc[p] \notin {"createns", "loopup"}
        /\ \A s \in Stages : Place[s] = Place[pc[p]] => s = pc[p]
    BY <2>1, PlaceOf DEF Building, ConfStages, StageNames
  <2>3. <<lab[p], n>> \in LabNodes
    BY <1>0, <2>1 DEF TypeInv, LoopsOK, LoopOK, NodeLoops, ConfStages, LabNodes
  <2>4. ASSUME o = "ok"
        PROVE  /\ pc[p] \in conf'[<<lab[p], n>>]
               /\ \A y \in LabNodes : conf[y] \subseteq conf'[y]
    BY <1>0, <2>1, <2>3, <2>4 DEF DataOK
  <2>5. ASSUME o = "ok", NEW s \in Stages, NEW x \in Work(s, lab[p])
        PROVE  /\ Through(p, s, x) => Deed(p, s, x)'
               /\ Place[s] = Place[pc[p]] /\ x \in {n} => Deed(p, s, x)'
    <3>1. s \in ConfStages => <<lab[p], x>> \in LabNodes
      BY <1>0, WorkElements DEF ConfStages, LabNodes
    <3>2. Through(p, s, x) => Deed(p, s, x)'
      BY <1>0, <2>1, <2>4, <2>5, <3>1 DEF Deeds, Deed
    <3>3. Place[s] = Place[pc[p]] /\ x \in {n} => Deed(p, s, x)'
      <4>1. s = pc[p] => s \notin {"nodes", "links", "mgmtbr", "mgmt", "env"}
        BY <2>1 DEF ConfStages, StageNames
      <4> QED
        BY <2>1, <2>2, <2>4, <2>5, <4>1 DEF Deed
    <3> QED
      BY <3>2, <3>3
  <2> QED
    BY <2>1, <2>2, <2>5, DoneWith
<1>2. CASE WriteNodeEnvFile(p)
  <2>1. PICK n \in todo[p], o \in Outcomes :
          /\ pc[p] = "env" /\ Finish(p, n, o, "env")
          /\ o = "ok" => nodeDir' = [nodeDir EXCEPT ![<<lab[p], n>>] = "env"]
          /\ UNCHANGED <<lab, conf, netns, veth, bridge, mveth>>
    BY <1>2 DEF WriteNodeEnvFile, procVars, kernel, On
  <2>2. pc[p] \in Building /\ \A s \in Stages : Place[s] = Place["env"] => s = "env"
    BY <2>1, PlaceOf DEF Building, StageNames
  <2>3. <<lab[p], n>> \in LabNodes
    BY <1>0, <2>1 DEF TypeInv, LoopsOK, LoopOK, NodeLoops, StageNames, LabNodes
  <2>4. ASSUME o = "ok"
        PROVE  /\ nodeDir'[<<lab[p], n>>] = "env"
               /\ \A y \in LabNodes : nodeDir'[y] = nodeDir[y] \/ nodeDir'[y] = "env"
    BY <1>0, <2>1, <2>3, <2>4 DEF DataOK
  <2>5. ASSUME o = "ok", NEW s \in Stages, NEW x \in Work(s, lab[p])
        PROVE  /\ Through(p, s, x) => Deed(p, s, x)'
               /\ Place[s] = Place[pc[p]] /\ x \in {n} => Deed(p, s, x)'
    <3>1. s \in {"nodes", "env"} => <<lab[p], x>> \in LabNodes
      BY <1>0, WorkElements DEF StageNames, LabNodes
    <3>2. Through(p, s, x) => Deed(p, s, x)'
      BY <1>0, <2>1, <2>4, <2>5, <3>1 DEF Deeds, Deed
    <3>3. Place[s] = Place[pc[p]] /\ x \in {n} => Deed(p, s, x)'
      BY <2>1, <2>2, <2>4, <2>5 DEF Deed, ConfStages, StageNames
    <3> QED
      BY <3>2, <3>3
  <2> QED
    BY <2>1, <2>2, <2>5, DoneWith
<1>3. CASE CreateMgmtBridge(p)
  <2>1. PICK o \in Outcomes :
          /\ pc[p] = "mgmtbr" /\ Finish(p, lab[p], o, "mgmtbr")
          /\ o = "ok" => bridge' = bridge \cup {lab[p]}
          /\ UNCHANGED <<lab, conf, nodeDir, netns, veth, mveth>>
    BY <1>3 DEF CreateMgmtBridge, procVars, files
  <2>2. pc[p] \in Building /\ \A s \in Stages : Place[s] = Place["mgmtbr"] => s = "mgmtbr"
    BY <2>1, PlaceOf DEF Building
  <2>3. ASSUME o = "ok", NEW s \in Stages, NEW x \in Work(s, lab[p])
        PROVE  /\ Through(p, s, x) => Deed(p, s, x)'
               /\ Place[s] = Place[pc[p]] /\ x \in {lab[p]} => Deed(p, s, x)'
    <3>1. Through(p, s, x) => Deed(p, s, x)'
      BY <1>0, <2>1, <2>3 DEF Deeds, Deed
    <3>2. Place[s] = Place[pc[p]] /\ x \in {lab[p]} => Deed(p, s, x)'
      BY <2>1, <2>2, <2>3 DEF Deed, ConfStages, StageNames
    <3> QED
      BY <3>1, <3>2
  <2> QED
    BY <2>1, <2>2, <2>3, DoneWith
<1> QED
  BY <1>1, <1>2, <1>3

LEMMA DeedsOfMgmt ==
  ASSUME BuildInv, NEW p \in Procs, CreateMgmtPair(p) \/ MoveMgmtEnd(p) \/ ConfigureMgmtEnd(p)
  PROVE  Deeds(p)' /\ NodeDirMade(p)'
<1>0. TypeInv /\ Deeds(p) /\ lab[p] \in Labs /\ DataOK
  BY DEF BuildInv, LeftInv, TypeInv, DataOK
<1> USE DEF Attempt, Outcome
<1>1. ASSUME NEW y \in LabNodes, NEW v, mveth' = [mveth EXCEPT ![y] = v], mveth[y] # "moved",
             UNCHANGED <<lab, nodeDir, netns, conf, bridge, veth>>
      PROVE  \A s \in Stages : \A x \in Work(s, lab[p]) : Through(p, s, x) => Deed(p, s, x)'
  <2> SUFFICES ASSUME NEW s \in Stages, NEW x \in Work(s, lab[p]), Through(p, s, x)
               PROVE  Deed(p, s, x)'
    OBVIOUS
  <2>1. Deed(p, s, x)
    BY <1>0 DEF Deeds
  <2>2. s = "mgmt" => <<lab[p], x>> \in LabNodes
    BY <1>0, WorkElements DEF LabNodes
  <2> QED
    BY <1>0, <1>1, <2>1, <2>2 DEF Deed, DataOK
<1>2. CASE CreateMgmtPair(p)
  <2>1. PICK n \in todo[p], o \in Outcomes :
          /\ pc[p] = "mgmt" /\ Take(p, n, o, "mgmtmove")
          /\ o = "ok" => mveth[<<lab[p], n>>] = "none" /\ mveth' = [mveth EXCEPT ![<<lab[p], n>>] = "host"]
          /\ UNCHANGED <<lab, nodeDir, netns, conf, bridge, veth>>
    BY <1>2 DEF CreateMgmtPair, procVars, files, On
  <2>2. <<lab[p], n>> \in LabNodes
    BY <1>0, <2>1 DEF TypeInv, LoopsOK, LoopOK, NodeLoops, LabNodes
  <2>3. "mgmt" \in Building /\ Place["mgmtmove"] = Place["mgmt"]
    BY PlaceShared
  <2> QED
    BY <1>1, <2>1, <2>2, <2>3, TakenOn
<1>3. CASE MoveMgmtEnd(p)
  <2>1. PICK o \in Outcomes :
          /\ pc[p] = "mgmtmove" /\ Take(p, cur[p], o, "mgmtconf")
          /\ o = "ok" => /\ mveth[<<lab[p], cur[p]>>] = "host"
                         /\ mveth' = [mveth EXCEPT ![<<lab[p], cur[p]>>] = "moved"]
          /\ UNCHANGED <<lab, nodeDir, netns, conf, bridge, veth>>
    BY <1>3 DEF MoveMgmtEnd, procVars, files, On
  <2>2. <<lab[p], cur[p]>> \in LabNodes
    BY <1>0, <2>1, HoldsNode DEF LabNodes, NodeSteps
  <2>3. "mgmtmove" \in Building /\ Place["mgmtconf"] = Place["mgmtmove"]
    BY PlaceShared
  <2> QED
    BY <1>1, <2>1, <2>2, <2>3, TakenOn
<1>4. CASE ConfigureMgmtEnd(p)
  <2>0. PICK n : n = cur[p]
    OBVIOUS
  <2>1. PICK o \in {"ok", "err"} :
          /\ pc[p] = "mgmtconf" /\ Finish(p, n, o, "mgmt")
          /\ o = "ok" => mveth[<<lab[p], n>>] = "moved"
          /\ UNCHANGED <<lab, nodeDir, netns, conf, bridge, veth, mveth>>
    BY <1>4, <2>0 DEF ConfigureMgmtEnd, procVars, files, kernel, On
  <2>2. "mgmtconf" \in Building /\ Place["mgmt"] = Place["mgmtconf"]
        /\ \A s \in Stages : Place[s] = Place["mgmtconf"] => s = "mgmt"
    BY PlaceShared, PlaceOf
  <2>3. o = "ok" => \A s \in Stages : \A x \in Work(s, lab[p]) :
          /\ Through(p, s, x) => Deed(p, s, x)'
          /\ Place[s] = Place[pc[p]] /\ x \in {n} => Deed(p, s, x)'
    BY <1>0, <2>1, <2>2 DEF Deeds, Deed, ConfStages, StageNames
  <2> QED
    BY <2>1, <2>2, <2>3, DoneWith
<1> QED
  BY <1>2, <1>3, <1>4

LEMMA DeedsAtSave ==
  ASSUME BuildInv, NEW p \in Procs, TruncateState(p) \/ WriteState(p)
  PROVE  Deeds(p)' /\ NodeDirMade(p)'
<1>0. TypeInv /\ Deeds(p) /\ lab[p] \in Labs /\ DataOK
  BY DEF BuildInv, LeftInv, TypeInv, DataOK
<1>1. PICK o \in Outcomes :
        \/ pc[p] = "save" /\ OrRollback(p, o, "write", {})
        \/ pc[p] = "write" /\ OrRollback(p, o, "ok", {})
  BY DEF TruncateState, WriteState, Outcomes
<1>2. UNCHANGED <<lab, cur, nodeDir, netns, conf, bridge, veth, mveth>>
  BY DEF TruncateState, WriteState, procVars, kernel
<1>3. pc'[p] \in {"ok", "tdnetem"} \/ (pc[p] = "save" /\ pc'[p] = "write")
  BY <1>0, <1>1, <1>2, RollbackHolds
<1>4. CASE pc'[p] \in {"ok", "tdnetem"}
  BY <1>4, NoDeeds DEF Building, StageNames
<1>5. CASE pc[p] = "save" /\ pc'[p] = "write"
  <2>1. \A s \in Stages : \A x : Through(p, s, x)
    BY <1>5, PlaceOf DEF Through, Building
  <2>2. \A s \in Stages : \A x \in Work(s, lab[p]) : Deed(p, s, x)'
    BY <1>0, <1>2, <2>1 DEF Deeds, Deed
  <2> QED
    BY <1>2, <1>5, <2>2 DEF Deeds, NodeDirMade, Work
<1> QED
  BY <1>3, <1>4, <1>5


(* Whoever is at a stage behind its step has done the work of the stages   *)
(* before it.                                                              *)
LEMMA DeedsOfBuilder ==
  ASSUME BuildInv, NEW p \in Procs, Start(p) \/ Step(p) \/ Kill(p)
  PROVE  Deeds(p)' /\ NodeDirMade(p)'
<1>0. TypeInv
  BY DEF BuildInv, LeftInv
<1>1. CASE Start(p)
  <2>1. pc'[p] \in {"precheck", "load"}
    BY <1>0, <1>1, GotoHolds DEF Start
  <2> QED
    BY <2>1, NoDeeds DEF Building, StageNames
<1>2. CASE Kill(p)
  <2>1. pc'[p] = "killed"
    BY <1>0, <1>2, GotoMoves DEF Kill
  <2> QED
    BY <2>1, NoDeeds DEF Building, StageNames
<1>3. CASE Deploy(p)
  BY <1>3, DeedsAtStart, DeedsOfNodes, DeedsOfLinks, DeedsOfStages, DeedsOfMgmt, DeedsAtSave DEF Deploy
<1>4. CASE EndStage(p)
  BY <1>4, DeedsAtEndStage
<1>5. CASE TearDown(p)
  <2>1. CASE Load(p)
    <3>1. pc'[p] \in {"tdnetem", "refused"}
      BY <1>0, <2>1, GotoHolds DEF Load
    <3> QED
      BY <3>1, NoDeeds DEF Building, StageNames
  <2>2. CASE ClearNetem(p) \/ DeleteMgmtVeth(p) \/ DeleteNamespace(p) \/ RemoveEntry(p)
    <3>1. pc[p] \in Teardown /\ pc'[p] = pc[p]
      BY <2>2 DEF ClearNetem, DeleteMgmtVeth, DeleteNamespace, RemoveEntry, Dropped, Teardown
    <3> QED
      BY <3>1, NoDeeds DEF Building, StageNames, Teardown
  <2>3. CASE DeleteMgmtBridge(p) \/ RemoveLabDir(p)
    <3>1. pc'[p] \in {"tdbridge", "failed", "ok"}
      BY <1>0, <2>3, GotoHolds DEF DeleteMgmtBridge, RemoveLabDir
    <3> QED
      BY <3>1, NoDeeds DEF Building, StageNames
  <2> QED
    BY <1>5, <2>1, <2>2, <2>3 DEF TearDown
<1> QED
  BY <1>1, <1>2, <1>3, <1>4, <1>5 DEF Step

LEMMA BuildInvInit == Init => BuildInv
<1> SUFFICES ASSUME Init PROVE BuildInv
  OBVIOUS
<1>1. \A p \in Procs : pc[p] = "idle"
  BY DEF Init
<1> QED
  BY <1>1, LeftInvInit DEF BuildInv, Deeds, NodeDirMade, Through, Building, StageNames

LEMMA BuildInvNext == SameLab = FALSE /\ BuildInv /\ [Next]_vars => BuildInv'
<1> SUFFICES ASSUME SameLab = FALSE, BuildInv, [Next]_vars PROVE BuildInv'
  OBVIOUS
<1>1. LeftInv'
  BY LeftInvNext DEF BuildInv
<1>2. ASSUME NEW p \in Procs, Start(p) \/ Step(p) \/ Kill(p), NEW q \in Procs
      PROVE  Deeds(q)' /\ NodeDirMade(q)'
  BY <1>2, DeedsOfBuilder, DeedsOfOthers
<1>3. CASE UNCHANGED vars
  <2>1. UNCHANGED <<pc, todo, cur, lab, netns, conf, veth, bridge, mveth, nodeDir>>
    BY <1>3 DEF vars, procVars, kernel, files
  <2>2. ASSUME NEW q \in Procs PROVE Deeds(q)' /\ NodeDirMade(q)'
    BY <2>1 DEF BuildInv, Deeds, NodeDirMade, Through, Deed, Work
  <2> QED
    BY <1>1, <2>2 DEF BuildInv
<1> QED
  BY <1>1, <1>2, <1>3 DEF Next, BuildInv

(* When the state file is written, nothing is missing.                     *)
LEMMA WrittenWhenBuilt ==
  ASSUME BuildInv, NEW p \in Procs, pc[p] = "write"
  PROVE  Built(lab[p])
<1>0. Deeds(p) /\ ProcInv(p) /\ lab[p] \in Labs
  BY DEF BuildInv, LeftInv, TypeInv, DataOK
<1>1. \A s \in Stages : \A x \in Work(s, lab[p]) : Deed(p, s, x)
  BY <1>0, PlaceOf DEF Deeds, Through, Building
<1>2. lab[p] \in labDir
  BY <1>0 DEF ProcInv, DirsMade, HasDirs, PastDirs, Building
<1>3. ASSUME NEW n \in Nodes PROVE <<lab[p], n>> \in netns /\ nodeDir[<<lab[p], n>>] # "none"
  <2>1. Deed(p, "nodes", n)
    BY <1>0, <1>1, WorkIs DEF Stages
  <2> QED
    BY <2>1 DEF Deed
<1>4. ASSUME NEW s \in StageNames, NEW n \in StageNodes[s]
      PROVE  /\ s \in ConfStages => s \in conf[<<lab[p], n>>]
             /\ s = "env" => nodeDir[<<lab[p], n>>] = "env"
  <2>1. Deed(p, s, n)
    BY <1>0, <1>1, WorkIs DEF Stages
  <2> QED
    BY <2>1 DEF Deed
<1>5. ASSUME NEW k \in Links PROVE veth[<<p, k>>] = "named"
  <2>1. Deed(p, "links", k)
    BY <1>0, <1>1, WorkIs DEF Stages
  <2> QED
    BY <2>1 DEF Deed
<1>6. ASSUME MgmtEnabled PROVE lab[p] \in bridge /\ \A n \in Nodes : mveth[<<lab[p], n>>] = "moved"
  <2>1. Deed(p, "mgmtbr", lab[p]) /\ \A n \in Nodes : Deed(p, "mgmt", n)
    BY <1>0, <1>1, <1>6, WorkIs DEF Stages
  <2> QED
    BY <2>1 DEF Deed
<1> QED
  BY <1>2, <1>3, <1>4, <1>5, <1>6 DEF Built, ConfStages, StageNames

LEMMA OnlyWriteCompletes ==
  ASSUME TypeInv, NEW p \in Procs, Start(p) \/ Step(p) \/ Kill(p),
         NEW l \in Labs, stateFile[l] # "ok", stateFile'[l] = "ok"
  PROVE  l = lab[p] /\ WriteState(p)
<1>0. stateFile \in [Labs -> {"none", "partial", "ok"}] /\ lab[p] \in Labs
  BY DEF TypeInv, DataOK
<1>1. CASE WriteState(p)
  BY <1>0, <1>1 DEF WriteState
<1>2. CASE TruncateState(p) \/ RemoveEntry(p)
  BY <1>0, <1>2 DEF TruncateState, RemoveEntry, files
<1>3. CASE UNCHANGED stateFile
  BY <1>3
<1>4. WriteState(p) \/ TruncateState(p) \/ RemoveEntry(p) \/ UNCHANGED stateFile
  BY DEF files, Start, Kill, Step, Deploy, TearDown, EndStage, Precheck, Plan, EnsureLabDirs, CreateNamespace,
     EnsureLoopbackUp, CreateVethPair, MoveEndA, MoveEndB, ConfigureLink, ConfigureNode, WriteNodeEnvFile,
     CreateMgmtBridge, CreateMgmtPair, MoveMgmtEnd, ConfigureMgmtEnd, Load, ClearNetem, DeleteMgmtVeth,
     DeleteMgmtBridge, DeleteNamespace, RemoveLabDir
<1> QED
  BY <1>1, <1>2, <1>3, <1>4

(* While the commands on one lab do not overlap: whatever is killed, fails *)
(* or is late, and whatever an earlier command left, lab-state.json is     *)
(* only completed when the run directory, every namespace with all of its  *)
(* configuration, every link and the management network of the lab exist.  *)
THEOREM StateFileIsTrue ==
  ASSUME SameLab = FALSE
  PROVE  Spec => SavedOnlyWhenBuilt
<1>1. BuildInv /\ [Next]_vars => BuildInv'
  BY BuildInvNext
<1>2. BuildInv /\ [Next]_vars
      => [\A l \in Labs : stateFile[l] # "ok" /\ stateFile'[l] = "ok" => Built(l)]_vars
  <2> SUFFICES ASSUME BuildInv, [Next]_vars, NEW l \in Labs, stateFile[l] # "ok", stateFile'[l] = "ok"
               PROVE  Built(l)
    OBVIOUS
  <2>1. CASE UNCHANGED vars
    BY <2>1 DEF vars, files
  <2>2. ASSUME NEW p \in Procs, Start(p) \/ Step(p) \/ Kill(p) PROVE Built(l)
    <3>1. l = lab[p] /\ WriteState(p)
      BY <2>2, OnlyWriteCompletes DEF BuildInv, LeftInv
    <3> QED
      BY <3>1, WrittenWhenBuilt DEF WriteState
  <2> QED
    BY <2>1, <2>2 DEF Next
<1> QED
  BY <1>1, <1>2, BuildInvInit, PTL DEF Spec, SavedOnlyWhenBuilt

-----------------------------------------------------------------------------
(* Deploy and destroy implement LabRegistry.                               *)

(* Only a deploy builds.                                                   *)
CommandOK(p) ==
  /\ pc[p] \in Building \cup {"precheck"} => cmd[p] = "deploy"
  /\ pc[p] = "load" => cmd[p] = "destroy"

(* There is no file without the run directory.                             *)
Filed(l) == l \notin labDir => stateFile[l] = "none" /\ \A n \in Nodes : nodeDir[<<l, n>>] = "none"

(* An end of a pair is in a namespace that exists.                         *)
Housed(y) ==
  /\ veth[y] \in {"half", "moved", "named"} => <<lab[y[1]], Ends[y[2]][1]>> \in netns
  /\ veth[y] \in {"moved", "named"} => <<lab[y[1]], Ends[y[2]][2]>> \in netns

(* The state file is written after it was created.                         *)
Saving(p) == pc[p] = "write" => stateFile[lab[p]] # "none"

(* Where a teardown has been among the files.                              *)
FileSwept(p, e) == pc[p] = "tddir" \/ (pc[p] = "tdfiles" /\ e \notin todo[p])

FilesSwept(p) == lab[p] \notin spoilt =>
  /\ FileSwept(p, StateName) => stateFile[lab[p]] = "none"
  /\ \A n \in Nodes : FileSwept(p, n) => nodeDir[<<lab[p], n>>] = "none"

(* A destroy finds the bridge that the deploy of the lab has made.         *)
BridgeKept(p) ==
  /\ ~Damaged(lab[p]) /\ MgmtEnabled /\ cmd[p] = "destroy"
  /\ pc[p] \in {"tdnetem", "tdmgmt"} \/ (pc[p] = "tdbridge" /\ todo[p] # {})
  => lab[p] \in bridge

(* A lab on which no command works is deployed or gone.                    *)
Settled(l) == ~Damaged(l) /\ ~Busy(l) =>
  IF stateFile[l] = "ok" THEN Built(l)
  ELSE l \notin labDir /\ ~Exists(l) /\ Pairs(l) = {}

OwnInv(p) == CommandOK(p) /\ Saving(p) /\ FilesSwept(p) /\ BridgeKept(p)

RegInv ==
  /\ BuildInv
  /\ \A p \in Procs : OwnInv(p)
  /\ \A l \in Labs : Filed(l) /\ Settled(l)
  /\ \A y \in Procs \X Links : Housed(y)

(* A lab as a step of a process leaves it alone.                           *)
SameObjects(l) ==
  /\ lab' = lab
  /\ l \in labDir' <=> l \in labDir
  /\ l \in bridge' <=> l \in bridge
  /\ stateFile'[l] = stateFile[l]
  /\ \A n \in Nodes : /\ <<l, n>> \in netns' <=> <<l, n>> \in netns
                      /\ mveth'[<<l, n>>] = mveth[<<l, n>>]
                      /\ conf'[<<l, n>>] = conf[<<l, n>>]
                      /\ nodeDir'[<<l, n>>] = nodeDir[<<l, n>>]
  /\ \A q \in Procs, k \in Links : lab[q] = l => veth'[<<q, k>>] = veth[<<q, k>>]

SameProcs(l) ==
  /\ lab' = lab /\ cmd' = cmd
  /\ l \in spoilt' <=> l \in spoilt
  /\ \A q \in Procs : lab[q] = l =>
       pc'[q] = pc[q] \/ (pc'[q] \notin Working \cup {"killed"} /\ pc[q] \notin Working \cup {"killed"})

LEMMA SameObjectsMean ==
  ASSUME NEW l \in Labs, SameObjects(l)
  PROVE  /\ Built(l)' <=> Built(l)
         /\ Exists(l)' <=> Exists(l)
         /\ Pairs(l)' = Pairs(l)
         /\ Filed(l)' <=> Filed(l)
         /\ ExtentOf(l)' = ExtentOf(l)
<1>1. Built(l)' <=> Built(l)
  <2>1. (\A k \in Links : \E p \in Procs : lab[p] = l /\ veth[<<p, k>>] = "named")'
        <=> (\A k \in Links : \E p \in Procs : lab[p] = l /\ veth[<<p, k>>] = "named")
    BY DEF SameObjects
  <2>2. (\A n \in Nodes :
           /\ <<l, n>> \in netns
           /\ \A s \in ConfStages : n \in StageNodes[s] => s \in conf[<<l, n>>]
           /\ nodeDir[<<l, n>>] # "none" /\ (n \in StageNodes["env"] => nodeDir[<<l, n>>] = "env"))'
        <=> (\A n \in Nodes :
           /\ <<l, n>> \in netns
           /\ \A s \in ConfStages : n \in StageNodes[s] => s \in conf[<<l, n>>]
           /\ nodeDir[<<l, n>>] # "none" /\ (n \in StageNodes["env"] => nodeDir[<<l, n>>] = "env"))
    BY DEF SameObjects
  <2> QED
    BY <2>1, <2>2 DEF SameObjects, Built
<1>2. Exists(l)' <=> Exists(l)
  BY DEF SameObjects, Exists
<1>3. Pairs(l)' = Pairs(l)
  BY DEF SameObjects, Pairs
<1>4. Filed(l)' <=> Filed(l)
  BY DEF SameObjects, Filed
<1> QED
  BY <1>1, <1>2, <1>3, <1>4 DEF ExtentOf, SameObjects

LEMMA SameProcsMean ==
  ASSUME NEW l \in Labs, SameProcs(l)
  PROVE  /\ Busy(l)' <=> Busy(l)
         /\ Damaged(l)' <=> Damaged(l)
         /\ stateFile'[l] = stateFile[l] => StatusOf(l)' = StatusOf(l)
<1>1. Busy(l)' <=> Busy(l)
  BY DEF SameProcs, Busy
<1>2. Damaged(l)' <=> Damaged(l)
  BY DEF SameProcs, Damaged
<1>3. (\E p \in Procs : lab[p] = l /\ pc[p] \in Working /\ cmd[p] = "deploy")'
      <=> (\E p \in Procs : lab[p] = l /\ pc[p] \in Working /\ cmd[p] = "deploy")
  BY DEF SameProcs
<1> QED
  BY <1>1, <1>2, <1>3 DEF StatusOf

LEMMA OtherLabStays ==
  ASSUME LeftInv, NEW p \in Procs, Start(p) \/ Step(p) \/ Kill(p), NEW l \in Labs \ {lab[p]}
  PROVE  SameObjects(l) /\ SameProcs(l)
<1>1. Elsewhere(p) /\ lab \in [Procs -> Labs]
  BY StepElsewhere DEF LeftInv, TypeInv, DataOK
<1>2. lab' = lab /\ cmd' = cmd
  BY <1>1 DEF Elsewhere, procVars
<1>3. SameObjects(l)
  BY <1>1, <1>2 DEF Elsewhere, OtherLabs, OtherPairs, SameObjects
<1>4. SameProcs(l)
  BY <1>1, <1>2 DEF Elsewhere, OtherLabs, OtherProcs, SameProcs
<1> QED
  BY <1>3, <1>4

-----------------------------------------------------------------------------
(* How a command goes on.                                                  *)

Flow(p) ==
  \/ Start(p) /\ pc[p] = "idle" /\ pc'[p] = IF cmd[p] = "deploy" THEN "precheck" ELSE "load"
  \/ Precheck(p) /\ pc[p] = "precheck" /\ pc'[p] = IF lab[p] \in labDir THEN "refused" ELSE "plan"
  \/ Load(p) /\ pc[p] = "load" /\ pc'[p] = IF stateFile[lab[p]] = "ok" THEN "tdnetem" ELSE "refused"
  \/ Kill(p) /\ pc[p] \in Active /\ pc'[p] = "killed"
  \/ TruncateState(p) /\ pc[p] = "save" /\ pc'[p] \in {"write", "tdnetem"}
  \/ WriteState(p) /\ pc[p] = "write" /\ pc'[p] \in {"ok", "tdnetem"}
  \/ DeleteMgmtBridge(p) /\ pc[p] = "tdbridge" /\ pc'[p] \in {"failed", "tdbridge"}
  \/ RemoveLabDir(p) /\ pc[p] = "tddir" /\ pc'[p] \in {"ok", "failed"}
  \/ pc[p] \in Building \ {"save", "write"} /\ pc'[p] \in (Building \ {"write"}) \cup {"tdnetem"}
  \/ pc[p] \in Teardown /\ pc'[p] \in Teardown

LEMMA StepFlows ==
  ASSUME TypeInv, NEW p \in Procs, Start(p) \/ Step(p) \/ Kill(p)
  PROVE  Flow(p)
<1>1. CASE Start(p) \/ Precheck(p) \/ Load(p)
  BY <1>1, GotoHolds DEF Flow, Start, Precheck, Load
<1>2. CASE Kill(p)
  BY <1>2, GotoMoves DEF Flow, Kill
<1>3. CASE Plan(p)
  <2>1. PICK o \in {"ok", "err"} : pc[p] = "plan" /\ OrRollback(p, o, "nodes", Nodes) /\ cur' = cur
    BY <1>3 DEF Plan
  <2>2. pc'[p] \in {"nodes", "tdnetem"}
    BY <2>1, RollbackHolds
  <2> QED
    BY <2>1, <2>2 DEF Flow, Building
<1>4. CASE \/ EnsureLabDirs(p) \/ CreateNamespace(p) \/ CreateVethPair(p) \/ MoveEndA(p) \/ MoveEndB(p)
           \/ CreateMgmtPair(p) \/ MoveMgmtEnd(p)
  <2>1. PICK x, o, s :
          /\ s \in {"createns", "loopup", "moveA", "moveB", "linkconf", "mgmtmove", "mgmtconf"}
          /\ pc[p] \in {"nodes", "createns", "links", "moveA", "moveB", "mgmt", "mgmtmove"}
          /\ Take(p, x, o, s)
    BY <1>4 DEF EnsureLabDirs, CreateNamespace, CreateVethPair, MoveEndA, MoveEndB, CreateMgmtPair, MoveMgmtEnd
  <2>2. pc'[p] \in {s, "tdnetem"}
    BY <2>1, TakeMoves
  <2> QED
    BY <2>1, <2>2 DEF Flow, Building
<1>5. CASE \/ EnsureLoopbackUp(p) \/ ConfigureLink(p) \/ ConfigureNode(p) \/ CreateMgmtBridge(p)
           \/ ConfigureMgmtEnd(p) \/ WriteNodeEnvFile(p)
  <2>1. PICK x, o, s :
          /\ s \in {"nodes", "links", "mgmtbr", "mgmt", "env"} \cup ConfStages
          /\ pc[p] \in {"loopup", "linkconf", "mgmtbr", "mgmtconf", "env"} \cup ConfStages
          /\ Finish(p, x, o, s)
    BY <1>5 DEF EnsureLoopbackUp, ConfigureLink, ConfigureNode, CreateMgmtBridge, ConfigureMgmtEnd, WriteNodeEnvFile
  <2>2. pc'[p] \in {s, "tdnetem"}
    BY <2>1, FinishMoves
  <2> QED
    BY <2>1, <2>2 DEF Flow, Building, ConfStages, StageNames
<1>6. CASE TruncateState(p) \/ WriteState(p)
  <2>1. PICK o : \/ pc[p] = "save" /\ TruncateState(p) /\ OrRollback(p, o, "write", {})
                 \/ pc[p] = "write" /\ WriteState(p) /\ OrRollback(p, o, "ok", {})
    BY <1>6 DEF TruncateState, WriteState
  <2>2. cur' = cur
    BY <1>6 DEF TruncateState, WriteState
  <2> QED
    BY <2>1, <2>2, RollbackHolds DEF Flow
<1>7. CASE ClearNetem(p) \/ DeleteMgmtVeth(p) \/ DeleteNamespace(p) \/ RemoveEntry(p)
  <2>1. pc[p] \in Teardown /\ pc'[p] = pc[p]
    BY <1>7 DEF ClearNetem, DeleteMgmtVeth, DeleteNamespace, RemoveEntry, Dropped, Teardown
  <2> QED
    BY <2>1 DEF Flow
<1>8. CASE DeleteMgmtBridge(p) \/ RemoveLabDir(p)
  <2>1. cur' = cur /\ \E s \in {"failed", "tdbridge", "ok"} :
          /\ Goto(p, s, {})
          /\ DeleteMgmtBridge(p) => pc[p] = "tdbridge" /\ s \in {"failed", "tdbridge"}
          /\ RemoveLabDir(p) => pc[p] = "tddir" /\ s \in {"failed", "ok"}
    BY <1>8 DEF DeleteMgmtBridge, RemoveLabDir
  <2> QED
    BY <1>8, <2>1, GotoHolds DEF Flow
<1>9. CASE EndStage(p)
  <2>1. pc[p] \in DOMAIN After /\ pc'[p] = After[pc[p]]
    BY <1>9, GotoHolds DEF EndStage
  <2>2. \/ pc[p] \in Building \ {"save", "write"} /\ After[pc[p]] \in Building \ {"write"}
        \/ pc[p] \in Teardown /\ After[pc[p]] \in Teardown
    BY <2>1 DEF After, Building, Teardown, StageNames
  <2> QED
    BY <2>1, <2>2 DEF Flow
<1> QED
  BY <1>1, <1>2, <1>3, <1>4, <1>5, <1>6, <1>7, <1>8, <1>9 DEF Step, Deploy, TearDown

LEMMA SpoiltGrows ==
  ASSUME NEW p \in Procs, Start(p) \/ Step(p) \/ Kill(p)
  PROVE  spoilt' = spoilt \/ spoilt' = spoilt \cup {lab[p]}
<1>1. CASE Start(p) \/ Kill(p) \/ Deploy(p) \/ EndStage(p) \/ Load(p)
  BY <1>1 DEF history, Attempt, Start, Kill, EndStage, Load, Deploy, Precheck, Plan, EnsureLabDirs, CreateNamespace,
     EnsureLoopbackUp, CreateVethPair, MoveEndA, MoveEndB, ConfigureLink, ConfigureNode, WriteNodeEnvFile,
     CreateMgmtBridge, CreateMgmtPair, MoveMgmtEnd, ConfigureMgmtEnd, TruncateState, WriteState
<1>2. CASE TearDown(p) /\ ~Load(p)
  BY <1>2 DEF Remove, TearDown, ClearNetem, DeleteMgmtVeth, DeleteMgmtBridge, DeleteNamespace, RemoveEntry, RemoveLabDir
<1> QED
  BY <1>1, <1>2 DEF Step

LEMMA DamageStays ==
  ASSUME TypeInv, NEW p \in Procs, Start(p) \/ Step(p) \/ Kill(p), NEW l \in Labs, Damaged(l)
  PROVE  Damaged(l)'
<1>1. lab' = lab /\ \A q \in Procs \ {p} : pc'[q] = pc[q]
  BY StepElsewhere DEF Elsewhere, OtherProcs, procVars
<1>2. pc[p] # "killed"
  BY StepIsActive DEF Start, Active, Working, Building, Teardown, StageNames
<1>3. spoilt \subseteq spoilt'
  BY SpoiltGrows
<1> QED
  BY <1>1, <1>2, <1>3 DEF Damaged

-----------------------------------------------------------------------------
(* What a process keeps of its own lab.                                    *)

LEMMA CommandKept ==
  ASSUME RegInv, NEW p \in Procs, Flow(p), cmd' = cmd
  PROVE  CommandOK(p)'
<1>1. CommandOK(p) /\ cmd[p] \in {"deploy", "destroy"}
  BY DEF RegInv, OwnInv, BuildInv, LeftInv, TypeInv, DataOK
<1> QED
  BY <1>1 DEF Flow, CommandOK, Active, Working, Building, Teardown, StageNames

LEMMA SavingKept ==
  ASSUME RegInv, NEW p \in Procs, Flow(p), lab' = lab
  PROVE  Saving(p)'
<1>1. TypeInv /\ stateFile \in [Labs -> {"none", "partial", "ok"}] /\ lab[p] \in Labs
  BY DEF RegInv, BuildInv, LeftInv, TypeInv, DataOK
<1> SUFFICES ASSUME pc'[p] = "write" PROVE stateFile'[lab[p]] # "none"
  BY DEF Saving
<1>2. TruncateState(p)
  BY DEF Flow, Building, Teardown, StageNames
<1>3. PICK o \in {"ok", "err"} :
        /\ OrRollback(p, o, "write", {}) /\ cur' = cur
        /\ stateFile' = IF o = "err" THEN stateFile ELSE [stateFile EXCEPT ![lab[p]] = "partial"]
  BY <1>2 DEF TruncateState
<1>4. o = "ok"
  BY <1>1, <1>3, RollbackHolds
<1> QED
  BY <1>1, <1>3, <1>4

(* The steps on the two last stages of a teardown.                         *)
LEMMA AtTheFiles ==
  ASSUME TypeInv, NEW p \in Procs, Start(p) \/ Step(p) \/ Kill(p), pc'[p] \in {"tdfiles", "tddir"}
  PROVE  EndStage(p) \/ RemoveEntry(p)
<1>1. Flow(p)
  BY StepFlows
<1>2. pc[p] \in Teardown
  BY <1>1 DEF Flow, Building, Teardown, StageNames
<1>3. CASE EndStage(p) \/ RemoveEntry(p)
  BY <1>3
<1>4. CASE ClearNetem(p) \/ DeleteMgmtVeth(p) \/ DeleteNamespace(p)
  BY <1>4 DEF ClearNetem, DeleteMgmtVeth, DeleteNamespace, Dropped
<1>5. CASE DeleteMgmtBridge(p) \/ RemoveLabDir(p)
  BY <1>5, GotoHolds DEF DeleteMgmtBridge, RemoveLabDir
<1>6. ~(Start(p) \/ Kill(p) \/ Deploy(p) \/ Load(p))
  <2>1. ~Start(p) /\ ~Load(p)
    BY <1>2 DEF Start, Load, Teardown
  <2>2. ~Kill(p)
    BY GotoMoves DEF Kill
  <2>3. ~Deploy(p)
    BY <1>2 DEF Teardown, Deploy, Precheck, Plan, EnsureLabDirs, CreateNamespace,
     EnsureLoopbackUp, CreateVethPair, MoveEndA, MoveEndB, ConfigureLink, ConfigureNode, ConfStages, StageNames,
     WriteNodeEnvFile, CreateMgmtBridge, CreateMgmtPair, MoveMgmtEnd, ConfigureMgmtEnd, TruncateState, WriteState
  <2> QED
    BY <2>1, <2>2, <2>3
<1> QED
  BY <1>3, <1>4, <1>5, <1>6 DEF Step, TearDown

LEMMA FilesSweptKept ==
  ASSUME RegInv, NEW p \in Procs, Start(p) \/ Step(p) \/ Kill(p)
  PROVE  FilesSwept(p)'
<1>0. /\ TypeInv /\ FilesSwept(p) /\ lab[p] \in Labs /\ lab' = lab
      /\ stateFile \in [Labs -> {"none", "partial", "ok"}]
      /\ nodeDir \in [LabNodes -> {"none", "dir", "env"}]
  BY StepElsewhere DEF RegInv, OwnInv, BuildInv, LeftInv, TypeInv, DataOK, Elsewhere, procVars
<1>1. CASE pc'[p] \notin {"tdfiles", "tddir"}
  BY <1>1 DEF FilesSwept, FileSwept
<1>2. CASE EndStage(p)
  <2>1. /\ todo[p] = {} /\ UNCHANGED <<stateFile, nodeDir, spoilt>>
        /\ pc[p] \in DOMAIN After /\ pc'[p] = After[pc[p]] /\ todo'[p] = Work(After[pc[p]], lab[p])
    BY <1>0, <1>2, GotoHolds DEF EndStage, files, history
  <2>2. CASE pc'[p] = "tddir"
    <3>1. pc[p] = "tdfiles"
      BY <2>1, <2>2 DEF After
    <3> QED
      BY <1>0, <2>1, <3>1 DEF FilesSwept, FileSwept
  <2>3. CASE pc'[p] = "tdfiles"
    <3>1. todo'[p] = Nodes \cup {StateName}
      BY <2>1, <2>3 DEF After, Work, StageNames
    <3> QED
      BY <2>3, <3>1 DEF FilesSwept, FileSwept
  <2> QED
    BY <2>2, <2>3 DEF FilesSwept, FileSwept
<1>3. CASE RemoveEntry(p)
  <2>1. PICK e \in todo[p], o \in {"ok", "err"} :
          /\ pc[p] = "tdfiles" /\ Remove(p, TRUE, o) /\ Dropped(p, e)
          /\ IF o = "err" THEN UNCHANGED files
             ELSE /\ stateFile' = IF e = StateName THEN [stateFile EXCEPT ![lab[p]] = "none"] ELSE stateFile
                  /\ nodeDir' = IF e \in Nodes THEN [nodeDir EXCEPT ![On(p, e)] = "none"] ELSE nodeDir
    BY <1>3 DEF RemoveEntry
  <2>2. pc' = pc /\ todo'[p] = todo[p] \ {e}
    BY <1>0, <2>1, DroppedMoves
  <2> SUFFICES ASSUME lab[p] \notin spoilt'
               PROVE  /\ FileSwept(p, StateName)' => stateFile'[lab[p]] = "none"
                      /\ \A n \in Nodes : FileSwept(p, n)' => nodeDir'[<<lab[p], n>>] = "none"
    BY <1>0 DEF FilesSwept
  <2>3. o = "ok" /\ lab[p] \notin spoilt
    BY <1>0, <2>1, RemoveSpoils DEF Outcomes
  <2>4. FileSwept(p, StateName)' => stateFile'[lab[p]] = "none"
    BY <1>0, <2>1, <2>2, <2>3 DEF FilesSwept, FileSwept
  <2>5. ASSUME NEW n \in Nodes, FileSwept(p, n)' PROVE nodeDir'[<<lab[p], n>>] = "none"
    <3>1. <<lab[p], n>> \in LabNodes
      BY <1>0 DEF LabNodes
    <3>2. CASE n = e
      BY <1>0, <2>1, <2>3, <3>1, <3>2 DEF On
    <3>3. CASE n # e
      <4>1. nodeDir[<<lab[p], n>>] = "none"
        BY <1>0, <2>1, <2>2, <2>3, <2>5, <3>3 DEF FilesSwept, FileSwept
      <4> QED
        BY <1>0, <2>1, <2>3, <3>1, <4>1 DEF On
    <3> QED
      BY <3>2, <3>3
  <2> QED
    BY <2>4, <2>5
<1> QED
  BY <1>0, <1>1, <1>2, <1>3, AtTheFiles

(* The operations that touch files, namespaces and pairs, or the bridge.   *)
LEMMA FilesTouched ==
  ASSUME NEW p \in Procs, Start(p) \/ Step(p) \/ Kill(p)
  PROVE  \/ UNCHANGED files
         \/ EnsureLabDirs(p) \/ WriteNodeEnvFile(p) \/ TruncateState(p) \/ WriteState(p)
         \/ RemoveEntry(p) \/ RemoveLabDir(p)
BY DEF Start, Kill, Step, Deploy, TearDown, EndStage, Precheck, Plan, CreateNamespace,
   EnsureLoopbackUp, CreateVethPair, MoveEndA, MoveEndB, ConfigureLink, ConfigureNode,
   CreateMgmtBridge, CreateMgmtPair, MoveMgmtEnd, ConfigureMgmtEnd, Load, ClearNetem, DeleteMgmtVeth,
   DeleteMgmtBridge, DeleteNamespace

LEMMA PairsTouched ==
  ASSUME NEW p \in Procs, Start(p) \/ Step(p) \/ Kill(p)
  PROVE  \/ UNCHANGED <<netns, veth>>
         \/ CreateNamespace(p) \/ CreateVethPair(p) \/ MoveEndA(p) \/ MoveEndB(p) \/ ConfigureLink(p)
         \/ DeleteNamespace(p)
BY DEF kernel, Start, Kill, Step, Deploy, TearDown, EndStage, Precheck, Plan, EnsureLabDirs,
   EnsureLoopbackUp, ConfigureNode, WriteNodeEnvFile, CreateMgmtBridge, CreateMgmtPair, MoveMgmtEnd,
   ConfigureMgmtEnd, TruncateState, WriteState, Load, ClearNetem, DeleteMgmtVeth, DeleteMgmtBridge,
   RemoveEntry, RemoveLabDir

LEMMA BridgeTouched ==
  ASSUME NEW p \in Procs, Start(p) \/ Step(p) \/ Kill(p)
  PROVE  UNCHANGED bridge \/ CreateMgmtBridge(p) \/ DeleteMgmtBridge(p)
BY DEF kernel, Start, Kill, Step, Deploy, TearDown, EndStage, Precheck, Plan, EnsureLabDirs, CreateNamespace,
   EnsureLoopbackUp, CreateVethPair, MoveEndA, MoveEndB, ConfigureLink, ConfigureNode, WriteNodeEnvFile,
   CreateMgmtPair, MoveMgmtEnd, ConfigureMgmtEnd, TruncateState, WriteState, Load, ClearNetem, DeleteMgmtVeth,
   DeleteNamespace, RemoveEntry, RemoveLabDir

LEMMA FiledKept ==
  ASSUME RegInv, NEW p \in Procs, Start(p) \/ Step(p) \/ Kill(p)
  PROVE  Filed(lab[p])'
<1>0. /\ TypeInv /\ Filed(lab[p]) /\ lab[p] \in Labs /\ lab' = lab /\ DirsMade(p)
      /\ stateFile \in [Labs -> {"none", "partial", "ok"}]
      /\ nodeDir \in [LabNodes -> {"none", "dir", "env"}]
      /\ todo[p] \in SUBSET (Nodes \cup Links \cup Labs \cup {StateName})
  BY TypeInvType, StepElsewhere DEF RegInv, BuildInv, LeftInv, ProcInv, TypeInv, DataOK, TypeOK, Elsewhere, procVars
<1>1. CASE UNCHANGED files
  BY <1>0, <1>1 DEF files, Filed
<1>2. CASE EnsureLabDirs(p)
  <2>1. UNCHANGED files \/ lab[p] \in labDir'
    BY <1>2 DEF EnsureLabDirs
  <2> QED
    BY <1>0, <1>1, <2>1 DEF Filed
<1>3. CASE WriteNodeEnvFile(p) \/ TruncateState(p) \/ WriteState(p)
  <2>1. pc[p] \in PastDirs /\ labDir' = labDir
    BY <1>3 DEF WriteNodeEnvFile, TruncateState, WriteState, PastDirs, Building, StageNames
  <2> QED
    BY <1>0, <2>1 DEF Filed, DirsMade, HasDirs
<1>4. CASE RemoveEntry(p)
  <2>1. PICK e \in todo[p] :
          \/ UNCHANGED files
          \/ /\ stateFile' = IF e = StateName THEN [stateFile EXCEPT ![lab[p]] = "none"] ELSE stateFile
             /\ nodeDir' = IF e \in Nodes THEN [nodeDir EXCEPT ![On(p, e)] = "none"] ELSE nodeDir
             /\ labDir' = labDir
    BY <1>4 DEF RemoveEntry
  <2>2. stateFile'[lab[p]] \in {"none", stateFile[lab[p]]} /\ labDir' = labDir
    BY <1>0, <2>1 DEF files
  <2>3. ASSUME NEW n \in Nodes PROVE nodeDir'[<<lab[p], n>>] \in {"none", nodeDir[<<lab[p], n>>]}
    BY <1>0, <2>1 DEF files, LabNodes, On
  <2> QED
    BY <1>0, <2>2, <2>3 DEF Filed
<1>5. CASE RemoveLabDir(p)
  <2>1. PICK o \in {"ok", "err"} :
          /\ Remove(p, /\ lab[p] \in labDir /\ stateFile[lab[p]] = "none"
                       /\ (\A n \in Nodes : nodeDir[On(p, n)] = "none"), o)
          /\ labDir' = IF o = "err" THEN labDir ELSE labDir \ {lab[p]}
          /\ UNCHANGED <<nodeDir, stateFile>>
    BY <1>5 DEF RemoveLabDir
  <2>2. o = "ok" => stateFile[lab[p]] = "none" /\ \A n \in Nodes : nodeDir[On(p, n)] = "none"
    BY <2>1 DEF Remove, Outcome
  <2> QED
    BY <1>0, <2>1, <2>2 DEF Filed, On
<1> QED
  BY <1>1, <1>2, <1>3, <1>4, <1>5, FilesTouched

LEMMA HousedKept ==
  ASSUME RegInv, NEW p \in Procs, Start(p) \/ Step(p) \/ Kill(p), NEW y \in Procs \X Links
  PROVE  Housed(y)'
<1>0. /\ TypeInv /\ Housed(y) /\ lab[p] \in Labs /\ lab' = lab /\ lab \in [Procs -> Labs]
      /\ veth \in [Procs \X Links -> {"none", "host", "half", "moved", "named"}]
      /\ y[1] \in Procs /\ y[2] \in Links /\ y = <<y[1], y[2]>>
  BY StepElsewhere DEF RegInv, BuildInv, LeftInv, TypeInv, DataOK, Elsewhere, procVars
<1>1. CASE UNCHANGED <<netns, veth>>
  BY <1>0, <1>1 DEF Housed
<1>2. CASE CreateNamespace(p)
  <2>1. netns \subseteq netns' /\ veth' = veth
    BY <1>2 DEF CreateNamespace
  <2> QED
    BY <1>0, <2>1 DEF Housed
<1>3. CASE CreateVethPair(p)
  <2>1. PICK k \in todo[p] : veth' = veth \/ veth' = [veth EXCEPT ![<<p, k>>] = "host"]
    BY <1>3 DEF CreateVethPair
  <2>2. veth'[y] \in {veth[y], "host"} /\ netns' = netns
    BY <1>0, <1>3, <2>1 DEF CreateVethPair
  <2> QED
    BY <1>0, <2>2 DEF Housed
<1>4. CASE MoveEndA(p)
  <2>1. \/ veth' = veth
        \/ veth' = [veth EXCEPT ![<<p, cur[p]>>] = "half"] /\ On(p, Ends[cur[p]][1]) \in netns
    BY <1>4 DEF MoveEndA, Attempt, Outcome
  <2>2. CASE y = <<p, cur[p]>>
    BY <1>0, <1>4, <2>1, <2>2 DEF MoveEndA, Housed, On
  <2>3. CASE y # <<p, cur[p]>>
    BY <1>0, <1>4, <2>1, <2>3 DEF MoveEndA, Housed
  <2> QED
    BY <2>2, <2>3
<1>5. CASE MoveEndB(p)
  <2>1. \/ veth' = veth
        \/ /\ veth' = [veth EXCEPT ![<<p, cur[p]>>] = "moved"]
           /\ veth[<<p, cur[p]>>] = "half" /\ On(p, Ends[cur[p]][2]) \in netns
    BY <1>5 DEF MoveEndB, Attempt, Outcome
  <2>2. CASE y = <<p, cur[p]>>
    BY <1>0, <1>5, <2>1, <2>2 DEF MoveEndB, Housed, On
  <2>3. CASE y # <<p, cur[p]>>
    BY <1>0, <1>5, <2>1, <2>3 DEF MoveEndB, Housed
  <2> QED
    BY <2>2, <2>3
<1>6. CASE ConfigureLink(p)
  <2>1. \/ veth' = veth
        \/ veth' = [veth EXCEPT ![<<p, cur[p]>>] = "named"] /\ veth[<<p, cur[p]>>] = "moved"
    BY <1>6 DEF ConfigureLink, Attempt, Outcome
  <2>2. CASE y = <<p, cur[p]>>
    BY <1>0, <1>6, <2>1, <2>2 DEF ConfigureLink, Housed
  <2>3. CASE y # <<p, cur[p]>>
    BY <1>0, <1>6, <2>1, <2>3 DEF ConfigureLink, Housed
  <2> QED
    BY <2>2, <2>3
<1>7. CASE DeleteNamespace(p)
  <2>1. PICK n \in todo[p] :
          \/ UNCHANGED <<netns, veth>>
          \/ /\ netns' = netns \ {On(p, n)}
             /\ veth' = [z \in Procs \X Links |-> IF HasEndIn(z, On(p, n)) THEN "none" ELSE veth[z]]
    BY <1>7 DEF DeleteNamespace, kernel
  <2>2. CASE /\ netns' = netns \ {On(p, n)}
             /\ veth' = [z \in Procs \X Links |-> IF HasEndIn(z, On(p, n)) THEN "none" ELSE veth[z]]
    <3>1. CASE HasEndIn(y, On(p, n))
      BY <2>2, <3>1 DEF Housed
    <3>2. CASE ~HasEndIn(y, On(p, n))
      <4>1. veth'[y] = veth[y]
        BY <2>2, <3>2
      <4>2. /\ veth[y] \in {"half", "moved", "named"} => <<lab[y[1]], Ends[y[2]][1]>> # <<lab[p], n>>
            /\ veth[y] \in {"moved", "named"} => <<lab[y[1]], Ends[y[2]][2]>> # <<lab[p], n>>
        BY <3>2 DEF HasEndIn, On
      <4> QED
        BY <1>0, <2>2, <4>1, <4>2 DEF Housed, On
    <3> QED
      BY <3>1, <3>2
  <2> QED
    BY <1>1, <2>1, <2>2
<1> QED
  BY <1>1, <1>2, <1>3, <1>4, <1>5, <1>6, <1>7, PairsTouched

(* A destroy finds a lab that is deployed, and is alone with it.           *)
LEMMA Alone ==
  ASSUME LeftInv, NEW p \in Procs, pc[p] \in Active,
         NEW q \in Procs, lab[q] = lab[p], pc[q] \in Active
  PROVE  q = p
BY DEF LeftInv, Exclusive

LEMMA NotBusyAtFirst ==
  ASSUME LeftInv, NEW p \in Procs, pc[p] \in {"precheck", "load"}
  PROVE  ~Busy(lab[p])
BY Alone DEF Busy, Active, Working, Building, Teardown, StageNames

LEMMA BridgeKeptKept ==
  ASSUME RegInv, NEW p \in Procs, Start(p) \/ Step(p) \/ Kill(p)
  PROVE  BridgeKept(p)'
<1>0. /\ LeftInv /\ TypeInv /\ BridgeKept(p) /\ CommandOK(p) /\ Settled(lab[p])
      /\ lab[p] \in Labs /\ lab' = lab /\ cmd' = cmd
  BY StepElsewhere DEF RegInv, OwnInv, BuildInv, LeftInv, TypeInv, DataOK, Elsewhere, procVars
<1> SUFFICES ASSUME ~Damaged(lab[p])', MgmtEnabled, cmd[p] = "destroy",
                    pc'[p] \in {"tdnetem", "tdmgmt"} \/ (pc'[p] = "tdbridge" /\ todo'[p] # {})
             PROVE  lab[p] \in bridge'
  BY <1>0 DEF BridgeKept
<1>1. ~Damaged(lab[p])
  BY <1>0, DamageStays
<1>2. Flow(p)
  BY <1>0, StepFlows
<1>3. CASE Load(p)
  <2>1. pc[p] = "load" /\ stateFile[lab[p]] = "ok" /\ bridge' = bridge
    BY <1>0, <1>3, GotoHolds DEF Load, kernel
  <2>2. Built(lab[p])
    BY <1>0, <1>1, <2>1, NotBusyAtFirst DEF Settled
  <2> QED
    BY <2>1, <2>2 DEF Built
<1>4. CASE pc[p] \in Teardown
  <2>1. CASE DeleteMgmtBridge(p)
    <3>1. \E s \in {"failed", "tdbridge"} : Goto(p, s, {}) /\ cur' = cur
      BY <2>1 DEF DeleteMgmtBridge
    <3>2. pc'[p] \in {"failed", "tdbridge"} /\ todo'[p] = {}
      BY <1>0, <3>1, GotoHolds
    <3> QED
      BY <3>2
  <2>2. CASE ~DeleteMgmtBridge(p)
    <3>1. bridge' = bridge
      BY <1>4, <2>2, BridgeTouched DEF CreateMgmtBridge, Teardown
    <3>2. \/ pc[p] \in {"tdnetem", "tdmgmt"}
          \/ pc[p] = "tdbridge" /\ todo[p] # {}
      <4>1. CASE EndStage(p)
        <5>1. pc'[p] = After[pc[p]] /\ pc[p] \in DOMAIN After
          BY <1>0, <4>1, GotoHolds DEF EndStage
        <5> QED
          BY <1>4, <5>1 DEF After, Teardown
      <4>2. CASE ClearNetem(p) \/ DeleteMgmtVeth(p) \/ DeleteNamespace(p) \/ RemoveEntry(p)
        <5>1. pc' = pc /\ pc[p] # "tdbridge"
          BY <4>2 DEF ClearNetem, DeleteMgmtVeth, DeleteNamespace, RemoveEntry, Dropped
        <5> QED
          BY <5>1
      <4>3. CASE RemoveLabDir(p)
        BY <1>0, <4>3, GotoHolds DEF RemoveLabDir
      <4>4. ~(Start(p) \/ Kill(p) \/ Deploy(p) \/ Load(p))
        <5>1. ~Start(p) /\ ~Load(p)
          BY <1>4 DEF Start, Load, Teardown
        <5>2. ~Kill(p)
          BY <1>0, GotoMoves DEF Kill
        <5>3. ~Deploy(p)
          BY <1>4 DEF Teardown, Deploy, Precheck, Plan, EnsureLabDirs, CreateNamespace,
             EnsureLoopbackUp, CreateVethPair, MoveEndA, MoveEndB, ConfigureLink, ConfigureNode, ConfStages,
             StageNames, WriteNodeEnvFile, CreateMgmtBridge, CreateMgmtPair, MoveMgmtEnd, ConfigureMgmtEnd,
             TruncateState, WriteState
        <5> QED
          BY <5>1, <5>2, <5>3
      <4> QED
        BY <2>2, <4>1, <4>2, <4>3, <4>4 DEF Step, TearDown
    <3> QED
      BY <1>0, <1>1, <3>1, <3>2 DEF BridgeKept
  <2> QED
    BY <2>1, <2>2
<1>5. CASE pc[p] \notin Teardown \cup {"load"}
  <2>1. pc[p] \in Building
    BY <1>2, <1>5 DEF Flow, Teardown, Building
  <2> QED
    BY <1>0, <2>1 DEF CommandOK
<1>6. pc[p] = "load" => Load(p)
  BY <1>2 DEF Flow, Building, Teardown, StageNames
<1> QED
  BY <1>3, <1>4, <1>5, <1>6

(* What a command that ends leaves: all of the lab or nothing of it.       *)
LEMMA SettledAtSave ==
  ASSUME RegInv, NEW p \in Procs, WriteState(p), pc'[p] = "ok"
  PROVE  Built(lab[p])' /\ stateFile'[lab[p]] = "ok"
<1>0. /\ TypeInv /\ Saving(p) /\ lab[p] \in Labs /\ pc[p] = "write" /\ BuildInv
      /\ stateFile \in [Labs -> {"none", "partial", "ok"}]
  BY DEF RegInv, OwnInv, BuildInv, LeftInv, TypeInv, DataOK, WriteState
<1>1. PICK o \in Outcomes :
        /\ OrRollback(p, o, "ok", {}) /\ cur' = cur
        /\ stateFile' = IF o = "err" \/ stateFile[lab[p]] = "none" THEN stateFile
                        ELSE [stateFile EXCEPT ![lab[p]] = "ok"]
        /\ UNCHANGED <<lab, kernel, labDir, nodeDir>>
  BY DEF WriteState, procVars
<1>2. o = "ok"
  BY <1>0, <1>1, RollbackHolds
<1>3. Built(lab[p])
  BY <1>0, WrittenWhenBuilt
<1> QED
  BY <1>0, <1>1, <1>2, <1>3 DEF Built, Saving, kernel

LEMMA SettledAtRemoval ==
  ASSUME RegInv, NEW p \in Procs, RemoveLabDir(p), lab[p] \notin spoilt'
  PROVE  /\ lab[p] \notin labDir' /\ ~Exists(lab[p])' /\ Pairs(lab[p])' = {}
         /\ stateFile'[lab[p]] = "none"
<1>0. /\ TypeInv /\ FilesSwept(p) /\ Swept(p) /\ lab[p] \in Labs /\ pc[p] = "tddir"
      /\ \A y \in Procs \X Links : Housed(y)
  BY DEF RegInv, OwnInv, BuildInv, LeftInv, ProcInv, TypeInv, DataOK, RemoveLabDir
<1>1. PICK o \in {"ok", "err"} :
        /\ Remove(p, /\ lab[p] \in labDir /\ stateFile[lab[p]] = "none"
                     /\ (\A n \in Nodes : nodeDir[On(p, n)] = "none"), o)
        /\ labDir' = IF o = "err" THEN labDir ELSE labDir \ {lab[p]}
        /\ UNCHANGED <<lab, kernel, nodeDir, stateFile>>
  BY DEF RemoveLabDir, procVars
<1>2. lab[p] \notin spoilt
  BY <1>1 DEF Remove
<1>3. stateFile[lab[p]] = "none" /\ \A n \in Nodes : nodeDir[<<lab[p], n>>] = "none"
  BY <1>0, <1>2 DEF FilesSwept, FileSwept
<1>4. lab[p] \notin labDir'
  <2>1. o = "ok" \/ (o = "err" /\ lab[p] \notin labDir)
    BY <1>0, <1>1, <1>3, RemoveSpoils DEF On, Outcomes
  <2> QED
    BY <1>1, <2>1
<1>5. lab[p] \notin bridge /\ \A n \in Nodes : mveth[<<lab[p], n>>] = "none" /\ <<lab[p], n>> \notin netns
  BY <1>0, <1>2 DEF Swept, MgmtSwept, BridgeSwept, NodeSwept
<1>6. Pairs(lab[p]) = {}
  <2> SUFFICES ASSUME NEW y \in Procs \X Links, lab[y[1]] = lab[p], veth[y] \in {"half", "moved", "named"}
               PROVE  FALSE
    BY DEF Pairs
  <2>1. <<lab[p], Ends[y[2]][1]>> \in netns /\ Ends[y[2]][1] \in Nodes
    BY <1>0, ConstantsOK DEF Housed
  <2> QED
    BY <1>5, <2>1
<1> QED
  BY <1>1, <1>3, <1>4, <1>5, <1>6 DEF Exists, Pairs, kernel

(* The removal of the bridge fails a destroy only by damaging the lab.     *)
LEMMA BridgeFailureDamages ==
  ASSUME RegInv, NEW p \in Procs, DeleteMgmtBridge(p), pc'[p] = "failed"
  PROVE  Damaged(lab[p])'
<1>0. /\ TypeInv /\ BridgeKept(p) /\ MgmtSkipped(p) /\ lab[p] \in Labs
      /\ pc[p] = "tdbridge" /\ lab[p] \in todo[p] /\ Step(p)
  BY DEF RegInv, OwnInv, BuildInv, LeftInv, ProcInv, TypeInv, DataOK, DeleteMgmtBridge, Step, TearDown
<1>1. PICK o \in Outcomes :
        /\ Remove(p, lab[p] \in bridge, o) /\ UNCHANGED <<lab, cur>>
        /\ IF o # "ok" /\ cmd[p] = "destroy" THEN Goto(p, "failed", {}) ELSE Goto(p, "tdbridge", {})
  BY DEF DeleteMgmtBridge, procVars
<1>2. o # "ok" /\ cmd[p] = "destroy"
  BY <1>0, <1>1, GotoHolds
<1>3. CASE Damaged(lab[p])
  BY <1>0, <1>1, <1>3, DamageStays
<1>4. CASE ~Damaged(lab[p])
  <2>1. lab[p] \in bridge
    BY <1>0, <1>2, <1>4 DEF BridgeKept, MgmtSkipped, MgmtStages
  <2>2. lab[p] \in spoilt'
    BY <1>0, <1>1, <1>2, <2>1, RemoveSpoils
  <2> QED
    BY <1>1, <2>2 DEF Damaged
<1> QED
  BY <1>3, <1>4

LEMMA SettledKept ==
  ASSUME RegInv, NEW p \in Procs, Start(p) \/ Step(p) \/ Kill(p)
  PROVE  Settled(lab[p])'
<1>0. /\ LeftInv /\ TypeInv /\ Settled(lab[p]) /\ lab[p] \in Labs /\ lab' = lab /\ cmd' = cmd /\ OtherProcs(p)
  BY StepElsewhere DEF RegInv, BuildInv, LeftInv, TypeInv, DataOK, Elsewhere, procVars
<1>1. Flow(p)
  BY <1>0, StepFlows
<1> SUFFICES ASSUME ~Damaged(lab[p])', ~Busy(lab[p])'
             PROVE  IF stateFile'[lab[p]] = "ok" THEN Built(lab[p])'
                    ELSE lab[p] \notin labDir' /\ ~Exists(lab[p])' /\ Pairs(lab[p])' = {}
  BY <1>0 DEF Settled
<1>2. pc'[p] \notin Working \cup {"killed"} /\ lab[p] \notin spoilt'
  BY <1>0 DEF Busy, Damaged
<1>3. CASE Start(p) \/ Precheck(p) \/ Load(p)
  <2>1. UNCHANGED <<lab, kernel, files, spoilt>>
    BY <1>3 DEF Start, Precheck, Load, history, procVars
  <2>2. pc[p] \notin Working \cup {"killed"}
    BY <1>3 DEF Start, Precheck, Load, Working, Building, Teardown, StageNames
  <2>3. SameObjects(lab[p]) /\ SameProcs(lab[p])
    BY <1>0, <1>2, <2>1, <2>2 DEF SameObjects, SameProcs, kernel, files, OtherProcs
  <2>4. ~Damaged(lab[p]) /\ ~Busy(lab[p])
    BY <1>0, <2>3, SameProcsMean
  <2> QED
    BY <1>0, <2>3, <2>4, SameObjectsMean DEF Settled, SameObjects
<1>4. CASE WriteState(p)
  <2>1. pc'[p] = "ok"
    BY <1>0, <1>1, <1>2, <1>4 DEF Flow, WriteState, Working, Building, Teardown, StageNames
  <2> QED
    BY <1>4, <2>1, SettledAtSave
<1>5. CASE RemoveLabDir(p)
  BY <1>2, <1>5, SettledAtRemoval
<1>6. CASE DeleteMgmtBridge(p) /\ pc'[p] = "failed"
  BY <1>6, BridgeFailureDamages
<1> QED
  BY <1>1, <1>2, <1>3, <1>4, <1>5, <1>6 DEF Flow, Working, Teardown, Building

(* What the other processes and the other labs keep.                       *)
LEMMA OwnInvOfOthers ==
  ASSUME RegInv, NEW p \in Procs, Start(p) \/ Step(p) \/ Kill(p), NEW q \in Procs \ {p}
  PROVE  OwnInv(q)'
<1>0. /\ LeftInv /\ TypeInv /\ OwnInv(q) /\ lab' = lab /\ cmd' = cmd /\ pc'[q] = pc[q] /\ lab[q] \in Labs
  BY StepElsewhere DEF RegInv, BuildInv, LeftInv, TypeInv, DataOK, Elsewhere, procVars, OtherProcs
<1>1. CASE pc[q] \in Active
  <2>1. Undisturbed(q)
    BY <1>0, <1>1, StepDisturbsNoOther
  <2>2. ~Damaged(lab[q])' => ~Damaged(lab[q])
    BY <1>0, DamageStays
  <2> QED
    BY <1>0, <2>1, <2>2 DEF Undisturbed, OwnInv, CommandOK, Saving, FilesSwept, FileSwept, BridgeKept
<1>2. CASE pc[q] \notin Active
  BY <1>0, <1>2 DEF OwnInv, CommandOK, Saving, FilesSwept, FileSwept, BridgeKept, Active, Working, Building, Teardown
<1> QED
  BY <1>1, <1>2

LEMMA SettledElsewhere ==
  ASSUME RegInv, NEW p \in Procs, Start(p) \/ Step(p) \/ Kill(p), NEW l \in Labs \ {lab[p]}
  PROVE  Filed(l)' /\ Settled(l)'
<1>1. SameObjects(l) /\ SameProcs(l) /\ Filed(l) /\ Settled(l)
  BY OtherLabStays DEF RegInv, BuildInv
<1> QED
  BY <1>1, SameObjectsMean, SameProcsMean DEF Settled, SameObjects

LEMMA RegInvInit == Init => RegInv
<1> SUFFICES ASSUME Init PROVE RegInv
  OBVIOUS
<1>0. BuildInv /\ lab \in [Procs -> Labs] /\ \A p \in Procs : pc[p] = "idle"
  BY BuildInvInit DEF Init
<1>1. ASSUME NEW p \in Procs PROVE OwnInv(p)
  BY <1>0 DEF OwnInv, CommandOK, Saving, FilesSwept, FileSwept, BridgeKept, Building, StageNames
<1>2. ASSUME NEW l \in Labs PROVE Filed(l) /\ Settled(l)
  BY DEF Init, Filed, Settled, Exists, Pairs, LabNodes
<1>3. ASSUME NEW y \in Procs \X Links PROVE Housed(y)
  BY DEF Init, Housed
<1> QED
  BY <1>0, <1>1, <1>2, <1>3 DEF RegInv

LEMMA RegInvNext == SameLab = FALSE /\ RegInv /\ [Next]_vars => RegInv'
<1> SUFFICES ASSUME SameLab = FALSE, RegInv, [Next]_vars PROVE RegInv'
  OBVIOUS
<1>0. BuildInv'
  BY BuildInvNext DEF RegInv
<1>1. CASE UNCHANGED vars
  <2>1. UNCHANGED <<pc, todo, cmd, lab, netns, conf, veth, bridge, mveth, labDir, nodeDir, stateFile, spoilt>>
    BY <1>1 DEF vars, procVars, kernel, files, history
  <2>2. ASSUME NEW p \in Procs PROVE OwnInv(p)'
    BY <2>1 DEF RegInv, OwnInv, CommandOK, Saving, FilesSwept, FileSwept, BridgeKept, Damaged
  <2>3. ASSUME NEW l \in Labs PROVE Filed(l)' /\ Settled(l)'
    BY <2>1, SameObjectsMean, SameProcsMean DEF RegInv, SameObjects, SameProcs, Settled
  <2>4. ASSUME NEW y \in Procs \X Links PROVE Housed(y)'
    BY <2>1 DEF RegInv, Housed
  <2> QED
    BY <1>0, <2>2, <2>3, <2>4 DEF RegInv
<1>2. ASSUME NEW p \in Procs, Start(p) \/ Step(p) \/ Kill(p) PROVE RegInv'
  <2>0. /\ TypeInv /\ Flow(p) /\ cmd' = cmd /\ lab' = lab
    BY <1>2, StepFlows, StepElsewhere DEF RegInv, BuildInv, LeftInv, Elsewhere, procVars
  <2>1. OwnInv(p)'
    BY <1>2, <2>0, CommandKept, SavingKept, FilesSweptKept, BridgeKeptKept DEF OwnInv
  <2>2. ASSUME NEW q \in Procs PROVE OwnInv(q)'
    BY <1>2, <2>1, OwnInvOfOthers
  <2>3. ASSUME NEW l \in Labs PROVE Filed(l)' /\ Settled(l)'
    BY <1>2, <2>0, FiledKept, SettledKept, SettledElsewhere
  <2>4. ASSUME NEW y \in Procs \X Links PROVE Housed(y)'
    BY <1>2, HousedKept
  <2> QED
    BY <1>0, <2>2, <2>3, <2>4 DEF RegInv
<1> QED
  BY <1>1, <1>2 DEF Next

-----------------------------------------------------------------------------
(* Every step is a step of LabRegistry.                                    *)

(* The status of the lab of a process at work.                             *)
LEMMA StatusAtWork ==
  ASSUME RegInv, NEW p \in Procs, pc[p] \in Working, ~Damaged(lab[p])
  PROVE  StatusOf(lab[p]) = IF cmd[p] = "deploy" THEN "building" ELSE "removing"
<1>1. LeftInv /\ lab[p] \in Labs
  BY DEF RegInv, BuildInv, LeftInv, TypeInv, DataOK
<1>2. Busy(lab[p])
  BY DEF Busy
<1>3. \A q \in Procs : lab[q] = lab[p] /\ pc[q] \in Working => q = p
  BY <1>1, Alone DEF Active
<1> QED
  BY <1>2, <1>3 DEF StatusOf

LEMMA StatusAtRest ==
  ASSUME RegInv, NEW l \in Labs, ~Damaged(l), ~Busy(l)
  PROVE  \/ StatusOf(l) = "deployed" /\ stateFile[l] = "ok" /\ ExtentOf(l) = "all"
         \/ StatusOf(l) = "absent" /\ stateFile[l] # "ok" /\ ExtentOf(l) = "none"
<1>1. Settled(l)
  BY DEF RegInv
<1> QED
  BY <1>1 DEF Settled, StatusOf, ExtentOf, Built

LEMMA StatusAtWorkNext ==
  ASSUME RegInv', NEW p \in Procs, lab' = lab, cmd' = cmd, pc'[p] \in Working, ~Damaged(lab[p])'
  PROVE  StatusOf(lab[p])' = IF cmd[p] = "deploy" THEN "building" ELSE "removing"
<1>1. (Exclusive /\ lab \in [Procs -> Labs])'
  BY DEF RegInv, BuildInv, LeftInv, TypeInv, DataOK
<1>2. Busy(lab[p])'
  BY DEF Busy
<1>3. \A q \in Procs : lab[q] = lab[p] /\ pc'[q] \in Working => q = p
  BY <1>1 DEF Exclusive, Active
<1> QED
  BY <1>2, <1>3 DEF StatusOf

LEMMA StatusAtRestNext ==
  ASSUME RegInv', NEW l \in Labs, ~Damaged(l)', ~Busy(l)'
  PROVE  \/ StatusOf(l)' = "deployed" /\ stateFile'[l] = "ok" /\ ExtentOf(l)' = "all"
         \/ StatusOf(l)' = "absent" /\ stateFile'[l] # "ok" /\ ExtentOf(l)' = "none"
<1>1. Settled(l)'
  BY DEF RegInv
<1> QED
  BY <1>1 DEF Settled, StatusOf, ExtentOf, Built

(* The step of LabRegistry that a step of a process is for its lab.        *)
LabStep(l) ==
  \/ StatusOf(l)' = StatusOf(l) /\ ExtentOf(l)' = ExtentOf(l)
  \/ StatusOf(l) = "absent" /\ StatusOf(l)' = "building" /\ ExtentOf(l)' = ExtentOf(l)
  \/ StatusOf(l) = "deployed" /\ StatusOf(l)' = "removing" /\ ExtentOf(l)' = ExtentOf(l)
  \/ StatusOf(l) \in {"building", "removing"} /\ StatusOf(l)' = StatusOf(l)
  \/ StatusOf(l) = "building" /\ StatusOf(l)' = "deployed" /\ ExtentOf(l)' = "all"
  \/ StatusOf(l) \in {"building", "removing"} /\ StatusOf(l)' = "absent" /\ ExtentOf(l)' = "none"
  \/ StatusOf(l)' = "damaged"

LEMMA StepMaps ==
  ASSUME RegInv, RegInv', NEW p \in Procs, Start(p) \/ Step(p) \/ Kill(p)
  PROVE  LabStep(lab[p])
<1>0. /\ LeftInv /\ TypeInv /\ CommandOK(p) /\ Filed(lab[p]) /\ FilesSwept(p)
      /\ lab[p] \in Labs /\ lab' = lab /\ cmd' = cmd /\ OtherProcs(p) /\ Flow(p)
      /\ cmd[p] \in {"deploy", "destroy"}
  BY StepElsewhere, StepFlows
  DEF RegInv, OwnInv, BuildInv, LeftInv, TypeInv, DataOK, Elsewhere, procVars
<1>1. CASE Damaged(lab[p])'
  BY <1>0, <1>1 DEF StatusOf, LabStep
<1> SUFFICES ASSUME ~Damaged(lab[p])' PROVE LabStep(lab[p])
  BY <1>1
<1>2. ~Damaged(lab[p]) /\ pc'[p] # "killed" /\ lab[p] \notin spoilt'
  BY <1>0, DamageStays DEF Damaged
<1>3. pc'[p] \in Working => StatusOf(lab[p])' = IF cmd[p] = "deploy" THEN "building" ELSE "removing"
  BY <1>0, StatusAtWorkNext
<1>4. CASE Start(p) \/ ((Precheck(p) \/ Load(p)) /\ pc'[p] = "refused")
  <2>1. UNCHANGED <<lab, kernel, files, spoilt>>
    BY <1>4 DEF Start, Precheck, Load, history, procVars
  <2>2. pc[p] \notin Working \cup {"killed"} /\ pc'[p] \notin Working \cup {"killed"}
    <3>1. pc[p] \in {"idle", "precheck", "load"} /\ (pc[p] \in {"precheck", "load"} => pc'[p] = "refused")
      BY <1>4 DEF Start, Precheck, Load
    <3> QED
      BY <1>0, <3>1 DEF Flow, Active, Working, Building, Teardown, StageNames
  <2>3. SameObjects(lab[p]) /\ SameProcs(lab[p])
    BY <1>0, <2>1, <2>2 DEF SameObjects, SameProcs, kernel, files, OtherProcs
  <2> QED
    BY <1>0, <2>3, SameObjectsMean, SameProcsMean DEF SameObjects, LabStep
<1>5. CASE (Precheck(p) \/ Load(p)) /\ pc'[p] # "refused"
  <2>1. UNCHANGED <<lab, kernel, files, spoilt>>
    BY <1>5 DEF Precheck, Load, history, procVars
  <2>2. SameObjects(lab[p])
    BY <1>0, <2>1 DEF SameObjects, kernel, files
  <2>3. ExtentOf(lab[p])' = ExtentOf(lab[p])
    BY <1>0, <2>2, SameObjectsMean
  <2>4. ~Busy(lab[p])
    BY <1>0, <1>5, NotBusyAtFirst DEF Precheck, Load
  <2>5. \/ pc[p] = "precheck" /\ pc'[p] = "plan" /\ lab[p] \notin labDir /\ cmd[p] = "deploy"
        \/ pc[p] = "load" /\ pc'[p] = "tdnetem" /\ stateFile[lab[p]] = "ok" /\ cmd[p] = "destroy"
    <3>1. pc[p] \in {"precheck", "load"}
      BY <1>5 DEF Precheck, Load
    <3> QED
      BY <1>0, <1>2, <1>5, <3>1 DEF Flow, CommandOK, Building, Teardown, StageNames
  <2>6. \/ StatusOf(lab[p]) = "absent" /\ pc'[p] \in Working /\ cmd[p] = "deploy"
        \/ StatusOf(lab[p]) = "deployed" /\ pc'[p] \in Working /\ cmd[p] = "destroy"
    BY <1>0, <1>2, <2>4, <2>5, StatusAtRest DEF Filed, Working, Building, Teardown
  <2> QED
    BY <1>3, <2>3, <2>6 DEF LabStep
<1>6. CASE pc[p] \in Working
  <2>1. StatusOf(lab[p]) = IF cmd[p] = "deploy" THEN "building" ELSE "removing"
    BY <1>2, <1>6, StatusAtWork
  <2>2. CASE pc'[p] \in Working
    BY <1>3, <2>1, <2>2 DEF LabStep
  <2>3. CASE pc'[p] \notin Working
    <3>1. ~Busy(lab[p])'
      BY <1>0, <1>6, <2>3, Alone DEF Busy, OtherProcs, Active
    <3>2. \/ StatusOf(lab[p])' = "deployed" /\ stateFile'[lab[p]] = "ok" /\ ExtentOf(lab[p])' = "all"
          \/ StatusOf(lab[p])' = "absent" /\ stateFile'[lab[p]] # "ok" /\ ExtentOf(lab[p])' = "none"
      BY <1>0, <3>1, StatusAtRestNext
    <3>3. \/ cmd[p] = "deploy"
          \/ stateFile'[lab[p]] # "ok"
      <4>1. \/ WriteState(p) /\ pc[p] = "write"
            \/ DeleteMgmtBridge(p) /\ pc'[p] = "failed"
            \/ RemoveLabDir(p)
        BY <1>0, <1>2, <1>6, <2>3 DEF Flow, Working, Building, Teardown, StageNames
      <4>2. ~(DeleteMgmtBridge(p) /\ pc'[p] = "failed")
        BY BridgeFailureDamages
      <4>3. RemoveLabDir(p) => stateFile'[lab[p]] # "ok"
        BY <1>2, SettledAtRemoval
      <4> QED
        BY <1>0, <4>1, <4>2, <4>3 DEF CommandOK, Building
    <3> QED
      BY <2>1, <3>2, <3>3, <1>0 DEF LabStep
  <2> QED
    BY <2>2, <2>3
<1>7. pc[p] \in Working \/ Start(p) \/ Precheck(p) \/ Load(p)
  BY <1>0, <1>2 DEF Flow, Working, Teardown, Building
<1> QED
  BY <1>4, <1>5, <1>6, <1>7

LEMMA OtherLabsMap ==
  ASSUME RegInv, NEW p \in Procs, Start(p) \/ Step(p) \/ Kill(p), NEW l \in Labs \ {lab[p]}
  PROVE  StatusOf(l)' = StatusOf(l) /\ ExtentOf(l)' = ExtentOf(l)
<1>1. SameObjects(l) /\ SameProcs(l)
  BY OtherLabStays DEF RegInv, BuildInv
<1> QED
  BY <1>1, SameObjectsMean, SameProcsMean DEF SameObjects

LEMMA ExtentIs ==
  ASSUME NEW l \in Labs
  PROVE  ExtentOf(l)' \in {"none", "some", "all"}
BY DEF ExtentOf

LEMMA MapsToRegistry ==
  ASSUME NEW l \in Labs, LabStep(l),
         \A k \in Labs \ {l} : StatusOf(k)' = StatusOf(k) /\ ExtentOf(k)' = ExtentOf(k)
  PROVE  [Registry!Next]_(Registry!vars)
<1> DEFINE S == [k \in Labs |-> StatusOf(k)]
           E == [k \in Labs |-> ExtentOf(k)]
<1>1. /\ S' = [S EXCEPT ![l] = StatusOf(l)']
      /\ E' = [E EXCEPT ![l] = ExtentOf(l)']
      /\ StatusOf(l)' = StatusOf(l) => S' = S
      /\ ExtentOf(l)' = ExtentOf(l) => E' = E
      /\ S[l] = StatusOf(l)
  OBVIOUS
<1>2. ExtentOf(l)' \in Registry!Extents
  BY ExtentIs DEF Registry!Extents
<1> HIDE DEF S, E
<1>3. \/ S' = S /\ E' = E
      \/ S[l] = "absent" /\ S' = [S EXCEPT ![l] = "building"] /\ E' = E
      \/ S[l] = "deployed" /\ S' = [S EXCEPT ![l] = "removing"] /\ E' = E
      \/ S[l] \in {"building", "removing"} /\ S' = S
      \/ S[l] = "building" /\ S' = [S EXCEPT ![l] = "deployed"] /\ E' = [E EXCEPT ![l] = "all"]
      \/ S[l] \in {"building", "removing"} /\ S' = [S EXCEPT ![l] = "absent"] /\ E' = [E EXCEPT ![l] = "none"]
      \/ S' = [S EXCEPT ![l] = "damaged"]
  BY <1>1 DEF LabStep
<1>4. (S' = S /\ E' = E) \/ Registry!Begin(l) \/ Registry!Work(l) \/ Registry!Commit(l)
      \/ Registry!Clear(l) \/ Registry!Damage(l)
  BY <1>1, <1>2, <1>3 DEF S, E, Registry!Begin, Registry!Work, Registry!Commit, Registry!Clear, Registry!Damage
<1> QED
  BY <1>4 DEF S, E, Registry!Next, Registry!vars

(* Deploy and destroy implement LabRegistry: a lab on which no command     *)
(* works is deployed, all of it, or gone, all of it, unless a kill or a    *)
(* failed removal damaged it.                                              *)
THEOREM LifecycleImplementsRegistry ==
  ASSUME SameLab = FALSE
  PROVE  Spec => ImplementsRegistry
<1>1. Init => Registry!Init
  <2> SUFFICES ASSUME Init
               PROVE  \A l \in Labs : StatusOf(l) = "absent" /\ ExtentOf(l) = "none"
    BY DEF Registry!Init
  <2>1. RegInv /\ \A p \in Procs : pc[p] = "idle"
    BY RegInvInit DEF Init
  <2>2. \A l \in Labs : ~Damaged(l) /\ ~Busy(l) /\ stateFile[l] = "none"
    BY <2>1 DEF Init, Damaged, Busy, Working, Building, Teardown, StageNames
  <2> QED
    BY <2>1, <2>2, StatusAtRest
<1>2. RegInv /\ [Next]_vars => RegInv'
  BY RegInvNext
<1>3. RegInv /\ RegInv' /\ [Next]_vars => [Registry!Next]_(Registry!vars)
  <2> SUFFICES ASSUME RegInv, RegInv', [Next]_vars PROVE [Registry!Next]_(Registry!vars)
    OBVIOUS
  <2>1. CASE UNCHANGED vars
    <3>1. \A l \in Labs : SameObjects(l) /\ SameProcs(l)
      BY <2>1 DEF vars, procVars, kernel, files, history, SameObjects, SameProcs
    <3>2. \A l \in Labs : StatusOf(l)' = StatusOf(l) /\ ExtentOf(l)' = ExtentOf(l)
      BY <3>1, SameObjectsMean, SameProcsMean DEF SameObjects
    <3> QED
      BY <3>2 DEF Registry!vars
  <2>2. ASSUME NEW p \in Procs, Start(p) \/ Step(p) \/ Kill(p) PROVE [Registry!Next]_(Registry!vars)
    <3>1. lab[p] \in Labs
      BY DEF RegInv, BuildInv, LeftInv, TypeInv, DataOK
    <3> QED
      BY <2>2, <3>1, StepMaps, OtherLabsMap, MapsToRegistry
  <2> QED
    BY <2>1, <2>2 DEF Next
<1> QED
  BY <1>1, <1>2, <1>3, RegInvInit, PTL DEF Spec, ImplementsRegistry, Registry!Spec

-----------------------------------------------------------------------------
(* Without faults, on a host with one lab, no command fails.               *)

Smooth == faults = 0 /\ \A p, q \in Procs : lab[p] = lab[q]

(* The steps at which a process holds an element of its loop.              *)
Holding == NodeSteps \cup LinkSteps

(* p has not yet taken up element x of stage s.                            *)
Ahead(p, s, x) ==
  /\ pc[p] \in Building
  /\ \/ Place[pc[p]] < Place[s]
     \/ Place[pc[p]] = Place[s] /\ x \in todo[p] /\ (pc[p] \in Holding => x # cur[p])

(* Nothing is in the way of it.                                            *)
Fresh(p, s, x) ==
  /\ s = "nodes"  => <<lab[p], x>> \notin netns
  /\ s = "links"  => \A q \in Procs : veth[<<q, x>>] = "none"
  /\ s = "mgmtbr" => x \notin bridge
  /\ s = "mgmt"   => mveth[<<lab[p], x>>] = "none"

AllAhead(p) == \A s \in Stages : \A x \in Work(s, lab[p]) : Ahead(p, s, x) => Fresh(p, s, x)

(* The pair of link k is that of p, and of no other process.               *)
OnlyPair(p, k, v) == veth[<<p, k>>] = v /\ \A q \in Procs \ {p} : veth[<<q, k>>] = "none"

(* The element a process holds is where its step expects it.               *)
Held(p) ==
  /\ pc[p] = "createns" => <<lab[p], cur[p]>> \notin netns
  /\ pc[p] = "loopup"   => <<lab[p], cur[p]>> \in netns
  /\ pc[p] = "moveA"    => OnlyPair(p, cur[p], "host")
  /\ pc[p] = "moveB"    => OnlyPair(p, cur[p], "half")
  /\ pc[p] = "linkconf" => OnlyPair(p, cur[p], "moved")
  /\ pc[p] = "mgmtmove" => mveth[<<lab[p], cur[p]>>] = "host"
  /\ pc[p] = "mgmtconf" => mveth[<<lab[p], cur[p]>>] = "moved"

(* No end of a pair stays in the host namespace.                           *)
NothingLoose(p) ==
  \A k \in Links : veth[<<p, k>>] \in {"host", "half"} => pc[p] \in {"moveA", "moveB"} /\ cur[p] = k

Unfailed(p) == pc[p] \notin {"failed", "killed"} /\ (pc[p] \in Teardown => cmd[p] = "destroy")

Faultless(p) == AllAhead(p) /\ Held(p) /\ NothingLoose(p) /\ Unfailed(p)

MgmtMoved ==
  \A x \in LabNodes : mveth[x] = "host" => \E q \in Procs : pc[q] = "mgmtmove" /\ x = <<lab[q], cur[q]>>

SmoothInv == RegInv /\ (Smooth => spoilt = {} /\ MgmtMoved /\ \A p \in Procs : Faultless(p))

-----------------------------------------------------------------------------
(* The control of a process without faults.                                *)

LEMMA NoFault ==
  ASSUME TypeInv, NEW pre, NEW o \in Outcomes, NEW kinds, Outcome(pre, o, kinds), faults' = 0, pre
  PROVE  o = "ok"
<1>1. faults \in Nat
  BY ConstantsOK DEF TypeInv, DataOK
<1>2. faults' # faults + 1
  BY <1>1
<1> QED
  BY <1>2 DEF Outcome, Outcomes

LEMMA AttemptSucceeds ==
  ASSUME TypeInv, NEW pre, NEW o \in Outcomes, Attempt(pre, o), faults' = 0, pre
  PROVE  o = "ok" /\ spoilt' = spoilt
BY NoFault DEF Attempt

(* A step leads on in the order of the stages, and what is still ahead is  *)
(* what was ahead, without the element c that is taken up.                 *)
LEMMA AheadKept ==
  ASSUME NEW p \in Procs, lab' = lab, AllAhead(p), pc[p] \in Building,
         Place[pc'[p]] = Place[pc[p]], NEW c,
         \A x \in todo'[p] : (pc'[p] \in Holding => x # cur'[p])
                             => x \in todo[p] /\ x # c /\ (pc[p] \in Holding => x # cur[p]),
         \A s \in Stages : \A x \in Work(s, lab[p]) :
           Fresh(p, s, x) /\ (Place[s] # Place[pc[p]] \/ x # c) => Fresh(p, s, x)'
  PROVE  AllAhead(p)'
<1> SUFFICES ASSUME NEW s \in Stages, NEW x \in Work(s, lab[p]), Ahead(p, s, x)' PROVE Fresh(p, s, x)'
  BY DEF AllAhead, Work
<1>1. Ahead(p, s, x) /\ (Place[s] # Place[pc[p]] \/ x # c)
  <2>1. CASE Place[pc'[p]] < Place[s]
    <3>1. s \in DOMAIN Place /\ pc[p] \in DOMAIN Place /\ \A r \in DOMAIN Place : Place[r] \in Nat
      BY DEF Place, Stages, StageNames, Building
    <3> QED
      BY <2>1, <3>1 DEF Ahead
  <2>2. CASE ~(Place[pc'[p]] < Place[s])
    BY <2>2 DEF Ahead
  <2> QED
    BY <2>1, <2>2
<1> QED
  BY <1>1 DEF AllAhead

LEMMA AheadTaken ==
  ASSUME TypeInv, NEW p \in Procs, lab' = lab, AllAhead(p), pc[p] \in Building,
         NEW c, NEW r \in Holding, Take(p, c, "ok", r), Place[r] = Place[pc[p]],
         pc[p] \in Holding => c = cur[p],
         \A s \in Stages : \A x \in Work(s, lab[p]) :
           Fresh(p, s, x) /\ (Place[s] # Place[pc[p]] \/ x # c) => Fresh(p, s, x)'
  PROVE  AllAhead(p)' /\ pc'[p] = r /\ cur'[p] = c
<1>1. pc'[p] = r /\ cur'[p] = c /\ todo'[p] = todo[p]
  BY TakeMoves
<1> QED
  BY <1>1, AheadKept

LEMMA AheadFinished ==
  ASSUME TypeInv, NEW p \in Procs, lab' = lab, AllAhead(p), pc[p] \in Building,
         NEW c, NEW r, r \notin Holding, Finish(p, c, "ok", r), Place[r] = Place[pc[p]],
         pc[p] \in Holding => c = cur[p],
         \A s \in Stages : \A x \in Work(s, lab[p]) :
           Fresh(p, s, x) /\ (Place[s] # Place[pc[p]] \/ x # c) => Fresh(p, s, x)'
  PROVE  AllAhead(p)' /\ pc'[p] = r
<1>1. pc'[p] = r /\ todo'[p] = todo[p] \ {c}
  BY FinishMoves
<1> QED
  BY <1>1, AheadKept

LEMMA NothingAhead ==
  ASSUME NEW p \in Procs, pc'[p] \notin Building
  PROVE  AllAhead(p)' /\ Held(p)'
BY DEF AllAhead, Ahead, Held, Building

(* Nothing fails, the files and the pairs aside.                           *)
LEMMA StillUnfailed ==
  ASSUME NEW p \in Procs, pc'[p] \in Building
  PROVE  Unfailed(p)'
BY DEF Unfailed, Building, Teardown, StageNames

(* The nodes of a build that is past them.                                 *)
LEMMA NodesThere ==
  ASSUME BuildInv, NEW p \in Procs, pc[p] \in Building \ {"plan", "nodes", "createns", "loopup"},
         NEW n \in Nodes
  PROVE  <<lab[p], n>> \in netns /\ nodeDir[<<lab[p], n>>] # "none"
<1>1. Deeds(p) /\ lab[p] \in Labs
  BY DEF BuildInv, LeftInv, TypeInv, DataOK
<1>2. Through(p, "nodes", n)
  BY DEF Through, Place, Building, StageNames
<1>3. Deed(p, "nodes", n)
  BY <1>1, <1>2, WorkIs DEF Deeds, Stages
<1> QED
  BY <1>3 DEF Deed

LEMMA LooseKept ==
  ASSUME NEW p \in Procs, NothingLoose(p), pc[p] \notin {"moveA", "moveB"},
         \A k \in Links : veth'[<<p, k>>] \in {veth[<<p, k>>], "none"}
  PROVE  NothingLoose(p)'
BY DEF NothingLoose

(* The facts every step of a build uses.                                   *)
LEMMA SmoothFacts ==
  ASSUME SmoothInv, Smooth, NEW p \in Procs, Start(p) \/ Step(p) \/ Kill(p)
  PROVE  /\ TypeInv /\ LeftInv /\ BuildInv /\ lab' = lab /\ cmd' = cmd /\ lab[p] \in Labs
         /\ AllAhead(p) /\ Held(p) /\ NothingLoose(p) /\ Unfailed(p) /\ MgmtMoved /\ spoilt = {}
         /\ OtherProcs(p)
         /\ veth \in [Procs \X Links -> {"none", "host", "half", "moved", "named"}]
         /\ mveth \in [LabNodes -> {"none", "host", "moved"}]
         /\ \A q \in Procs : lab[q] = lab[p]
BY StepElsewhere DEF SmoothInv, RegInv, BuildInv, LeftInv, TypeInv, DataOK, Faultless, Smooth, Elsewhere, procVars

LEMMA SmoothNodes ==
  ASSUME SmoothInv, Smooth, faults' = 0, NEW p \in Procs,
         EnsureLabDirs(p) \/ CreateNamespace(p) \/ EnsureLoopbackUp(p)
  PROVE  Faultless(p)' /\ spoilt' = {}
<1>0. /\ TypeInv /\ lab' = lab /\ lab[p] \in Labs
      /\ AllAhead(p) /\ Held(p) /\ NothingLoose(p) /\ spoilt = {}
      /\ veth \in [Procs \X Links -> {"none", "host", "half", "moved", "named"}]
  BY SmoothFacts DEF Step, Deploy
<1>1. CASE EnsureLabDirs(p)
  <2>1. PICK n \in todo[p], o \in Outcomes :
          /\ pc[p] = "nodes" /\ Attempt(TRUE, o) /\ Take(p, n, o, "createns") /\ UNCHANGED kernel
    BY <1>1 DEF EnsureLabDirs
  <2>2. o = "ok" /\ spoilt' = spoilt
    BY <1>0, <2>1, AttemptSucceeds
  <2>3. n \in Nodes
    BY <1>0, <2>1 DEF TypeInv, LoopsOK, LoopOK, NodeLoops
  <2>4. AllAhead(p)' /\ pc'[p] = "createns" /\ cur'[p] = n
    BY <1>0, <2>1, <2>2, AheadTaken, PlaceShared DEF Holding, NodeSteps, LinkSteps, Fresh, kernel
  <2>5. Fresh(p, "nodes", n)
    BY <1>0, <2>1, <2>3, WorkIs DEF AllAhead, Ahead, Stages, Holding, NodeSteps, LinkSteps, Building
  <2>6. Held(p)'
    BY <1>0, <2>1, <2>4, <2>5 DEF Held, Fresh, kernel
  <2>7. NothingLoose(p)'
    BY <1>0, <2>1, LooseKept DEF kernel
  <2> QED
    BY <1>0, <2>2, <2>4, <2>6, <2>7, StillUnfailed DEF Faultless, Building
<1>2. CASE CreateNamespace(p)
  <2>1. PICK o \in Outcomes :
          /\ pc[p] = "createns" /\ Attempt(On(p, cur[p]) \notin netns, o) /\ Take(p, cur[p], o, "loopup")
          /\ netns' = IF o = "err" THEN netns ELSE netns \cup {On(p, cur[p])}
          /\ UNCHANGED <<veth, bridge, mveth>>
    BY <1>2 DEF CreateNamespace
  <2>2. o = "ok" /\ spoilt' = spoilt
    BY <1>0, <2>1, AttemptSucceeds DEF Held, On
  <2>3. \A s \in Stages : \A x \in Work(s, lab[p]) :
           Fresh(p, s, x) /\ (Place[s] # Place[pc[p]] \/ x # cur[p]) => Fresh(p, s, x)'
    BY <1>0, <2>1, <2>2, PlaceOf DEF Fresh, On
  <2>4. AllAhead(p)' /\ pc'[p] = "loopup" /\ cur'[p] = cur[p]
    BY <1>0, <2>1, <2>2, <2>3, AheadTaken, PlaceShared DEF Holding, NodeSteps, LinkSteps
  <2>5. Held(p)'
    BY <1>0, <2>1, <2>2, <2>4 DEF Held, On
  <2>6. NothingLoose(p)'
    BY <1>0, <2>1, LooseKept
  <2> QED
    BY <1>0, <2>2, <2>4, <2>5, <2>6, StillUnfailed DEF Faultless, Building
<1>3. CASE EnsureLoopbackUp(p)
  <2>1. PICK o \in {"ok", "err"} :
          /\ pc[p] = "loopup" /\ Attempt(On(p, cur[p]) \in netns, o) /\ Finish(p, cur[p], o, "nodes")
          /\ UNCHANGED kernel
    BY <1>3 DEF EnsureLoopbackUp
  <2>2. o = "ok" /\ spoilt' = spoilt
    BY <1>0, <2>1, AttemptSucceeds DEF Held, On, Outcomes
  <2>3. AllAhead(p)' /\ pc'[p] = "nodes"
    BY <1>0, <2>1, <2>2, AheadFinished, PlaceShared DEF Holding, NodeSteps, LinkSteps, Fresh, kernel
  <2>4. NothingLoose(p)'
    BY <1>0, <2>1, LooseKept DEF kernel
  <2> QED
    BY <1>0, <2>2, <2>3, <2>4, StillUnfailed DEF Faultless, Building, Held
<1> QED
  BY <1>1, <1>2, <1>3

LEMMA SmoothLinks ==
  ASSUME SmoothInv, Smooth, faults' = 0, NEW p \in Procs,
         CreateVethPair(p) \/ MoveEndA(p) \/ MoveEndB(p) \/ ConfigureLink(p)
  PROVE  Faultless(p)' /\ spoilt' = {}
<1>0. /\ TypeInv /\ BuildInv /\ lab' = lab /\ lab[p] \in Labs
      /\ AllAhead(p) /\ Held(p) /\ NothingLoose(p) /\ spoilt = {}
      /\ veth \in [Procs \X Links -> {"none", "host", "half", "moved", "named"}]
  BY SmoothFacts DEF Step, Deploy
<1>1. pc[p] \in LinkSteps => cur[p] \in Links /\ Ends[cur[p]] \in Nodes \X Nodes
  BY <1>0, ConstantsOK DEF TypeInv, LoopsOK, LoopOK
<1>2. pc[p] \in LinkSteps => \A n \in Nodes : <<lab[p], n>> \in netns
  BY <1>0, NodesThere DEF LinkSteps, Building
<1>3. ASSUME NEW k \in Links, NEW v \in {"host", "half", "moved", "named"}, pc[p] \in LinkSteps \cup {"links"},
             veth' = [veth EXCEPT ![<<p, k>>] = v], UNCHANGED <<netns, bridge, mveth>>
      PROVE  /\ \A s \in Stages : \A x \in Work(s, lab[p]) :
                  Fresh(p, s, x) /\ (Place[s] # Place[pc[p]] \/ x # k) => Fresh(p, s, x)'
             /\ (\A q \in Procs \ {p} : veth[<<q, k>>] = "none") => OnlyPair(p, k, v)'
             /\ (\A j \in Links \ {k} : veth[<<p, j>>] \notin {"host", "half"})
                  => \A j \in Links : veth'[<<p, j>>] \in {"host", "half"} => j = k /\ v \in {"host", "half"}
  <2>1. \A s \in Stages : \A x \in Work(s, lab[p]) :
          Fresh(p, s, x) /\ (Place[s] # Place[pc[p]] \/ x # k) => Fresh(p, s, x)'
    <3> SUFFICES ASSUME NEW s \in Stages, NEW x \in Work(s, lab[p]), Fresh(p, s, x),
                        s # "links" \/ x # k
                 PROVE  Fresh(p, s, x)'
      BY <1>3, PlaceOf
    <3> QED
      BY <1>0, <1>3, WorkIs DEF Fresh
  <2> QED
    BY <1>0, <1>3, <2>1 DEF OnlyPair
<1>4. CASE CreateVethPair(p)
  <2>1. PICK k \in todo[p], o \in Outcomes :
          /\ pc[p] = "links" /\ Attempt((\A q \in Procs : veth[<<q, k>>] \notin {"host", "half"}), o)
          /\ veth' = IF o = "err" THEN veth ELSE [veth EXCEPT ![<<p, k>>] = "host"]
          /\ Take(p, k, o, "moveA") /\ UNCHANGED <<netns, bridge, mveth>>
    BY <1>4 DEF CreateVethPair
  <2>2. k \in Links
    BY <1>0, <2>1 DEF TypeInv, LoopsOK, LoopOK
  <2>3. \A q \in Procs : veth[<<q, k>>] = "none"
    <3>1. Fresh(p, "links", k)
      BY <1>0, <2>1, <2>2, WorkIs DEF AllAhead, Ahead, Stages, Holding, NodeSteps, LinkSteps, Building
    <3> QED
      BY <3>1 DEF Fresh
  <2>4. o = "ok" /\ spoilt' = spoilt
    BY <1>0, <2>1, <2>3, AttemptSucceeds
  <2>5. AllAhead(p)' /\ pc'[p] = "moveA" /\ cur'[p] = k
    <3>1. \A s \in Stages : \A x \in Work(s, lab[p]) :
            Fresh(p, s, x) /\ (Place[s] # Place[pc[p]] \/ x # k) => Fresh(p, s, x)'
      BY <1>3, <2>1, <2>2, <2>4
    <3>2. Place["moveA"] = Place[pc[p]] /\ pc[p] \in Building
      BY <2>1, PlaceShared DEF LinkSteps
    <3> QED
      BY <1>0, <2>1, <2>4, <3>1, <3>2, AheadTaken DEF Holding, NodeSteps, LinkSteps
  <2>6. OnlyPair(p, k, "host")' /\ \A j \in Links : veth'[<<p, j>>] \in {"host", "half"} => j = k
    BY <1>0, <1>3, <2>1, <2>2, <2>3, <2>4 DEF NothingLoose
  <2>7. Held(p)' /\ NothingLoose(p)'
    BY <2>5, <2>6 DEF Held, NothingLoose, OnlyPair
  <2> QED
    BY <1>0, <2>4, <2>5, <2>7, StillUnfailed DEF Faultless, Building
<1>5. CASE MoveEndA(p)
  <2>1. PICK o \in Outcomes :
          /\ pc[p] = "moveA" /\ Attempt(veth[<<p, cur[p]>>] = "host" /\ On(p, Ends[cur[p]][1]) \in netns, o)
          /\ veth' = IF o = "err" THEN veth ELSE [veth EXCEPT ![<<p, cur[p]>>] = "half"]
          /\ Take(p, cur[p], o, "moveB") /\ UNCHANGED <<netns, bridge, mveth>>
    BY <1>5 DEF MoveEndA
  <2>2. OnlyPair(p, cur[p], "host") /\ pc[p] \in LinkSteps
    BY <1>0, <2>1 DEF Held, LinkSteps
  <2>3. o = "ok" /\ spoilt' = spoilt
    BY <1>0, <1>1, <1>2, <2>1, <2>2, AttemptSucceeds DEF OnlyPair, On
  <2>4. AllAhead(p)' /\ pc'[p] = "moveB" /\ cur'[p] = cur[p]
    <3>1. \A s \in Stages : \A x \in Work(s, lab[p]) :
            Fresh(p, s, x) /\ (Place[s] # Place[pc[p]] \/ x # cur[p]) => Fresh(p, s, x)'
      BY <1>1, <1>3, <2>1, <2>2, <2>3
    <3>2. Place["moveB"] = Place[pc[p]] /\ pc[p] \in Building
      BY <2>1, PlaceShared DEF LinkSteps
    <3> QED
      BY <1>0, <2>1, <2>3, <3>1, <3>2, AheadTaken DEF Holding, NodeSteps, LinkSteps
  <2>5. OnlyPair(p, cur[p], "half")' /\ \A j \in Links : veth'[<<p, j>>] \in {"host", "half"} => j = cur[p]
    <3>1. PICK k \in Links : k = cur[p]
      BY <1>1, <2>2
    <3>2. OnlyPair(p, k, "half")' /\ \A j \in Links : veth'[<<p, j>>] \in {"host", "half"} => j = k
      BY <1>0, <1>3, <2>1, <2>2, <2>3, <3>1 DEF NothingLoose, OnlyPair
    <3> QED
      BY <2>4, <3>1, <3>2
  <2>6. Held(p)' /\ NothingLoose(p)'
    BY <2>4, <2>5 DEF Held, NothingLoose, OnlyPair
  <2> QED
    BY <1>0, <2>3, <2>4, <2>6, StillUnfailed DEF Faultless, Building
<1>6. CASE MoveEndB(p)
  <2>1. PICK o \in Outcomes :
          /\ pc[p] = "moveB" /\ Attempt(veth[<<p, cur[p]>>] = "half" /\ On(p, Ends[cur[p]][2]) \in netns, o)
          /\ veth' = IF o = "err" THEN veth ELSE [veth EXCEPT ![<<p, cur[p]>>] = "moved"]
          /\ Take(p, cur[p], o, "linkconf") /\ UNCHANGED <<netns, bridge, mveth>>
    BY <1>6 DEF MoveEndB
  <2>2. OnlyPair(p, cur[p], "half") /\ pc[p] \in LinkSteps
    BY <1>0, <2>1 DEF Held, LinkSteps
  <2>3. o = "ok" /\ spoilt' = spoilt
    BY <1>0, <1>1, <1>2, <2>1, <2>2, AttemptSucceeds DEF OnlyPair, On
  <2>4. AllAhead(p)' /\ pc'[p] = "linkconf" /\ cur'[p] = cur[p]
    <3>1. \A s \in Stages : \A x \in Work(s, lab[p]) :
            Fresh(p, s, x) /\ (Place[s] # Place[pc[p]] \/ x # cur[p]) => Fresh(p, s, x)'
      BY <1>1, <1>3, <2>1, <2>2, <2>3
    <3>2. Place["linkconf"] = Place[pc[p]] /\ pc[p] \in Building
      BY <2>1, PlaceShared DEF LinkSteps
    <3> QED
      BY <1>0, <2>1, <2>3, <3>1, <3>2, AheadTaken DEF Holding, NodeSteps, LinkSteps
  <2>5. OnlyPair(p, cur[p], "moved")' /\ \A j \in Links : veth'[<<p, j>>] \notin {"host", "half"}
    <3>1. PICK k \in Links : k = cur[p]
      BY <1>1, <2>2
    <3>2. OnlyPair(p, k, "moved")' /\ \A j \in Links : veth'[<<p, j>>] \notin {"host", "half"}
      BY <1>0, <1>3, <2>1, <2>2, <2>3, <3>1 DEF NothingLoose, OnlyPair
    <3> QED
      BY <2>4, <3>1, <3>2
  <2>6. Held(p)' /\ NothingLoose(p)'
    BY <2>4, <2>5 DEF Held, NothingLoose, OnlyPair
  <2> QED
    BY <1>0, <2>3, <2>4, <2>6, StillUnfailed DEF Faultless, Building
<1>7. CASE ConfigureLink(p)
  <2>1. PICK o \in Outcomes :
          /\ pc[p] = "linkconf"
          /\ Attempt(/\ veth[<<p, cur[p]>>] = "moved"
                     /\ (\A q \in Procs : lab[q] = lab[p] => veth[<<q, cur[p]>>] # "named"), o)
          /\ veth' = IF o = "err" THEN veth ELSE [veth EXCEPT ![<<p, cur[p]>>] = "named"]
          /\ Finish(p, cur[p], o, "links") /\ UNCHANGED <<netns, bridge, mveth>>
    BY <1>7 DEF ConfigureLink
  <2>2. OnlyPair(p, cur[p], "moved") /\ pc[p] \in LinkSteps
    BY <1>0, <2>1 DEF Held, LinkSteps
  <2>3. o = "ok" /\ spoilt' = spoilt
    <3>1. \A q \in Procs : veth[<<q, cur[p]>>] # "named"
      BY <2>2 DEF OnlyPair
    <3> QED
      BY <1>0, <2>1, <2>2, <3>1, AttemptSucceeds DEF OnlyPair
  <2>4. AllAhead(p)' /\ pc'[p] = "links"
    <3>1. \A s \in Stages : \A x \in Work(s, lab[p]) :
            Fresh(p, s, x) /\ (Place[s] # Place[pc[p]] \/ x # cur[p]) => Fresh(p, s, x)'
      BY <1>1, <1>3, <2>1, <2>2, <2>3
    <3>2. Place["links"] = Place[pc[p]] /\ pc[p] \in Building
      BY <2>1, PlaceShared DEF LinkSteps
    <3> QED
      BY <1>0, <2>1, <2>3, <3>1, <3>2, AheadFinished DEF Holding, NodeSteps, LinkSteps
  <2>5. NothingLoose(p)'
    BY <1>0, <1>1, <1>3, <2>1, <2>2, <2>3 DEF NothingLoose
  <2> QED
    BY <1>0, <2>3, <2>4, <2>5, StillUnfailed DEF Faultless, Building, Held
<1> QED
  BY <1>4, <1>5, <1>6, <1>7

LEMMA SmoothStages ==
  ASSUME SmoothInv, Smooth, faults' = 0, NEW p \in Procs,
         ConfigureNode(p) \/ WriteNodeEnvFile(p) \/ CreateMgmtBridge(p)
  PROVE  Faultless(p)' /\ spoilt' = {}
<1>0. /\ TypeInv /\ BuildInv /\ LeftInv /\ lab' = lab /\ lab[p] \in Labs
      /\ AllAhead(p) /\ Held(p) /\ NothingLoose(p) /\ spoilt = {}
      /\ veth \in [Procs \X Links -> {"none", "host", "half", "moved", "named"}]
  BY SmoothFacts DEF Step, Deploy
<1>1. ASSUME NEW s \in StageNames, pc[p] = s, NEW n, Finish(p, n, "ok", s), UNCHANGED <<netns, veth, bridge, mveth>>,
             spoilt' = spoilt
      PROVE  Faultless(p)' /\ spoilt' = {}
  <2>1. AllAhead(p)' /\ pc'[p] = s
    BY <1>0, <1>1, AheadFinished DEF Holding, NodeSteps, LinkSteps, StageNames, Fresh, Building
  <2>2. NothingLoose(p)'
    BY <1>0, <1>1, LooseKept DEF StageNames
  <2> QED
    BY <1>0, <1>1, <2>1, <2>2, StillUnfailed DEF Faultless, Building, StageNames, Held
<1>2. CASE ConfigureNode(p)
  <2>1. PICK n \in todo[p], o \in Outcomes :
          /\ pc[p] \in ConfStages /\ Attempt(On(p, n) \in netns, o) /\ Finish(p, n, o, pc[p])
          /\ UNCHANGED <<netns, veth, bridge, mveth>>
    BY <1>2 DEF ConfigureNode
  <2>2. n \in Nodes /\ pc[p] \in StageNames
    BY <1>0, <2>1 DEF TypeInv, LoopsOK, LoopOK, NodeLoops, ConfStages
  <2>3. On(p, n) \in netns
    BY <1>0, <2>2, NodesThere DEF On, Building, StageNames
  <2>4. o = "ok" /\ spoilt' = spoilt
    BY <1>0, <2>1, <2>3, AttemptSucceeds
  <2> QED
    BY <1>1, <2>1, <2>2, <2>4
<1>3. CASE WriteNodeEnvFile(p)
  <2>1. PICK n \in todo[p], o \in Outcomes :
          /\ pc[p] = "env" /\ Attempt(nodeDir[On(p, n)] # "none", o) /\ Finish(p, n, o, "env")
          /\ UNCHANGED kernel
    BY <1>3 DEF WriteNodeEnvFile
  <2>2. n \in Nodes
    BY <1>0, <2>1 DEF TypeInv, LoopsOK, LoopOK, NodeLoops, StageNames
  <2>3. nodeDir[On(p, n)] # "none"
    BY <1>0, <2>1, <2>2, NodesThere DEF On, Building, StageNames
  <2>4. o = "ok" /\ spoilt' = spoilt
    BY <1>0, <2>1, <2>3, AttemptSucceeds
  <2> QED
    BY <1>1, <2>1, <2>4 DEF StageNames, kernel
<1>4. CASE CreateMgmtBridge(p)
  <2>1. PICK o \in Outcomes :
          /\ pc[p] = "mgmtbr" /\ lab[p] \in todo[p] /\ Attempt(lab[p] \notin bridge, o)
          /\ bridge' = IF o = "err" THEN bridge ELSE bridge \cup {lab[p]}
          /\ Finish(p, lab[p], o, "mgmtbr") /\ UNCHANGED <<netns, veth, mveth>>
    BY <1>4 DEF CreateMgmtBridge
  <2>2. MgmtEnabled
    BY <1>0, <2>1 DEF LeftInv, ProcInv, MgmtSkipped, MgmtStages
  <2>3. lab[p] \notin bridge
    <3>1. Fresh(p, "mgmtbr", lab[p])
      BY <1>0, <2>1, <2>2, WorkIs DEF AllAhead, Ahead, Stages, Holding, NodeSteps, LinkSteps, Building
    <3> QED
      BY <3>1 DEF Fresh
  <2>4. o = "ok" /\ spoilt' = spoilt
    BY <1>0, <2>1, <2>3, AttemptSucceeds
  <2>5. \A s \in Stages : \A x \in Work(s, lab[p]) :
           Fresh(p, s, x) /\ (Place[s] # Place[pc[p]] \/ x # lab[p]) => Fresh(p, s, x)'
    BY <1>0, <2>1, <2>4, PlaceOf DEF Fresh
  <2>6. AllAhead(p)' /\ pc'[p] = "mgmtbr"
    BY <1>0, <2>1, <2>4, <2>5, AheadFinished DEF Holding, NodeSteps, LinkSteps, Building
  <2>7. NothingLoose(p)'
    BY <1>0, <2>1, LooseKept
  <2> QED
    BY <1>0, <2>4, <2>6, <2>7, StillUnfailed DEF Faultless, Building, Held
<1> QED
  BY <1>2, <1>3, <1>4

LEMMA SmoothMgmt ==
  ASSUME SmoothInv, Smooth, faults' = 0, MgmtEnabled => ~HostEth0, NEW p \in Procs,
         CreateMgmtPair(p) \/ MoveMgmtEnd(p) \/ ConfigureMgmtEnd(p)
  PROVE  Faultless(p)' /\ spoilt' = {} /\ MgmtMoved'
<1>0. /\ TypeInv /\ BuildInv /\ LeftInv /\ lab' = lab /\ lab[p] \in Labs /\ OtherProcs(p)
      /\ AllAhead(p) /\ Held(p) /\ NothingLoose(p) /\ spoilt = {} /\ MgmtMoved
      /\ mveth \in [LabNodes -> {"none", "host", "moved"}]
      /\ \A q \in Procs : lab[q] = lab[p]
  BY SmoothFacts DEF Step, Deploy
<1>1. \A q \in Procs \ {p} : pc[q] # "mgmtmove"
  BY <1>0, Alone DEF CreateMgmtPair, MoveMgmtEnd, ConfigureMgmtEnd, Active, Working, Building
<1>2. \A x \in LabNodes : mveth[x] = "host" => pc[p] = "mgmtmove" /\ x = <<lab[p], cur[p]>>
  BY <1>0, <1>1 DEF MgmtMoved
<1>3. ASSUME NEW n \in Nodes, NEW v \in {"host", "moved"}, pc[p] \in {"mgmt", "mgmtmove"},
             mveth' = [mveth EXCEPT ![<<lab[p], n>>] = v], UNCHANGED <<netns, veth, bridge>>
      PROVE  \A s \in Stages : \A x \in Work(s, lab[p]) :
               Fresh(p, s, x) /\ (Place[s] # Place[pc[p]] \/ x # n) => Fresh(p, s, x)'
  <2> SUFFICES ASSUME NEW s \in Stages, NEW x \in Work(s, lab[p]), Fresh(p, s, x), s # "mgmt" \/ x # n
               PROVE  Fresh(p, s, x)'
    BY <1>3, PlaceOf
  <2>1. s = "mgmt" => <<lab[p], x>> \in LabNodes
    BY <1>0, WorkElements DEF LabNodes
  <2> QED
    BY <1>0, <1>3, <2>1 DEF Fresh
<1>4. CASE CreateMgmtPair(p)
  <2>1. PICK n \in todo[p], o \in Outcomes :
          /\ pc[p] = "mgmt"
          /\ Attempt(/\ ~HostEth0 /\ (\A x \in LabNodes : mveth[x] # "host")
                     /\ mveth[On(p, n)] = "none", o)
          /\ mveth' = IF o = "err" THEN mveth ELSE [mveth EXCEPT ![On(p, n)] = "host"]
          /\ Take(p, n, o, "mgmtmove") /\ UNCHANGED <<netns, veth, bridge>>
    BY <1>4 DEF CreateMgmtPair
  <2>2. MgmtEnabled /\ n \in Nodes
    BY <1>0, <2>1 DEF LeftInv, ProcInv, MgmtSkipped, MgmtStages, TypeInv, LoopsOK, LoopOK, NodeLoops
  <2>3. mveth[<<lab[p], n>>] = "none"
    <3>1. Fresh(p, "mgmt", n)
      BY <1>0, <2>1, <2>2, WorkIs DEF AllAhead, Ahead, Stages, Holding, NodeSteps, LinkSteps, Building
    <3> QED
      BY <3>1 DEF Fresh
  <2>4. o = "ok" /\ spoilt' = spoilt
    BY <1>0, <1>2, <2>1, <2>2, <2>3, AttemptSucceeds DEF On
  <2>5. mveth' = [mveth EXCEPT ![<<lab[p], n>>] = "host"] /\ <<lab[p], n>> \in LabNodes
    BY <1>0, <2>1, <2>2, <2>4 DEF On, LabNodes
  <2>6. AllAhead(p)' /\ pc'[p] = "mgmtmove" /\ cur'[p] = n
    <3>1. \A s \in Stages : \A x \in Work(s, lab[p]) :
            Fresh(p, s, x) /\ (Place[s] # Place[pc[p]] \/ x # n) => Fresh(p, s, x)'
      BY <1>3, <2>1, <2>2, <2>5
    <3>2. Place["mgmtmove"] = Place[pc[p]] /\ pc[p] \in Building
      BY <2>1, PlaceShared
    <3> QED
      BY <1>0, <2>1, <2>4, <3>1, <3>2, AheadTaken DEF Holding, NodeSteps, LinkSteps
  <2>7. Held(p)' /\ MgmtMoved'
    BY <1>0, <1>2, <2>1, <2>5, <2>6 DEF Held, MgmtMoved
  <2>8. NothingLoose(p)'
    BY <1>0, <2>1, LooseKept, SmoothFacts DEF NothingLoose
  <2> QED
    BY <1>0, <2>4, <2>6, <2>7, <2>8, StillUnfailed DEF Faultless, Building
<1>5. CASE MoveMgmtEnd(p)
  <2>1. PICK o \in Outcomes :
          /\ pc[p] = "mgmtmove"
          /\ Attempt(/\ lab[p] \in bridge /\ mveth[On(p, cur[p])] = "host" /\ On(p, cur[p]) \in netns, o)
          /\ mveth' = IF o = "err" THEN mveth ELSE [mveth EXCEPT ![On(p, cur[p])] = "moved"]
          /\ Take(p, cur[p], o, "mgmtconf") /\ UNCHANGED <<netns, veth, bridge>>
    BY <1>5 DEF MoveMgmtEnd
  <2>2. MgmtEnabled /\ cur[p] \in Nodes
    BY <1>0, <2>1, HoldsNode DEF LeftInv, ProcInv, MgmtSkipped, NodeSteps
  <2>3. lab[p] \in bridge
    <3>1. Deeds(p) /\ lab[p] \in Work("mgmtbr", lab[p])
      BY <1>0, <2>2, WorkIs DEF BuildInv
    <3>2. Deed(p, "mgmtbr", lab[p])
      BY <2>1, <3>1 DEF Deeds, Through, Stages, Place, Building
    <3> QED
      BY <3>2 DEF Deed
  <2>4. <<lab[p], cur[p]>> \in netns /\ mveth[<<lab[p], cur[p]>>] = "host"
    BY <1>0, <2>1, <2>2, NodesThere DEF Held, Building
  <2>5. o = "ok" /\ spoilt' = spoilt
    BY <1>0, <2>1, <2>3, <2>4, AttemptSucceeds DEF On
  <2>6. mveth' = [mveth EXCEPT ![<<lab[p], cur[p]>>] = "moved"] /\ <<lab[p], cur[p]>> \in LabNodes
    BY <1>0, <2>1, <2>2, <2>5 DEF On, LabNodes
  <2>7. AllAhead(p)' /\ pc'[p] = "mgmtconf" /\ cur'[p] = cur[p]
    <3>1. \A s \in Stages : \A x \in Work(s, lab[p]) :
            Fresh(p, s, x) /\ (Place[s] # Place[pc[p]] \/ x # cur[p]) => Fresh(p, s, x)'
      BY <1>3, <2>1, <2>2, <2>6
    <3>2. Place["mgmtconf"] = Place[pc[p]] /\ pc[p] \in Building
      BY <2>1, PlaceShared
    <3> QED
      BY <1>0, <2>1, <2>5, <3>1, <3>2, AheadTaken DEF Holding, NodeSteps, LinkSteps
  <2>8. Held(p)' /\ MgmtMoved'
    BY <1>0, <1>2, <2>1, <2>6, <2>7 DEF Held, MgmtMoved
  <2>9. NothingLoose(p)'
    BY <1>0, <2>1, LooseKept DEF NothingLoose
  <2> QED
    BY <1>0, <2>5, <2>7, <2>8, <2>9, StillUnfailed DEF Faultless, Building
<1>6. CASE ConfigureMgmtEnd(p)
  <2>1. PICK o \in {"ok", "err"} :
          /\ pc[p] = "mgmtconf" /\ Attempt(mveth[On(p, cur[p])] = "moved", o) /\ Finish(p, cur[p], o, "mgmt")
          /\ UNCHANGED kernel
    BY <1>6 DEF ConfigureMgmtEnd
  <2>2. o = "ok" /\ spoilt' = spoilt
    BY <1>0, <2>1, AttemptSucceeds DEF Held, On, Outcomes
  <2>3. AllAhead(p)' /\ pc'[p] = "mgmt"
    BY <1>0, <2>1, <2>2, AheadFinished, PlaceShared DEF Holding, NodeSteps, LinkSteps, Fresh, kernel
  <2>4. NothingLoose(p)' /\ MgmtMoved'
    BY <1>0, <1>2, <2>1, LooseKept DEF kernel, NothingLoose, MgmtMoved
  <2> QED
    BY <1>0, <2>2, <2>3, <2>4, StillUnfailed DEF Faultless, Building, Held
<1> QED
  BY <1>4, <1>5, <1>6

LEMMA SmoothAtStart ==
  ASSUME SmoothInv, Smooth, NEW p \in Procs, Precheck(p), pc'[p] = "plan"
  PROVE  AllAhead(p)'
<1>0. /\ TypeInv /\ LeftInv /\ lab' = lab /\ lab[p] \in Labs /\ spoilt = {} /\ pc[p] = "precheck"
      /\ Filed(lab[p]) /\ Settled(lab[p]) /\ UNCHANGED kernel
      /\ veth \in [Procs \X Links -> {"none", "host", "half", "moved", "named"}]
      /\ \A q \in Procs : lab[q] = lab[p]
      /\ \A q \in Procs : NothingLoose(q) /\ Unfailed(q)
  BY SmoothFacts DEF Step, Deploy, Precheck, SmoothInv, RegInv, Faultless
<1>1. lab[p] \notin labDir
  BY <1>0, GotoHolds DEF Precheck
<1>2. ~Damaged(lab[p]) /\ ~Busy(lab[p])
  BY <1>0, NotBusyAtFirst DEF Damaged, Unfailed
<1>3. ~Exists(lab[p]) /\ Pairs(lab[p]) = {}
  BY <1>0, <1>1, <1>2 DEF Settled, Filed
<1>4. ASSUME NEW q \in Procs, NEW k \in Links PROVE veth[<<q, k>>] = "none"
  <2>1. veth[<<q, k>>] \notin {"half", "moved", "named"}
    BY <1>0, <1>3 DEF Pairs
  <2>2. veth[<<q, k>>] # "host"
    BY <1>0, Alone DEF NothingLoose, Active, Working, Building
  <2> QED
    BY <1>0, <2>1, <2>2
<1> SUFFICES ASSUME NEW s \in Stages, NEW x \in Work(s, lab[p]) PROVE Fresh(p, s, x)'
  BY <1>0 DEF AllAhead, Work
<1> QED
  BY <1>0, <1>3, <1>4, WorkElements DEF Fresh, Exists, kernel, Stages

LEMMA SmoothControl ==
  ASSUME SmoothInv, Smooth, faults' = 0, NEW p \in Procs,
         \/ Start(p) \/ Precheck(p) \/ Load(p) \/ Plan(p) \/ EndStage(p) \/ TruncateState(p) \/ WriteState(p)
  PROVE  Faultless(p)' /\ spoilt' = {}
<1>0. /\ TypeInv /\ BuildInv /\ LeftInv /\ lab' = lab /\ cmd' = cmd /\ lab[p] \in Labs
      /\ AllAhead(p) /\ Held(p) /\ NothingLoose(p) /\ Unfailed(p) /\ spoilt = {}
      /\ CommandOK(p)
  BY SmoothFacts DEF Step, Deploy, TearDown, SmoothInv, RegInv, OwnInv
<1>1. UNCHANGED kernel /\ pc[p] \notin {"moveA", "moveB"}
  BY DEF Start, Precheck, Load, Plan, EndStage, TruncateState, WriteState, After
<1>2. NothingLoose(p)'
  BY <1>0, <1>1, LooseKept DEF kernel
<1>3. ASSUME NEW s \in Stages, NEW x \in Work(s, lab[p]) PROVE Fresh(p, s, x)' <=> Fresh(p, s, x)
  BY <1>0, <1>1 DEF Fresh, kernel
<1>4. CASE Start(p)
  <2>1. pc'[p] \in {"precheck", "load"} /\ spoilt' = spoilt
    BY <1>0, <1>4, GotoHolds DEF Start, history
  <2> QED
    BY <1>0, <1>2, <2>1, NothingAhead DEF Faultless, Unfailed, Building, Teardown, StageNames
<1>5. CASE Precheck(p)
  <2>1. pc'[p] \in {"refused", "plan"} /\ spoilt' = spoilt
    BY <1>0, <1>5, GotoHolds DEF Precheck, history
  <2>2. AllAhead(p)' /\ Held(p)'
    BY <1>5, <2>1, SmoothAtStart, NothingAhead DEF Held, Building, StageNames
  <2> QED
    BY <1>0, <1>2, <2>1, <2>2 DEF Faultless, Unfailed, Teardown
<1>6. CASE Load(p)
  <2>1. pc[p] = "load" /\ pc'[p] \in {"refused", "tdnetem"} /\ spoilt' = spoilt
    BY <1>0, <1>6, GotoHolds DEF Load, history
  <2>2. cmd'[p] = "destroy"
    BY <1>0, <2>1 DEF CommandOK
  <2> QED
    BY <1>0, <1>2, <2>1, <2>2, NothingAhead DEF Faultless, Unfailed, Building, StageNames
<1>7. CASE Plan(p)
  <2>1. PICK o \in Outcomes : pc[p] = "plan" /\ Attempt(TRUE, o) /\ OrRollback(p, o, "nodes", Nodes) /\ cur' = cur
    BY <1>7 DEF Plan, Outcomes
  <2>2. o = "ok" /\ spoilt' = spoilt
    BY <1>0, <2>1, AttemptSucceeds
  <2>3. pc'[p] = "nodes"
    BY <1>0, <2>1, <2>2, RollbackHolds
  <2>4. \A s \in Stages : Place["plan"] < Place[s]
    BY DEF Place, Stages, StageNames
  <2>5. AllAhead(p)'
    <3> SUFFICES ASSUME NEW s \in Stages, NEW x \in Work(s, lab[p]) PROVE Fresh(p, s, x)'
      BY <1>0 DEF AllAhead, Work
    <3> QED
      BY <1>0, <1>3, <2>1, <2>4 DEF AllAhead, Ahead, Building
  <2> QED
    BY <1>0, <1>2, <2>2, <2>3, <2>5, StillUnfailed DEF Faultless, Held, Building
<1>8. CASE EndStage(p)
  <2>1. /\ pc[p] \in DOMAIN After /\ pc'[p] = After[pc[p]] /\ spoilt' = spoilt
    BY <1>0, <1>8, GotoHolds DEF EndStage, history
  <2>2. CASE pc[p] \in Teardown
    <3>1. pc'[p] \in Teardown
      BY <2>1, <2>2 DEF After, Teardown
    <3> QED
      BY <1>0, <1>2, <2>1, <2>2, <3>1, NothingAhead
      DEF Faultless, Unfailed, Building, Teardown, StageNames
  <2>3. CASE pc[p] \notin Teardown
    <3>1. /\ pc[p] \in Building /\ pc'[p] \in Building
          /\ pc'[p] \notin Holding
          /\ \A s \in Stages : Place[pc'[p]] < Place[s] \/ Place[pc'[p]] = Place[s] => Place[pc[p]] < Place[s]
      BY <2>1, <2>3 DEF After, Building, Teardown, StageNames, Holding, NodeSteps, LinkSteps, Place, Stages
    <3>2. AllAhead(p)'
      BY <1>0, <1>3, <3>1 DEF AllAhead, Ahead, Work
    <3> QED
      BY <1>0, <1>2, <2>1, <3>1, <3>2, StillUnfailed DEF Faultless, Held, Holding, NodeSteps, LinkSteps
  <2> QED
    BY <2>2, <2>3
<1>9. CASE TruncateState(p) \/ WriteState(p)
  <2>0. pc[p] \in PastDirs
    BY <1>9 DEF TruncateState, WriteState, PastDirs, Building
  <2>1. PICK o \in Outcomes :
          /\ Attempt(lab[p] \in labDir, o) \/ Attempt(TRUE, o)
          /\ OrRollback(p, o, "write", {}) \/ OrRollback(p, o, "ok", {})
          /\ cur' = cur
    BY <1>9 DEF TruncateState, WriteState, Outcomes
  <2>2. lab[p] \in labDir
    BY <1>0, <2>0 DEF LeftInv, ProcInv, DirsMade, HasDirs
  <2>3. o = "ok" /\ spoilt' = spoilt
    BY <1>0, <2>1, <2>2, AttemptSucceeds
  <2>4. pc'[p] \in {"write", "ok"}
    BY <1>0, <2>1, <2>3, RollbackHolds
  <2>5. AllAhead(p)'
    <3>1. \A s \in Stages : ~(Place["write"] < Place[s]) /\ Place["write"] # Place[s]
      BY DEF Place, Stages, StageNames
    <3> QED
      BY <2>4, <3>1, NothingAhead DEF AllAhead, Ahead, Building, StageNames
  <2> QED
    BY <1>0, <1>2, <2>3, <2>4, <2>5 DEF Faultless, Held, Unfailed, Teardown
<1> QED
  BY <1>4, <1>5, <1>6, <1>7, <1>8, <1>9

LEMMA SmoothTeardown ==
  ASSUME SmoothInv, Smooth, faults' = 0, NEW p \in Procs,
         \/ ClearNetem(p) \/ DeleteMgmtVeth(p) \/ DeleteMgmtBridge(p) \/ DeleteNamespace(p)
         \/ RemoveEntry(p) \/ RemoveLabDir(p)
  PROVE  Faultless(p)' /\ spoilt' = {}
<1>0. /\ TypeInv /\ LeftInv /\ lab' = lab /\ cmd' = cmd /\ lab[p] \in Labs /\ faults = 0
      /\ NothingLoose(p) /\ Unfailed(p) /\ spoilt = {} /\ Flow(p) /\ OtherProcs(p)
      /\ \A q \in Procs : Unfailed(q)
      /\ veth \in [Procs \X Links -> {"none", "host", "half", "moved", "named"}]
  BY SmoothFacts, StepFlows DEF Step, TearDown, SmoothInv, Faultless, Smooth
<1>1. spoilt' = {}
  BY <1>0 DEF Remove, ClearNetem, DeleteMgmtVeth, DeleteMgmtBridge, DeleteNamespace, RemoveEntry, RemoveLabDir
<1>2. pc[p] \in Teardown
  BY DEF Teardown, ClearNetem, DeleteMgmtVeth, DeleteMgmtBridge, DeleteNamespace, RemoveEntry, RemoveLabDir
<1>3. cmd[p] = "destroy"
  BY <1>0, <1>2 DEF Unfailed
<1>4. NothingLoose(p)'
  <2>1. \A k \in Links : veth'[<<p, k>>] \in {veth[<<p, k>>], "none"}
    BY DEF kernel, ClearNetem, DeleteMgmtVeth, DeleteMgmtBridge, DeleteNamespace, RemoveEntry, RemoveLabDir
  <2> QED
    BY <1>0, <1>2, <2>1, LooseKept DEF Teardown
<1>5. pc'[p] \in Teardown \cup {"ok"}
  <2>1. CASE ClearNetem(p) \/ DeleteMgmtVeth(p) \/ DeleteNamespace(p) \/ RemoveEntry(p)
    BY <1>2, <2>1 DEF ClearNetem, DeleteMgmtVeth, DeleteNamespace, RemoveEntry, Dropped
  <2>2. CASE RemoveLabDir(p)
    <3>1. Goto(p, "ok", {}) /\ cur' = cur
      BY <1>3, <2>2 DEF RemoveLabDir
    <3> QED
      BY <1>0, <3>1, GotoHolds
  <2>3. CASE DeleteMgmtBridge(p)
    <3>1. \E s \in {"failed", "tdbridge"} : Goto(p, s, {}) /\ cur' = cur
      BY <2>3 DEF DeleteMgmtBridge
    <3>2. pc'[p] \in {"failed", "tdbridge"}
      BY <1>0, <3>1, GotoHolds
    <3>3. ~Damaged(lab[p])'
      BY <1>0, <1>1, <3>2 DEF Damaged, OtherProcs, Unfailed
    <3> QED
      BY <2>3, <3>2, <3>3, BridgeFailureDamages DEF SmoothInv, Teardown
  <2> QED
    BY <2>1, <2>2, <2>3
<1> QED
  BY <1>0, <1>1, <1>3, <1>4, <1>5, NothingAhead DEF Faultless, Unfailed, Building, Teardown, StageNames

-----------------------------------------------------------------------------
(* The other processes have ended or not begun.                            *)
LEMMA SmoothOthers ==
  ASSUME SmoothInv, Smooth, NEW p \in Procs, Start(p) \/ Step(p), SameLab = FALSE, NEW q \in Procs \ {p}
  PROVE  Faultless(q)'
<1>0. /\ LeftInv /\ TypeInv /\ lab' = lab /\ cmd' = cmd /\ Faultless(q) /\ OtherProcs(p)
      /\ veth \in [Procs \X Links -> {"none", "host", "half", "moved", "named"}]
      /\ \A r \in Procs : lab[r] = lab[p]
  BY SmoothFacts DEF SmoothInv
<1>1. pc[q] \notin Active
  BY <1>0, StepIsActive, Alone DEF Start
<1>2. \A k \in Links : veth'[<<q, k>>] \in {veth[<<q, k>>], "none"}
  <2>1. CASE UNCHANGED <<netns, veth>>
    BY <2>1
  <2>2. CASE CreateNamespace(p) \/ DeleteNamespace(p)
    BY <2>2 DEF CreateNamespace, DeleteNamespace, kernel
  <2>3. CASE CreateVethPair(p) \/ MoveEndA(p) \/ MoveEndB(p) \/ ConfigureLink(p)
    <3>1. \E j, v : veth' = veth \/ veth' = [veth EXCEPT ![<<p, j>>] = v]
      BY <2>3 DEF CreateVethPair, MoveEndA, MoveEndB, ConfigureLink
    <3> QED
      BY <1>0, <3>1
  <2> QED
    BY <2>1, <2>2, <2>3, PairsTouched
<1>3. pc'[q] = pc[q] /\ pc[q] \notin Working
  BY <1>0, <1>1 DEF OtherProcs, Active
<1>4. NothingLoose(q)'
  BY <1>0, <1>2, <1>3, LooseKept DEF Faultless, Working, Building
<1> QED
  BY <1>0, <1>3, <1>4, NothingAhead DEF Faultless, Unfailed, Working

(* No management link stays in the host namespace.                         *)
LEMMA MgmtMovedKept ==
  ASSUME SmoothInv, Smooth, NEW p \in Procs, Start(p) \/ Step(p),
         ~(CreateMgmtPair(p) \/ MoveMgmtEnd(p) \/ ConfigureMgmtEnd(p))
  PROVE  MgmtMoved'
<1>0. /\ TypeInv /\ lab' = lab /\ MgmtMoved /\ OtherProcs(p)
      /\ mveth \in [LabNodes -> {"none", "host", "moved"}]
  BY SmoothFacts
<1>1. \A x \in LabNodes : mveth'[x] \in {mveth[x], "none"}
  <2>1. CASE DeleteMgmtVeth(p)
    <3>1. \E x : mveth' = mveth \/ mveth' = [mveth EXCEPT ![x] = "none"]
      BY <2>1 DEF DeleteMgmtVeth
    <3> QED
      BY <1>0, <3>1
  <2>2. CASE DeleteNamespace(p)
    <3>1. PICK n : mveth' = mveth \/ mveth' = [mveth EXCEPT ![On(p, n)] = IF @ = "moved" THEN "none" ELSE @]
      BY <2>2 DEF DeleteNamespace, kernel
    <3> QED
      BY <1>0, <3>1
  <2>3. CASE UNCHANGED mveth
    BY <2>3
  <2>4. UNCHANGED mveth \/ DeleteMgmtVeth(p) \/ DeleteNamespace(p)
    BY DEF kernel, Start, Step, Deploy, TearDown, EndStage, Precheck, Plan, EnsureLabDirs, CreateNamespace,
       EnsureLoopbackUp, CreateVethPair, MoveEndA, MoveEndB, ConfigureLink, ConfigureNode, WriteNodeEnvFile,
       CreateMgmtBridge, TruncateState, WriteState, Load, ClearNetem, DeleteMgmtBridge, RemoveEntry, RemoveLabDir
  <2> QED
    BY <2>1, <2>2, <2>3, <2>4
<1>2. pc[p] # "mgmtmove"
  BY DEF Start, Step, Deploy, TearDown, EndStage, After, Precheck, Plan, EnsureLabDirs, CreateNamespace,
     EnsureLoopbackUp, CreateVethPair, MoveEndA, MoveEndB, ConfigureLink, ConfigureNode, ConfStages, StageNames,
     WriteNodeEnvFile, CreateMgmtBridge, TruncateState, WriteState, Load, ClearNetem, DeleteMgmtVeth,
     DeleteMgmtBridge, DeleteNamespace, RemoveEntry, RemoveLabDir
<1> SUFFICES ASSUME NEW x \in LabNodes, mveth'[x] = "host"
             PROVE  \E q \in Procs : pc'[q] = "mgmtmove" /\ x = <<lab[q], cur'[q]>>
  BY <1>0 DEF MgmtMoved
<1>3. PICK q \in Procs : pc[q] = "mgmtmove" /\ x = <<lab[q], cur[q]>>
  BY <1>0, <1>1 DEF MgmtMoved
<1> QED
  BY <1>0, <1>2, <1>3 DEF OtherProcs

LEMMA SmoothNext ==
  SameLab = FALSE /\ (MgmtEnabled => ~HostEth0) /\ SmoothInv /\ [Next]_vars => SmoothInv'
<1> SUFFICES ASSUME SameLab = FALSE, MgmtEnabled => ~HostEth0, SmoothInv, [Next]_vars PROVE SmoothInv'
  OBVIOUS
<1>0. RegInv' /\ faults \in Nat
  BY RegInvNext, ConstantsOK DEF SmoothInv, RegInv, BuildInv, LeftInv, TypeInv, DataOK
<1> SUFFICES ASSUME Smooth' PROVE spoilt' = {} /\ MgmtMoved' /\ \A p \in Procs : Faultless(p)'
  BY <1>0 DEF SmoothInv
<1>1. CASE UNCHANGED vars
  <2>1. UNCHANGED <<pc, cmd, lab, todo, cur, netns, veth, bridge, mveth, spoilt, faults>>
    BY <1>1 DEF vars, procVars, kernel, history
  <2>2. Smooth /\ \A p \in Procs : AllAhead(p)' <=> AllAhead(p)
    BY <2>1 DEF Smooth, AllAhead, Ahead, Fresh, Work
  <2> QED
    BY <2>1, <2>2 DEF SmoothInv, MgmtMoved, Faultless, Held, OnlyPair, NothingLoose, Unfailed
<1>2. ASSUME NEW p \in Procs, Start(p) \/ Step(p) \/ Kill(p)
      PROVE  spoilt' = {} /\ MgmtMoved' /\ \A q \in Procs : Faultless(q)'
  <2>0. lab' = lab /\ faults' = 0
    BY <1>2, StepElsewhere DEF SmoothInv, RegInv, BuildInv, LeftInv, Elsewhere, procVars, Smooth
  <2>1. Smooth /\ ~Kill(p)
    <3>1. faults' = faults \/ faults' = faults + 1
      BY <1>2 DEF Start, Step, Kill, history, Attempt, Remove, Outcome, Deploy, TearDown, EndStage, Precheck, Plan, EnsureLabDirs,
         CreateNamespace, EnsureLoopbackUp, CreateVethPair, MoveEndA, MoveEndB, ConfigureLink, ConfigureNode,
         WriteNodeEnvFile, CreateMgmtBridge, CreateMgmtPair, MoveMgmtEnd, ConfigureMgmtEnd, TruncateState,
         WriteState, Load, ClearNetem, DeleteMgmtVeth, DeleteMgmtBridge, DeleteNamespace, RemoveEntry, RemoveLabDir
    <3>2. faults = 0
      BY <1>0, <2>0, <3>1
    <3> QED
      BY <2>0, <3>2 DEF Smooth, Kill
  <2>2. Faultless(p)' /\ spoilt' = {}
    BY <1>2, <2>0, <2>1, SmoothNodes, SmoothLinks, SmoothStages, SmoothMgmt, SmoothControl, SmoothTeardown
    DEF Step, Deploy, TearDown
  <2>3. MgmtMoved'
    BY <1>2, <2>0, <2>1, SmoothMgmt, MgmtMovedKept
  <2>4. \A q \in Procs : Faultless(q)'
    BY <1>2, <2>1, <2>2, SmoothOthers
  <2> QED
    BY <2>2, <2>3, <2>4
<1> QED
  BY <1>1, <1>2 DEF Next

(* On a host with one lab, whose deploys and destroys do not overlap, no   *)
(* command fails of itself: none finds anything in its way that an earlier *)
(* one left, or misses anything that an earlier step of it should have     *)
(* made.  With a management network the host must not have an eth0.        *)
THEOREM FaultFreeCommandsSucceed ==
  ASSUME SameLab = FALSE, MgmtEnabled => ~HostEth0
  PROVE  Spec => []FaultFreeNeverFails
<1>1. Init => SmoothInv
  <2> SUFFICES ASSUME Init PROVE SmoothInv
    OBVIOUS
  <2>1. RegInv /\ spoilt = {} /\ \A p \in Procs : pc[p] = "idle"
    BY RegInvInit DEF Init
  <2>2. MgmtMoved /\ \A p \in Procs : NothingLoose(p)
    BY DEF Init, MgmtMoved, NothingLoose
  <2>3. \A p \in Procs : AllAhead(p) /\ Held(p) /\ Unfailed(p)
    BY <2>1 DEF AllAhead, Ahead, Held, Unfailed, Building, Teardown, StageNames
  <2> QED
    BY <2>1, <2>2, <2>3 DEF SmoothInv, Faultless
<1>2. SmoothInv /\ [Next]_vars => SmoothInv'
  BY SmoothNext
<1>3. SmoothInv => FaultFreeNeverFails
  BY DEF SmoothInv, Smooth, Faultless, Unfailed, FaultFreeNeverFails
<1> QED
  BY <1>1, <1>2, <1>3, PTL DEF Spec
=============================================================================
