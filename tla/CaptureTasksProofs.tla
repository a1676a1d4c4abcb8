------------------------- MODULE CaptureTasksProofs -------------------------
(***************************************************************************)
(* Safety of CaptureTasks for any number of requests, nodes and restarts.  *)
(***************************************************************************)
EXTENDS CaptureTasks, TLAPS

(* A handler that starts or stops a capture holds its task; a starting one *)
(* has not crossed the node off its list.                                  *)
HeldTasks ==
  \A r \in Requests :
    /\ pc[r] = "signal" => cur[r] \in Tasks
    /\ pc[r] \in {"launch", "store"} =>
         cur[r] \in Tasks /\ cur[r][1] = r /\ cur[r][2] \in todo[r]

(* A node that a request has not done yet has no capture by that request.  *)
FreshTasks ==
  \A r \in Requests, n \in Nodes :
    pc[r] = "idle" \/ n \in todo[r] => waiter[<<r, n>>] = "none"

(* The goroutine removes an entry only after it reaped the process.        *)
RemovingIsReaped == \A t \in Tasks : waiter[t] = "removing" => proc[t] = "reaped"

(* While a start is between its check and its store, it is alone and the   *)
(* node has no entry, unless starts overlapped there.                      *)
StartsAlone ==
  \A r \in Requests, n \in Nodes \ overlapped :
    restarts = 0 /\ pc[r] \in {"launch", "store"} /\ cur[r] = <<r, n>> =>
      /\ captureTasks[n] = NoTask
      /\ \A q \in Requests : pc[q] \in {"launch", "store"} /\ cur[q] = <<q, n>> => q = r

-----------------------------------------------------------------------------
(* Every reachable state has the declared types: a handler that starts or  *)
(* stops a capture always holds a task.                                    *)
TypeInv == TypeOK /\ HeldTasks

LEMMA TypeInvInit == Init => TypeInv
  BY ConstantsOK DEF Init, TypeInv, TypeOK, HeldTasks

LEMMA TypeInvNext == TypeInv /\ [Next]_vars => TypeInv'
<1> SUFFICES ASSUME TypeInv, [Next]_vars PROVE TypeInv'
  OBVIOUS
<1> USE ConstantsOK DEF TypeInv, TypeOK, HeldTasks, history, reqVars
<1>1. ASSUME NEW r \in Requests, Receive(r) PROVE TypeInv'
  BY <1>1 DEF Receive
<1>2. ASSUME NEW r \in Requests, CheckRunning(r) PROVE TypeInv'
  BY <1>2 DEF CheckRunning, Report, Enter, Tasks
<1>3. ASSUME NEW r \in Requests, Launch(r) PROVE TypeInv'
  BY <1>3 DEF Launch, Report, Enter
<1>4. ASSUME NEW r \in Requests, Store(r) PROVE TypeInv'
  BY <1>4 DEF Store, Report
<1>5. ASSUME NEW r \in Requests, RemoveEntry(r) PROVE TypeInv'
  BY <1>5 DEF RemoveEntry, Report, Enter
<1>6. ASSUME NEW r \in Requests, Signal(r) PROVE TypeInv'
  BY <1>6 DEF Signal, Report
<1>7. ASSUME NEW r \in Requests, Respond(r) PROVE TypeInv'
  BY <1>7 DEF Respond
<1>8. ASSUME NEW t \in Tasks, Exit(t) PROVE TypeInv'
  BY <1>8 DEF Exit
<1>9. ASSUME NEW t \in Tasks, Reap(t) PROVE TypeInv'
  BY <1>9 DEF Reap
<1>10. ASSUME NEW t \in Tasks, Forget(t) PROVE TypeInv'
  BY <1>10 DEF Forget
<1>11. CASE Restart
  BY <1>11 DEF Restart, Active
<1>12. CASE UNCHANGED vars
  BY <1>12 DEF vars
<1> QED
  BY <1>1, <1>2, <1>3, <1>4, <1>5, <1>6, <1>7, <1>8, <1>9, <1>10, <1>11, <1>12
  DEF Next, Handle

(* TypeOK, for the whole component.                                        *)
THEOREM TypeCorrect == Spec => []TypeOK
<1>1. TypeInv => TypeOK
  BY DEF TypeInv
<1> QED
  BY TypeInvInit, TypeInvNext, <1>1, PTL DEF Spec

-----------------------------------------------------------------------------
(* Every entry of the map has a goroutine that has yet to look at it.      *)
TrackInv == TypeInv /\ TrackedHasWaiter

LEMMA TrackInvNext == TrackInv /\ [Next]_vars => TrackInv'
<1> SUFFICES ASSUME TrackInv, [Next]_vars PROVE TrackedHasWaiter'
  BY TypeInvNext DEF TrackInv
<1> USE ConstantsOK DEF TrackInv, TypeInv, TypeOK, HeldTasks, TrackedHasWaiter, history, reqVars
<1>1. ASSUME NEW r \in Requests, Receive(r) PROVE TrackedHasWaiter'
  BY <1>1 DEF Receive
<1>2. ASSUME NEW r \in Requests, CheckRunning(r) PROVE TrackedHasWaiter'
  BY <1>2 DEF CheckRunning, Report, Enter
<1>3. ASSUME NEW r \in Requests, Launch(r) PROVE TrackedHasWaiter'
  BY <1>3 DEF Launch, Report, Enter
<1>4. ASSUME NEW r \in Requests, Store(r) PROVE TrackedHasWaiter'
  BY <1>4 DEF Store, Report
<1>5. ASSUME NEW r \in Requests, RemoveEntry(r) PROVE TrackedHasWaiter'
  BY <1>5 DEF RemoveEntry, Report, Enter
<1>6. ASSUME NEW r \in Requests, Signal(r) PROVE TrackedHasWaiter'
  BY <1>6 DEF Signal, Report
<1>7. ASSUME NEW r \in Requests, Respond(r) PROVE TrackedHasWaiter'
  BY <1>7 DEF Respond
<1>8. ASSUME NEW t \in Tasks, Exit(t) PROVE TrackedHasWaiter'
  BY <1>8 DEF Exit
<1>9. ASSUME NEW t \in Tasks, Reap(t) PROVE TrackedHasWaiter'
  BY <1>9 DEF Reap
<1>10. ASSUME NEW t \in Tasks, Forget(t) PROVE TrackedHasWaiter'
  BY <1>10 DEF Forget
<1>11. CASE Restart
  BY <1>11 DEF Restart, Active
<1>12. CASE UNCHANGED vars
  BY <1>12 DEF vars
<1> QED
  BY <1>1, <1>2, <1>3, <1>4, <1>5, <1>6, <1>7, <1>8, <1>9, <1>10, <1>11, <1>12
  DEF Next, Handle

(* TrackedHasWaiter holds with any number of overlapping starts and        *)
(* restarts.                                                               *)
THEOREM EntriesHaveWaiters == Spec => []TrackedHasWaiter
<1>1. Init => TrackInv
  BY TypeInvInit DEF Init, TrackInv, TrackedHasWaiter
<1>2. TrackInv => TrackedHasWaiter
  BY DEF TrackInv
<1> QED
  BY <1>1, TrackInvNext, <1>2, PTL DEF Spec

-----------------------------------------------------------------------------
(* The inductive invariant for RunningIsTracked.                           *)
LostInv == TypeInv /\ FreshTasks /\ RemovingIsReaped /\ StartsAlone /\ RunningIsTracked

LEMMA FreshNext == TypeInv /\ FreshTasks /\ [Next]_vars => FreshTasks'
<1> SUFFICES ASSUME TypeInv, FreshTasks, [Next]_vars PROVE FreshTasks'
  OBVIOUS
<1> USE ConstantsOK DEF TypeInv, TypeOK, HeldTasks, FreshTasks, Tasks, history, reqVars
<1>1. ASSUME NEW r \in Requests, Receive(r) PROVE FreshTasks'
  BY <1>1 DEF Receive
<1>2. ASSUME NEW r \in Requests, CheckRunning(r) PROVE FreshTasks'
  BY <1>2 DEF CheckRunning, Report, Enter
<1>3. ASSUME NEW r \in Requests, Launch(r) PROVE FreshTasks'
  BY <1>3 DEF Launch, Report, Enter
<1>4. ASSUME NEW r \in Requests, Store(r) PROVE FreshTasks'
  BY <1>4 DEF Store, Report
<1>5. ASSUME NEW r \in Requests, RemoveEntry(r) PROVE FreshTasks'
  BY <1>5 DEF RemoveEntry, Report, Enter
<1>6. ASSUME NEW r \in Requests, Signal(r) PROVE FreshTasks'
  BY <1>6 DEF Signal, Report
<1>7. ASSUME NEW r \in Requests, Respond(r) PROVE FreshTasks'
  BY <1>7 DEF Respond
<1>8. ASSUME NEW t \in Tasks, Exit(t) PROVE FreshTasks'
  BY <1>8 DEF Exit
<1>9. ASSUME NEW t \in Tasks, Reap(t) PROVE FreshTasks'
  BY <1>9 DEF Reap
<1>10. ASSUME NEW t \in Tasks, Forget(t) PROVE FreshTasks'
  BY <1>10 DEF Forget
<1>11. CASE Restart
  BY <1>11 DEF Restart, Active
<1>12. CASE UNCHANGED vars
  BY <1>12 DEF vars
<1> QED
  BY <1>1, <1>2, <1>3, <1>4, <1>5, <1>6, <1>7, <1>8, <1>9, <1>10, <1>11, <1>12
  DEF Next, Handle

LEMMA ReapedNext ==
  TypeInv /\ FreshTasks /\ RemovingIsReaped /\ [Next]_vars => RemovingIsReaped'
<1> SUFFICES ASSUME TypeInv, FreshTasks, RemovingIsReaped, [Next]_vars PROVE RemovingIsReaped'
  OBVIOUS
<1> USE ConstantsOK DEF TypeInv, TypeOK, HeldTasks, FreshTasks, RemovingIsReaped, Tasks, history, reqVars
<1>1. ASSUME NEW r \in Requests, Receive(r) PROVE RemovingIsReaped'
  BY <1>1 DEF Receive
<1>2. ASSUME NEW r \in Requests, CheckRunning(r) PROVE RemovingIsReaped'
  BY <1>2 DEF CheckRunning, Report, Enter
<1>3. ASSUME NEW r \in Requests, Launch(r) PROVE RemovingIsReaped'
  BY <1>3 DEF Launch, Report, Enter
<1>4. ASSUME NEW r \in Requests, Store(r) PROVE RemovingIsReaped'
  BY <1>4 DEF Store, Report
<1>5. ASSUME NEW r \in Requests, RemoveEntry(r) PROVE RemovingIsReaped'
  BY <1>5 DEF RemoveEntry, Report, Enter
<1>6. ASSUME NEW r \in Requests, Signal(r) PROVE RemovingIsReaped'
  BY <1>6 DEF Signal, Report
<1>7. ASSUME NEW r \in Requests, Respond(r) PROVE RemovingIsReaped'
  BY <1>7 DEF Respond
<1>8. ASSUME NEW t \in Tasks, Exit(t) PROVE RemovingIsReaped'
  BY <1>8 DEF Exit
<1>9. ASSUME NEW t \in Tasks, Reap(t) PROVE RemovingIsReaped'
  BY <1>9 DEF Reap
<1>10. ASSUME NEW t \in Tasks, Forget(t) PROVE RemovingIsReaped'
  BY <1>10 DEF Forget
<1>11. CASE Restart
  BY <1>11 DEF Restart, Active
<1>12. CASE UNCHANGED vars
  BY <1>12 DEF vars
<1> QED
  BY <1>1, <1>2, <1>3, <1>4, <1>5, <1>6, <1>7, <1>8, <1>9, <1>10, <1>11, <1>12
  DEF Next, Handle

(* A step that starts nothing and tracks nothing new.                      *)
LEMMA AloneKept ==
  ASSUME StartsAlone, UNCHANGED history,
         \A q \in Requests : pc'[q] \in {"launch", "store"} =>
           pc[q] \in {"launch", "store"} /\ cur'[q] = cur[q],
         \A n \in Nodes : captureTasks[n] = NoTask => captureTasks'[n] = NoTask
  PROVE  StartsAlone'
BY DEF StartsAlone, history

LEMMA AloneNext == TypeInv /\ StartsAlone /\ [Next]_vars => StartsAlone'
<1> SUFFICES ASSUME TypeInv, StartsAlone, [Next]_vars PROVE StartsAlone'
  OBVIOUS
<1> USE ConstantsOK DEF TypeInv, TypeOK, HeldTasks, StartsAlone, Starting, Tasks, history, reqVars
<1>1. ASSUME NEW r \in Requests, Receive(r) PROVE StartsAlone'
  BY <1>1 DEF Receive
<1>2. ASSUME NEW r \in Requests, CheckRunning(r) PROVE StartsAlone'
  <2>1. PICK n \in todo[r] :
          /\ pc[r] = "next" /\ UNCHANGED <<captureTasks, restarts>>
          /\ \/ Report(r, n) /\ UNCHANGED overlapped
             \/ /\ captureTasks[n] = NoTask /\ Enter(r, "launch", <<r, n>>)
                /\ overlapped' = IF Starting(n) THEN overlapped \cup {n} ELSE overlapped
    BY <1>2 DEF CheckRunning
  <2>2. CASE Report(r, n) /\ UNCHANGED overlapped
    BY <2>1, <2>2 DEF Report
  <2>3. CASE /\ captureTasks[n] = NoTask /\ Enter(r, "launch", <<r, n>>)
             /\ overlapped' = IF Starting(n) THEN overlapped \cup {n} ELSE overlapped
    <3> SUFFICES ASSUME NEW p \in Requests, NEW m \in Nodes \ overlapped', restarts = 0,
                        pc'[p] \in {"launch", "store"}, cur'[p] = <<p, m>>
                 PROVE /\ captureTasks[m] = NoTask
                       /\ \A q \in Requests :
                            pc'[q] \in {"launch", "store"} /\ cur'[q] = <<q, m>> => q = p
      BY <2>1
    <3>1. /\ pc' = [pc EXCEPT ![r] = "launch"] /\ cur' = [cur EXCEPT ![r] = <<r, n>>]
          /\ n \in Nodes
      BY <2>1, <2>3 DEF Enter
    <3>2. CASE m = n
      <4>1. ~Starting(n)
        BY <2>3, <3>2
      <4> QED
        <5>1. \A q \in Requests \ {r} : pc'[q] = pc[q] /\ cur'[q] = cur[q]
          BY <3>1
        <5>2. \A q \in Requests \ {r} : ~(pc'[q] \in {"launch", "store"} /\ cur'[q] = <<q, n>>)
          BY <5>1, <4>1
        <5> QED
          BY <3>2, <5>2, <2>3
    <3>3. CASE m # n
      <4>1. p # r /\ pc[p] \in {"launch", "store"} /\ cur[p] = <<p, m>> /\ m \notin overlapped
        BY <3>1, <3>3, <2>3
      <4>2. \A q \in Requests : pc'[q] \in {"launch", "store"} /\ cur'[q] = <<q, m>> =>
              pc[q] \in {"launch", "store"} /\ cur[q] = <<q, m>>
        BY <3>1, <3>3
      <4> QED
        BY <4>1, <4>2
    <3> QED
      BY <3>2, <3>3
  <2> QED
    BY <2>1, <2>2, <2>3
<1>3. ASSUME NEW r \in Requests, Launch(r) PROVE StartsAlone'
  <2>1. UNCHANGED <<captureTasks, overlapped, restarts>>
    BY <1>3 DEF Launch
  <2>2. \A q \in Requests : pc'[q] \in {"launch", "store"} =>
          pc[q] \in {"launch", "store"} /\ cur'[q] = cur[q]
    BY <1>3 DEF Launch, Report, Enter
  <2> QED
    BY <2>1, <2>2, AloneKept
<1>4. ASSUME NEW r \in Requests, Store(r) PROVE StartsAlone'
  <2> SUFFICES ASSUME NEW p \in Requests, NEW m \in Nodes \ overlapped, restarts = 0,
                      pc'[p] \in {"launch", "store"}, cur'[p] = <<p, m>>
               PROVE  /\ captureTasks'[m] = NoTask
                      /\ \A q \in Requests :
                           pc'[q] \in {"launch", "store"} /\ cur'[q] = <<q, m>> => q = p
    BY <1>4 DEF Store
  <2>1. /\ pc[r] = "store" /\ pc' = [pc EXCEPT ![r] = "next"] /\ cur' = [cur EXCEPT ![r] = NoTask]
        /\ captureTasks' = [captureTasks EXCEPT ![cur[r][2]] = cur[r]]
    BY <1>4 DEF Store, Report
  <2>2. p # r /\ pc[p] \in {"launch", "store"} /\ cur[p] = <<p, m>>
    BY <2>1
  <2>3. cur[r][2] # m
    <3>1. cur[r] = <<r, cur[r][2]>>
      BY <2>1
    <3> QED
      BY <2>1, <2>2, <3>1
  <2>4. captureTasks'[m] = NoTask
    BY <2>1, <2>2, <2>3
  <2>5. \A q \in Requests : pc'[q] \in {"launch", "store"} /\ cur'[q] = <<q, m>> => q = p
    BY <2>1, <2>2
  <2> QED
    BY <2>4, <2>5
<1>5. ASSUME NEW r \in Requests, RemoveEntry(r) PROVE StartsAlone'
  <2>1. PICK n \in todo[r] :
          /\ captureTasks' = [captureTasks EXCEPT ![n] = NoTask] /\ UNCHANGED history
          /\ Report(r, n) \/ Enter(r, "signal", captureTasks[n])
    BY <1>5 DEF RemoveEntry
  <2>2. \A q \in Requests : pc'[q] \in {"launch", "store"} =>
          pc[q] \in {"launch", "store"} /\ cur'[q] = cur[q]
    BY <2>1 DEF Report, Enter
  <2>3. \A m \in Nodes : captureTasks[m] = NoTask => captureTasks'[m] = NoTask
    BY <2>1
  <2> QED
    BY <2>1, <2>2, <2>3, AloneKept
<1>6. ASSUME NEW r \in Requests, Signal(r) PROVE StartsAlone'
  BY <1>6 DEF Signal, Report
<1>7. ASSUME NEW r \in Requests, Respond(r) PROVE StartsAlone'
  BY <1>7 DEF Respond
<1>8. ASSUME NEW t \in Tasks, Exit(t) PROVE StartsAlone'
  BY <1>8 DEF Exit
<1>9. ASSUME NEW t \in Tasks, Reap(t) PROVE StartsAlone'
  BY <1>9 DEF Reap
<1>10. ASSUME NEW t \in Tasks, Forget(t) PROVE StartsAlone'
  BY <1>10 DEF Forget
<1>11. CASE Restart
  BY <1>11 DEF Restart, Active
<1>12. CASE UNCHANGED vars
  BY <1>12 DEF vars
<1> QED
  BY <1>1, <1>2, <1>3, <1>4, <1>5, <1>6, <1>7, <1>8, <1>9, <1>10, <1>11, <1>12
  DEF Next, Handle

LEMMA TrackedNext == LostInv /\ [Next]_vars => RunningIsTracked'
<1> SUFFICES ASSUME LostInv, [Next]_vars PROVE RunningIsTracked'
  OBVIOUS
<1> USE ConstantsOK DEF LostInv, TypeInv, TypeOK, HeldTasks, StartsAlone, RemovingIsReaped,
      RunningIsTracked, Tasks, history, reqVars
<1>1. ASSUME NEW r \in Requests, Receive(r) PROVE RunningIsTracked'
  BY <1>1 DEF Receive
<1>2. ASSUME NEW r \in Requests, CheckRunning(r) PROVE RunningIsTracked'
  BY <1>2 DEF CheckRunning, Report, Enter
<1>3. ASSUME NEW r \in Requests, Launch(r) PROVE RunningIsTracked'
  BY <1>3 DEF Launch, Report, Enter
<1>4. ASSUME NEW r \in Requests, Store(r) PROVE RunningIsTracked'
  BY <1>4 DEF Store, Report
<1>5. ASSUME NEW r \in Requests, RemoveEntry(r) PROVE RunningIsTracked'
  BY <1>5 DEF RemoveEntry, Report, Enter
<1>6. ASSUME NEW r \in Requests, Signal(r) PROVE RunningIsTracked'
  BY <1>6 DEF Signal, Report
<1>7. ASSUME NEW r \in Requests, Respond(r) PROVE RunningIsTracked'
  BY <1>7 DEF Respond
<1>8. ASSUME NEW t \in Tasks, Exit(t) PROVE RunningIsTracked'
  BY <1>8 DEF Exit
<1>9. ASSUME NEW t \in Tasks, Reap(t) PROVE RunningIsTracked'
  BY <1>9 DEF Reap
<1>10. ASSUME NEW t \in Tasks, Forget(t) PROVE RunningIsTracked'
  BY <1>10 DEF Forget
<1>11. CASE Restart
  BY <1>11 DEF Restart, Active
<1>12. CASE UNCHANGED vars
  BY <1>12 DEF vars
<1> QED
  BY <1>1, <1>2, <1>3, <1>4, <1>5, <1>6, <1>7, <1>8, <1>9, <1>10, <1>11, <1>12
  DEF Next, Handle

(* RunningIsTracked: on a node where no two starts overlapped, no running  *)
(* tcpdump is lost, whatever stops and exits come in between.              *)
THEOREM NoCaptureLost == Spec => []RunningIsTracked
<1>1. Init => LostInv
  BY TypeInvInit DEF Init, LostInv, FreshTasks, RemovingIsReaped, StartsAlone, RunningIsTracked, Tasks
<1>2. LostInv /\ [Next]_vars => LostInv'
  BY TypeInvNext, FreshNext, ReapedNext, AloneNext, TrackedNext DEF LostInv
<1>3. LostInv => RunningIsTracked
  BY DEF LostInv
<1> QED
  BY <1>1, <1>2, <1>3, PTL DEF Spec
=============================================================================
