---------------------------- MODULE CaptureTasks ----------------------------
(***************************************************************************)
(* The packet captures of the UI server (internal/ui/batch_capture.go):    *)
(* HTTP handlers that start and stop one tcpdump per node, the map         *)
(* captureTasks that remembers the running ones, and for each of them a    *)
(* goroutine that waits for its exit.  captureMu protects the map, not the *)
(* steps between two uses of it.                                           *)
(***************************************************************************)
EXTENDS Naturals

CONSTANTS
  Requests,      \* HTTP requests, each served once by a goroutine of its own
  Nodes,         \* the nodes of the lab
  NoTask,        \* an absent map entry
  MaxRestarts    \* bound on the number of restarts of the server

(* A request starts at most one tcpdump for a node: the two name the task. *)
Tasks == Requests \X Nodes

ASSUME ConstantsOK ==
  /\ NoTask \notin Tasks
  /\ MaxRestarts \in Nat

VARIABLES
  kind,         \* start or stop, chosen when the request comes in
  pc, todo,     \* per request: where it is, and the nodes it has not done
  cur,          \* per request: the task it is starting or stopping
  captureTasks, \* per node: the task the server knows to be running
  proc,         \* per task: its tcpdump
  signalled,    \* the tasks whose tcpdump got an interrupt
  waiter,       \* per task: its waiting goroutine
  restarts,
  overlapped    \* history: the nodes two starts worked on at the same time

reqVars == <<kind, pc, todo, cur>>
history == <<restarts, overlapped>>
vars == <<reqVars, captureTasks, proc, signalled, waiter, history>>

TypeOK ==
  /\ kind \in [Requests -> {"start", "stop"}]
  /\ pc \in [Requests -> {"idle", "next", "launch", "store", "signal", "done"}]
  /\ todo \in [Requests -> SUBSET Nodes]
  /\ cur \in [Requests -> Tasks \cup {NoTask}]
  /\ captureTasks \in [Nodes -> Tasks \cup {NoTask}]
  /\ proc \in [Tasks -> {"none", "running", "exited", "reaped"}]
  /\ signalled \subseteq Tasks
  /\ waiter \in [Tasks -> {"none", "waiting", "removing", "done"}]
  /\ restarts \in 0 .. MaxRestarts
  /\ overlapped \subseteq Nodes

Init ==
  /\ kind \in [Requests -> {"start", "stop"}]
  /\ pc = [r \in Requests |-> "idle"]
  /\ todo = [r \in Requests |-> {}]
  /\ cur = [r \in Requests |-> NoTask]
  /\ captureTasks = [n \in Nodes |-> NoTask]
  /\ proc = [t \in Tasks |-> "none"]
  /\ signalled = {}
  /\ waiter = [t \in Tasks |-> "none"]
  /\ restarts = 0
  /\ overlapped = {}

-----------------------------------------------------------------------------
Active(r) == pc[r] \notin {"idle", "done"}

(* validateBatchNodes: a request for no node, or of a lab or node that is  *)
(* not deployed, is rejected.                                              *)
Receive(r) == \E ns \in SUBSET Nodes :
  /\ pc[r] = "idle"
  /\ pc' = [pc EXCEPT ![r] = IF ns = {} THEN "done" ELSE "next"]
  /\ todo' = [todo EXCEPT ![r] = ns]
  /\ UNCHANGED <<kind, cur, captureTasks, proc, signalled, waiter, history>>

(* Mutant of Enter: the node is remembered instead of the task.            *)
EnterByNode(r, s, t) ==
  /\ pc' = [pc EXCEPT ![r] = s]
  /\ cur' = [cur EXCEPT ![r] = t[2]]
  /\ UNCHANGED <<kind, todo>>

(* The request goes on to step s with task t.                              *)
Enter(r, s, t) ==
  /\ pc' = [pc EXCEPT ![r] = s]
  /\ cur' = [cur EXCEPT ![r] = t]
  /\ UNCHANGED <<kind, todo>>

(* It has a result for node n.                                             *)
Report(r, n) ==
  /\ pc' = [pc EXCEPT ![r] = "next"]
  /\ todo' = [todo EXCEPT ![r] = @ \ {n}]
  /\ cur' = [cur EXCEPT ![r] = NoTask]
  /\ UNCHANGED kind

Respond(r) ==
  /\ pc[r] = "next" /\ todo[r] = {}
  /\ pc' = [pc EXCEPT ![r] = "done"]
  /\ UNCHANGED <<kind, todo, cur, captureTasks, proc, signalled, waiter, history>>

(* Is a start for node n between its check and its store?                  *)
Starting(n) == \E r \in Requests : pc[r] \in {"launch", "store"} /\ cur[r] = <<r, n>>

(* startCaptureForNode: the check, under the lock, for a running capture.  *)
CheckRunning(r) == \E n \in todo[r] :
  /\ pc[r] = "next" /\ kind[r] = "start"
  /\ IF captureTasks[n] # NoTask
     THEN Report(r, n) /\ UNCHANGED overlapped
     ELSE /\ Enter(r, "launch", <<r, n>>)
          /\ overlapped' = IF Starting(n) THEN overlapped \cup {n} ELSE overlapped
  /\ UNCHANGED <<captureTasks, proc, signalled, waiter, restarts>>

(* Reading the node's environment or starting tcpdump may fail.            *)
Launch(r) == LET t == cur[r] IN
  /\ pc[r] = "launch"
  /\ \/ Report(r, t[2]) /\ UNCHANGED proc
     \/ Enter(r, "store", t) /\ proc' = [proc EXCEPT ![t] = "running"]
  /\ UNCHANGED <<captureTasks, signalled, waiter, history>>

(* Mutant of Store: nobody waits for the process.                          *)
StoreWithoutWaiter(r) == LET t == cur[r] IN
  /\ pc[r] = "store"
  /\ captureTasks' = [captureTasks EXCEPT ![t[2]] = t]
  /\ Report(r, t[2])
  /\ UNCHANGED <<proc, signalled, waiter, history>>

(* The lock is taken again, and the waiting goroutine started.             *)
Store(r) == LET t == cur[r] IN
  /\ pc[r] = "store"
  /\ captureTasks' = [captureTasks EXCEPT ![t[2]] = t]
  /\ waiter' = [waiter EXCEPT ![t] = "waiting"]
  /\ Report(r, t[2])
  /\ UNCHANGED <<proc, signalled, history>>

(* stopCaptureForNode: the entry is removed first, under the lock.         *)
RemoveEntry(r) == \E n \in todo[r] :
  /\ pc[r] = "next" /\ kind[r] = "stop"
  /\ captureTasks' = [captureTasks EXCEPT ![n] = NoTask]
  /\ IF captureTasks[n] = NoTask THEN Report(r, n) ELSE Enter(r, "signal", captureTasks[n])
  /\ UNCHANGED <<proc, signalled, waiter, history>>

(* Mutant of Signal: the map is asked again, after the entry was removed.  *)
SignalIfTracked(r) == LET t == cur[r] IN
  /\ pc[r] = "signal"
  /\ signalled' = IF captureTasks[t[2]] = t THEN signalled \cup {t} ELSE signalled
  /\ Report(r, t[2])
  /\ UNCHANGED <<captureTasks, proc, waiter, history>>

(* The interrupt, which reaches any process that has not been reaped.      *)
Signal(r) == LET t == cur[r] IN
  /\ pc[r] = "signal"
  /\ signalled' = IF proc[t] = "reaped" THEN signalled ELSE signalled \cup {t}
  /\ Report(r, t[2])
  /\ UNCHANGED <<captureTasks, proc, waiter, history>>

(* tcpdump ends: interrupted, after -c packets, or by an error of its own. *)
Exit(t) ==
  /\ proc[t] = "running"
  /\ proc' = [proc EXCEPT ![t] = "exited"]
  /\ UNCHANGED <<reqVars, captureTasks, signalled, waiter, history>>

(* cmd.Wait returns in the waiting goroutine.                              *)
Reap(t) ==
  /\ waiter[t] = "waiting" /\ proc[t] = "exited"
  /\ proc' = [proc EXCEPT ![t] = "reaped"]
  /\ waiter' = [waiter EXCEPT ![t] = "removing"]
  /\ UNCHANGED <<reqVars, captureTasks, signalled, history>>

(* Mutants of Forget: it deletes the entry of whoever is there now, or     *)
(* only that of a capture that was stopped.                                *)
ForgetAny(t) ==
  /\ waiter[t] = "removing"
  /\ waiter' = [waiter EXCEPT ![t] = "done"]
  /\ captureTasks' = [captureTasks EXCEPT ![t[2]] = NoTask]
  /\ UNCHANGED <<reqVars, proc, signalled, history>>
ForgetStopped(t) ==
  /\ waiter[t] = "removing"
  /\ waiter' = [waiter EXCEPT ![t] = "done"]
  /\ captureTasks' = [captureTasks EXCEPT ![t[2]] =
       IF @ = t /\ t \in signalled THEN NoTask ELSE @]
  /\ UNCHANGED <<reqVars, proc, signalled, history>>

(* Under the lock it deletes the entry if that is still its own.           *)
Forget(t) == LET n == t[2] IN
  /\ waiter[t] = "removing"
  /\ waiter' = [waiter EXCEPT ![t] = "done"]
  /\ captureTasks' = [captureTasks EXCEPT ![n] = IF @ = t THEN NoTask ELSE @]
  /\ UNCHANGED <<reqVars, proc, signalled, history>>

(* The server process is replaced: its map, handlers and goroutines are    *)
(* gone, the tcpdump processes are not.                                    *)
Restart ==
  /\ restarts < MaxRestarts
  /\ restarts' = restarts + 1
  /\ captureTasks' = [n \in Nodes |-> NoTask]
  /\ pc' = [r \in Requests |-> IF Active(r) THEN "done" ELSE pc[r]]
  /\ todo' = [r \in Requests |-> {}]
  /\ cur' = [r \in Requests |-> NoTask]
  /\ waiter' = [t \in Tasks |-> IF waiter[t] = "none" THEN "none" ELSE "done"]
  /\ UNCHANGED <<kind, proc, signalled, overlapped>>

Handle(r) ==
  CheckRunning(r) \/ Launch(r) \/ Store(r) \/ RemoveEntry(r) \/ Signal(r) \/ Respond(r)

Next ==
  \/ \E r \in Requests : Receive(r) \/ Handle(r)
  \/ \E t \in Tasks : Exit(t) \/ Reap(t) \/ Forget(t)
  \/ Restart

Spec == Init /\ [][Next]_vars

(* Goroutines run; tcpdump obeys an interrupt, but need not end otherwise. *)
Fairness ==
  /\ \A r \in Requests : WF_vars(Handle(r))
  /\ \A t \in Tasks : WF_vars(Reap(t)) /\ WF_vars(Forget(t)) /\ WF_vars(t \in signalled /\ Exit(t))

FairSpec == Spec /\ Fairness

-----------------------------------------------------------------------------
(* Properties.                                                             *)

(* Every entry of the map has a goroutine that has yet to look at it, so   *)
(* that list never shows for ever a capture that has ended: even a tcpdump *)
(* that exits at once is stored before its goroutine can remove it.        *)
TrackedHasWaiter ==
  \A n \in Nodes : captureTasks[n] # NoTask =>
    captureTasks[n][2] = n /\ waiter[captureTasks[n]] \in {"waiting", "removing"}

(* On a node for which no two starts overlapped, a running tcpdump is in   *)
(* the map, or has been interrupted, or a request holds it that is about   *)
(* to store or interrupt it: neither a stop nor the late goroutine of an   *)
(* earlier capture of the node makes the server lose one.  (A restarted    *)
(* server knows none.)                                                     *)
RunningIsTracked ==
  \A t \in Tasks : proc[t] = "running" /\ restarts = 0 /\ t[2] \notin overlapped =>
    \/ captureTasks[t[2]] = t
    \/ t \in signalled
    \/ \E r \in Requests : pc[r] \in {"store", "signal"} /\ cur[r] = t

(* The entry of a capture that has ended is eventually removed, also when  *)
(* starts overlap or the server restarts.                                  *)
EndedIsForgotten ==
  \A t \in Tasks : proc[t] \in {"exited", "reaped"} ~> captureTasks[t[2]] # t

(* A stop that removed the entry of a capture really ends its tcpdump,     *)
(* although no list shows it any more in the meantime, unless the server   *)
(* is stopped just then.                                                   *)
StopEndsCapture ==
  \A r \in Requests, t \in Tasks :
    pc[r] = "signal" /\ cur[r] = t ~> proc[t] \in {"exited", "reaped"} \/ restarts > 0
=============================================================================
