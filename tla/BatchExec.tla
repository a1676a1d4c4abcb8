------------------------------- MODULE BatchExec -------------------------------
(***************************************************************************)
(* One request to execute a command in several nodes (runBatchExec of      *)
(* internal/ui/batch_exec.go): it is checked, a pool of workers takes the  *)
(* nodes from a closed channel, each result goes to the place of its node, *)
(* and the answer waits for all workers.                                   *)
(*                                                                         *)
(* A job is its index.  Of a command's run, what counts is its exit code,  *)
(* its deadline, and whether a child it left holds its output pipes, which *)
(* exec.Cmd waits for.                                                     *)
(***************************************************************************)
EXTENDS Integers, Sequences, FiniteSets, SequencesExt

CONSTANTS
  Nodes,           \* of the lab
  Foreign,         \* names it does not have
  Blank,           \* a name that is empty once trimmed
  MaxNames,        \* bound on the names in a request
  Parallelisms,    \* the values of parallelism asked for
  DefaultWorkers, MaxWorkers   \* 4 and 32

ASSUME ExecConstantsOK ==
  /\ Foreign \cap Nodes = {} /\ Blank \notin Nodes \cup Foreign
  /\ MaxNames \in Nat
  /\ Parallelisms \subseteq Int
  /\ DefaultWorkers \in 1 .. MaxWorkers /\ MaxWorkers \in Nat

Workers == 1 .. MaxWorkers
Jobs == 1 .. MaxNames
NoJob == 0
Timeout == 124
Codes == {0, 1, -1, Timeout}    \* 1 stands for what a failing command returns
Killed == 3                     \* how a command ends that its deadline kills
NoCode == 2

VARIABLES
  asked,      \* the request: names and parallelism
  phase,      \* of the handler
  next,       \* the name it reads next
  nodes,      \* the names it keeps, in their order
  ch,         \* the channel: the jobs nobody has taken
  working,    \* the workers that have not ended
  job,        \* per worker: its job
  command,    \* per job: how far its command is
  exits,      \* per job: how its command ended
  late,       \* per job: has its deadline passed while the command ran?
  held,       \* per job: does a child hold its pipes?
  results,    \* per job: the exit code in its result
  answer,     \* the results, sorted by node: as names are distinct, a set
  runs        \* history: how often each node was run

pool == <<ch, working, job>>
processes == <<command, exits, late, held>>
vars == <<asked, phase, next, nodes, pool, processes, results, answer, runs>>

(* sound: it has a command, and the state of its lab can be loaded.        *)
Requests == [names : BoundedSeq(Nodes \cup Foreign \cup {Blank}, MaxNames),
             parallelism : Parallelisms, sound : BOOLEAN]

TypeOK ==
  /\ asked \in Requests
  /\ phase \in {"received", "running", "answered", "refused"}
  /\ next \in 1 .. Len(asked.names) + 1
  /\ nodes \in Seq(Nodes) /\ Len(nodes) <= MaxNames
  /\ ch \in Seq(Jobs)
  /\ working \subseteq Workers
  /\ job \in [Workers -> Jobs \cup {NoJob}]
  /\ command \in [Jobs -> {"none", "running", "exited", "waited"}]
  /\ exits \in [Jobs -> Codes \cup {Killed}]
  /\ late \in [Jobs -> BOOLEAN] /\ held \in [Jobs -> BOOLEAN]
  /\ results \in [Jobs -> Codes \cup {NoCode}]
  /\ answer \subseteq [node : Nodes, code : Codes \cup {NoCode}]
  /\ runs \in [Nodes -> Nat]

Init ==
  /\ asked \in Requests
  /\ phase = "received" /\ next = 1
  /\ nodes = <<>> /\ ch = <<>>
  /\ working = {}
  /\ job = [w \in Workers |-> NoJob]
  /\ command = [i \in Jobs |-> "none"]
  /\ exits = [i \in Jobs |-> 0]
  /\ late = [i \in Jobs |-> FALSE] /\ held = [i \in Jobs |-> FALSE]
  /\ results = [i \in Jobs |-> NoCode]
  /\ answer = {}
  /\ runs = [n \in Nodes |-> 0]

-----------------------------------------------------------------------------
(* The request.                                                            *)

NameRead == asked.names[next]

(* Mutant of ReadName: a node named twice is run twice.                    *)
ReadNameAgain ==
  /\ phase = "received" /\ asked.sound
  /\ next <= Len(asked.names) /\ NameRead \notin Foreign
  /\ nodes' = IF NameRead = Blank THEN nodes ELSE Append(nodes, NameRead)
  /\ next' = next + 1
  /\ UNCHANGED <<asked, phase, pool, processes, results, answer, runs>>

(* The next name: blanks are skipped, and names seen before.               *)
ReadName ==
  /\ phase = "received" /\ asked.sound
  /\ next <= Len(asked.names) /\ NameRead \notin Foreign
  /\ nodes' = IF NameRead \in {Blank} \cup ToSet(nodes) THEN nodes ELSE Append(nodes, NameRead)
  /\ next' = next + 1
  /\ UNCHANGED <<asked, phase, pool, processes, results, answer, runs>>

Refuse ==
  /\ phase = "received"
  /\ \/ ~asked.sound
     \/ next <= Len(asked.names) /\ NameRead \in Foreign
     \/ next > Len(asked.names) /\ nodes = <<>>
  /\ phase' = "refused"
  /\ UNCHANGED <<asked, next, nodes, pool, processes, results, answer, runs>>

Least(a, b) == IF a <= b THEN a ELSE b

(* Mutant of PoolSize: the limit is forgotten.                             *)
PoolSizeAsked(n) == Least(IF asked.parallelism <= 0 THEN DefaultWorkers ELSE asked.parallelism, n)

(* How many workers: by default four, and never more than jobs.            *)
PoolSize(n) ==
  Least(IF asked.parallelism <= 0 THEN DefaultWorkers ELSE Least(asked.parallelism, MaxWorkers), n)

(* All names are read: the jobs are queued and the workers started.        *)
Accept ==
  /\ phase = "received" /\ asked.sound
  /\ next > Len(asked.names) /\ nodes # <<>>
  /\ phase' = "running"
  /\ ch' = [i \in 1 .. Len(nodes) |-> i]
  /\ working' = 1 .. PoolSize(Len(nodes))
  /\ UNCHANGED <<asked, next, nodes, job, processes, results, answer, runs>>

-----------------------------------------------------------------------------
(* A worker, and the command of its job.                                   *)

(* It takes a job: without a file of the node's environment it has its     *)
(* result, else the command is started (which may fail).                   *)
TakeJob(w) == LET i == Head(ch) IN
  /\ w \in working /\ job[w] = NoJob /\ ch # <<>>
  /\ ch' = Tail(ch)
  /\ runs' = [runs EXCEPT ![nodes[i]] = @ + 1]
  /\ \/ /\ results' = [results EXCEPT ![i] = -1]
        /\ UNCHANGED <<job, command>>
     \/ /\ job' = [job EXCEPT ![w] = i]
        /\ command' = [command EXCEPT ![i] = "running"]
        /\ UNCHANGED results
  /\ UNCHANGED <<asked, next, phase, nodes, working, exits, late, held, answer>>

(* Mutant of EndWorker: the channel is not closed, and the worker waits.   *)
EndWorkerNever(w) == w \notin Workers /\ UNCHANGED vars

(* The channel is closed and empty.                                        *)
EndWorker(w) ==
  /\ w \in working /\ job[w] = NoJob /\ ch = <<>>
  /\ working' = working \ {w}
  /\ UNCHANGED <<asked, next, phase, nodes, ch, job, processes, results, answer, runs>>

(* The command ends, and may leave a child with its pipes.  Its code is    *)
(* its own affair: it may be that of a timeout, and is -1 if a signal ends *)
(* it, or if it could not be started.                                      *)
ExitCommand(i) == \E code \in Codes, left \in BOOLEAN :
  /\ command[i] = "running"
  /\ command' = [command EXCEPT ![i] = "exited"]
  /\ exits' = [exits EXCEPT ![i] = code]
  /\ held' = [held EXCEPT ![i] = left]
  /\ UNCHANGED <<asked, next, phase, nodes, pool, late, results, answer, runs>>

(* Its deadline passes before Wait has seen it end: the command is killed, *)
(* its children are not.                                                   *)
KillCommand(i) == \E left \in BOOLEAN :
  /\ command[i] = "running"
  /\ command' = [command EXCEPT ![i] = "exited"]
  /\ exits' = [exits EXCEPT ![i] = Killed]
  /\ late' = [late EXCEPT ![i] = TRUE]
  /\ held' = [held EXCEPT ![i] = left]
  /\ UNCHANGED <<asked, next, phase, nodes, pool, results, answer, runs>>

(* The deadline passes while Run waits for the pipes: nobody is killed.    *)
PassDeadline(i) ==
  /\ command[i] = "exited" /\ ~late[i]
  /\ late' = [late EXCEPT ![i] = TRUE]
  /\ UNCHANGED <<asked, next, phase, nodes, pool, command, exits, held, results, answer, runs>>

Release(i) ==
  /\ held[i]
  /\ held' = [held EXCEPT ![i] = FALSE]
  /\ UNCHANGED <<asked, next, phase, nodes, pool, command, exits, late, results, answer, runs>>

(* ExitError.ExitCode: a signal has no code, whoever sent it.              *)
ExitCode(i) == IF exits[i] = Killed THEN -1 ELSE exits[i]

(* Mutant of CodeOf: the deadline is looked at whatever Run returned.      *)
CodeOfLate(i) == IF late[i] THEN Timeout ELSE ExitCode(i)

(* Only a Run that failed is looked at for its deadline.                   *)
CodeOf(i) == IF exits[i] = 0 THEN 0 ELSE IF late[i] THEN Timeout ELSE ExitCode(i)

(* Run returns, and the result is stored.                                  *)
FinishJob(w) == LET i == job[w] IN
  /\ i # NoJob
  /\ command[i] = "exited" /\ ~held[i]
  /\ command' = [command EXCEPT ![i] = "waited"]
  /\ results' = [results EXCEPT ![i] = CodeOf(i)]
  /\ job' = [job EXCEPT ![w] = NoJob]
  /\ UNCHANGED <<asked, next, phase, nodes, ch, working, exits, late, held, answer, runs>>

(* Mutant of Answer: it does not wait for workers that still run a job.    *)
AnswerEarly ==
  /\ phase = "running" /\ ch = <<>>
  /\ phase' = "answered"
  /\ answer' = {[node |-> nodes[i], code |-> results[i]] : i \in 1 .. Len(nodes)}
  /\ UNCHANGED <<asked, next, nodes, pool, processes, results, runs>>

(* wg.Wait returns, and the results are sorted.                            *)
Answer ==
  /\ phase = "running" /\ working = {}
  /\ phase' = "answered"
  /\ answer' = {[node |-> nodes[i], code |-> results[i]] : i \in 1 .. Len(nodes)}
  /\ UNCHANGED <<asked, next, nodes, pool, processes, results, runs>>

-----------------------------------------------------------------------------
Next ==
  \/ ReadName \/ Refuse \/ Accept \/ Answer
  \/ \E w \in Workers : TakeJob(w) \/ FinishJob(w) \/ EndWorker(w)
  \/ \E i \in Jobs : ExitCommand(i) \/ KillCommand(i) \/ PassDeadline(i) \/ Release(i)

Spec == Init /\ [][Next]_vars

(* Goroutines run and deadlines pass; no command, and no child of one,     *)
(* ends for sure.                                                          *)
Fairness ==
  /\ WF_vars(ReadName) /\ WF_vars(Refuse) /\ WF_vars(Accept) /\ WF_vars(Answer)
  /\ \A w \in Workers : WF_vars(TakeJob(w)) /\ WF_vars(FinishJob(w)) /\ WF_vars(EndWorker(w))
  /\ \A i \in Jobs : WF_vars(KillCommand(i))

FairSpec == Spec /\ Fairness

-----------------------------------------------------------------------------
(* Properties.                                                             *)

(* The answer covers the request: every node that it names, however often, *)
(* was run once, and no other, whatever the number of workers and the      *)
(* order in which they took the jobs; each has its result, and no command  *)
(* still runs.                                                             *)
AnswerCoversRequest == phase = "answered" =>
  /\ \A n \in Nodes : runs[n] = IF n \in ToSet(asked.names) THEN 1 ELSE 0
  /\ {r.node : r \in answer} = ToSet(asked.names) \cap Nodes
  /\ \A r \in answer : r.code # NoCode
  /\ \A i \in Jobs : command[i] \in {"none", "waited"}

(* What a code in the answer allows a reader to conclude about the node it *)
(* is given for, whichever came first of the end of the command, that of   *)
(* its children and the deadline: 0 that the command succeeded, with its   *)
(* children beyond the deadline or not; 124 that the deadline passed or    *)
(* that the command itself returned 124, and a kill is never told as       *)
(* anything else; -1 that there was no environment, or that something      *)
(* other than the deadline prevented or ended it; any other code that it   *)
(* is the command's own, and all of it came in time.                       *)
CodesAreHonest == phase = "answered" => \A r \in answer : \E i \in DOMAIN nodes :
  /\ nodes[i] = r.node
  /\ command[i] \in {"none", "waited"}
  /\ IF command[i] = "none" THEN r.code = -1
     ELSE /\ r.code = 0 <=> exits[i] = 0
          /\ exits[i] = Killed => r.code = Timeout
          /\ r.code = Timeout => late[i] \/ exits[i] = Timeout
          /\ r.code \notin {0, Timeout} => r.code = exits[i] /\ ~late[i]

(* Every request is answered or refused, unless a child that some command  *)
(* left behind holds its output for ever, which no timeout ends.           *)
BatchEnds == <>(phase \in {"answered", "refused"}) \/ <>[](\E i \in Jobs : held[i])
=============================================================================
