---------------------------- MODULE BatchExecProofs ----------------------------
(***************************************************************************)
(* What is proved of batch execution, for any lab, any request and any     *)
(* limits: the types, that the exit codes are honest, and that the answer  *)
(* covers the request.  The inductive invariant says what the reader of    *)
(* the names has built so far, and then how the jobs are shared: those in  *)
(* the channel are the ones behind the taken ones, each taken one is with  *)
(* one worker or has its result.                                           *)
(***************************************************************************)
EXTENDS BatchExec, SequenceTheorems, TLAPS

(* The names that are read are those of the nodes, each kept once.         *)
NamesInv ==
  /\ \A j \in 1 .. next - 1 : asked.names[j] \in Nodes \cup {Blank}
  /\ ToSet(nodes) = {asked.names[j] : j \in 1 .. next - 1} \ {Blank}
  /\ \A i, j \in DOMAIN nodes : nodes[i] = nodes[j] => i = j
  /\ Len(nodes) < next

(* Before the pool is started nothing has run.                             *)
Idle ==
  /\ ch = <<>> /\ working = {}
  /\ \A w \in Workers : job[w] = NoJob
  /\ \A i \in Jobs : command[i] = "none"
  /\ \A n \in Nodes : runs[n] = 0

(* How many jobs the workers have taken from the channel.                  *)
Taken == Len(nodes) - Len(ch)

QueueInv ==
  /\ next = Len(asked.names) + 1
  /\ Len(ch) <= Len(nodes)
  /\ \A i \in DOMAIN ch : ch[i] = Taken + i
  /\ working = {} => ch = <<>>

RunsInv == \A n \in Nodes : runs[n] = IF \E i \in 1 .. Taken : nodes[i] = n THEN 1 ELSE 0

Busy(i) == command[i] \in {"running", "exited"}

WorkersInv ==
  /\ \A w \in Workers : job[w] # NoJob => w \in working /\ job[w] \in 1 .. Taken /\ Busy(job[w])
  /\ \A v, w \in Workers : job[v] = job[w] /\ job[v] # NoJob => v = w

JobsInv == \A i \in Jobs :
  /\ i > Taken => command[i] = "none"
  /\ Busy(i) => \E w \in Workers : job[w] = i
  /\ i <= Taken /\ ~Busy(i) => results[i] # NoCode

(* Only a deadline kills, and a result is made once its command has ended. *)
CodesInv == \A i \in Jobs :
  /\ exits[i] = Killed => late[i]
  /\ command[i] = "none" => results[i] \in {-1, NoCode}
  /\ command[i] = "waited" => results[i] = CodeOf(i)

AnswerInv == phase = "answered" =>
  /\ working = {}
  /\ answer = {[node |-> nodes[i], code |-> results[i]] : i \in 1 .. Len(nodes)}

PoolInv ==
  IF phase \in {"received", "refused"} THEN Idle
  ELSE QueueInv /\ RunsInv /\ WorkersInv /\ JobsInv /\ AnswerInv

ExecInv == TypeOK /\ NamesInv /\ CodesInv /\ PoolInv
-----------------------------------------------------------------------------
(* The request.                                                            *)

LEMMA RequestFacts ==
  ASSUME asked \in Requests
  PROVE  /\ asked.names \in Seq(Nodes \cup Foreign \cup {Blank})
         /\ Len(asked.names) \in Nat /\ Len(asked.names) <= MaxNames
         /\ DOMAIN asked.names = 1 .. Len(asked.names)
         /\ asked.parallelism \in Int
<1>1. PICK m \in 0 .. MaxNames : asked.names \in [1 .. m -> Nodes \cup Foreign \cup {Blank}]
  BY DEF Requests, BoundedSeq, SeqOf
<1>2. asked.parallelism \in Int
  BY ExecConstantsOK DEF Requests, ExecConstantsOK
<1>3. m \in Nat /\ m <= MaxNames
  BY ExecConstantsOK DEF ExecConstantsOK
<1>4. asked.names \in Seq(Nodes \cup Foreign \cup {Blank})
  BY <1>1, <1>3, IsASeq
<1>5. Len(asked.names) = m
  BY <1>1, <1>3, <1>4, LenProperties
<1> QED BY <1>1, <1>2, <1>3, <1>4, <1>5

(* A pool is never larger than the workers there may be, nor empty.        *)
LEMMA PoolFits ==
  ASSUME asked \in Requests, NEW n \in Nat, n > 0
  PROVE  PoolSize(n) \in 1 .. MaxWorkers
<1>1. asked.parallelism \in Int
  BY RequestFacts
<1> QED BY <1>1, ExecConstantsOK DEF ExecConstantsOK, PoolSize, Least

LEMMA AppendToSet ==
  ASSUME NEW S, NEW s \in Seq(S), NEW x \in S
  PROVE  /\ ToSet(Append(s, x)) = ToSet(s) \cup {x}
         /\ Len(Append(s, x)) = Len(s) + 1
         /\ Append(s, x) \in Seq(S)
         /\ \A i \in 1 .. Len(s) : Append(s, x)[i] = s[i]
         /\ Append(s, x)[Len(s) + 1] = x
<1>1. Append(s, x) \in Seq(S) /\ Len(Append(s, x)) = Len(s) + 1
  BY AppendProperties
<1>2. \A i \in 1 .. Len(s) : Append(s, x)[i] = s[i]
  BY AppendProperties
<1>3. Append(s, x)[Len(s) + 1] = x
  BY AppendProperties
<1>4. DOMAIN s = 1 .. Len(s) /\ DOMAIN Append(s, x) = 1 .. Len(s) + 1 /\ Len(s) \in Nat
  BY <1>1, LenProperties
<1>5. ToSet(Append(s, x)) = ToSet(s) \cup {x}
  BY <1>2, <1>3, <1>4 DEF ToSet
<1> QED BY <1>1, <1>2, <1>3, <1>5

LEMMA ExecInvInit == Init => ExecInv
<1> SUFFICES ASSUME Init PROVE ExecInv
  OBVIOUS
<1> USE ExecConstantsOK DEF Init
<1>1. Len(asked.names) \in Nat
  BY RequestFacts
<1>2. TypeOK
  BY <1>1 DEF ExecConstantsOK, TypeOK, Jobs, Workers, Codes, NoCode
<1>3. NamesInv
  BY DEF NamesInv, ToSet
<1>4. CodesInv
  BY DEF CodesInv, Killed
<1>5. PoolInv
  BY DEF PoolInv, Idle
<1> QED BY <1>2, <1>3, <1>4, <1>5 DEF ExecInv

-----------------------------------------------------------------------------
(* The handler, before the pool is started.                                *)

LEMMA ReadNameStep ==
  ASSUME ExecInv, ReadName
  PROVE  ExecInv'
<1> DEFINE n == asked.names[next]
<1> USE DEF ReadName, NameRead
<1>1. /\ asked \in Requests /\ next \in Nat /\ next >= 1 /\ next <= Len(asked.names)
      /\ nodes \in Seq(Nodes) /\ Len(nodes) < next /\ Len(nodes) \in Nat
  <2>1. Len(asked.names) \in Nat
    BY RequestFacts DEF ExecInv, TypeOK
  <2> QED BY <2>1, LenProperties DEF ExecInv, TypeOK, NamesInv
<1>2. n \in Nodes \cup {Blank}
  <2>1. n \in Nodes \cup Foreign \cup {Blank}
    BY <1>1, RequestFacts, ElementOfSeq
  <2> QED BY <2>1
<1>3. Len(asked.names) \in Nat /\ Len(asked.names) <= MaxNames /\ MaxNames \in Nat
  BY <1>1, RequestFacts, ExecConstantsOK DEF ExecConstantsOK
<1>4. CASE n \in {Blank} \cup ToSet(nodes)
  <2>1. nodes' = nodes /\ next' = next + 1
    BY <1>4
  <2>2. {asked.names[j] : j \in 1 .. next} = {asked.names[j] : j \in 1 .. next - 1} \cup {n}
    BY <1>1
  <2>3. TypeOK'
    BY <1>1, <1>3, <2>1 DEF ExecInv, TypeOK, pool, processes
  <2>4. NamesInv'
    <3>1. \A j \in 1 .. next : asked.names[j] \in Nodes \cup {Blank}
      BY <1>1, <1>2 DEF ExecInv, NamesInv
    <3>2. ToSet(nodes) = {asked.names[j] : j \in 1 .. next} \ {Blank}
      BY <1>4, <2>2 DEF ExecInv, NamesInv
    <3>3. next' - 1 = next /\ asked' = asked
      BY <1>1, <2>1
    <3> QED BY <1>1, <2>1, <3>1, <3>2, <3>3 DEF ExecInv, NamesInv
  <2>5. CodesInv'
    BY DEF ExecInv, CodesInv, CodeOf, ExitCode, processes
  <2>6. PoolInv'
    BY DEF ExecInv, PoolInv, Idle, pool, processes
  <2> QED BY <2>3, <2>4, <2>5, <2>6 DEF ExecInv
<1>5. CASE n \notin {Blank} \cup ToSet(nodes)
  <2>1. nodes' = Append(nodes, n) /\ next' = next + 1
    BY <1>5
  <2>2. {asked.names[j] : j \in 1 .. next} = {asked.names[j] : j \in 1 .. next - 1} \cup {n}
    BY <1>1
  <2>a. n \in Nodes
    BY <1>2, <1>5
  <2>b. /\ ToSet(nodes') = ToSet(nodes) \cup {n}
        /\ Len(nodes') = Len(nodes) + 1
        /\ nodes' \in Seq(Nodes)
        /\ \A i \in 1 .. Len(nodes) : nodes'[i] = nodes[i]
        /\ nodes'[Len(nodes) + 1] = n
    BY <1>1, <2>1, <2>a, AppendToSet
  <2>3. TypeOK'
    BY <1>1, <1>3, <2>1, <2>b DEF ExecInv, TypeOK, pool, processes
  <2>4. NamesInv'
    <3>1. \A j \in 1 .. next : asked.names[j] \in Nodes \cup {Blank}
      BY <1>1, <1>2 DEF ExecInv, NamesInv
    <3>2. ToSet(nodes') = {asked.names[j] : j \in 1 .. next} \ {Blank}
      BY <1>5, <2>2, <2>b DEF ExecInv, NamesInv
    <3>3. next' - 1 = next /\ asked' = asked
      BY <1>1, <2>1
    <3>4. \A i, j \in DOMAIN nodes' : nodes'[i] = nodes'[j] => i = j
      <4>1. DOMAIN nodes' = 1 .. Len(nodes) + 1 /\ DOMAIN nodes = 1 .. Len(nodes)
        BY <1>1, <2>b, LenProperties
      <4>2. \A i \in 1 .. Len(nodes) : nodes[i] # n
        BY <1>5, <4>1 DEF ToSet
      <4> QED BY <1>1, <2>b, <4>1, <4>2 DEF ExecInv, NamesInv
    <3>5. Len(nodes') < next'
      BY <1>1, <2>1, <2>b
    <3> QED BY <3>1, <3>2, <3>3, <3>4, <3>5 DEF NamesInv
  <2>5. CodesInv'
    BY DEF ExecInv, CodesInv, CodeOf, ExitCode, processes
  <2>6. PoolInv'
    BY DEF ExecInv, PoolInv, Idle, pool, processes
  <2> QED BY <2>3, <2>4, <2>5, <2>6 DEF ExecInv
<1> QED BY <1>4, <1>5

LEMMA RefuseStep ==
  ASSUME ExecInv, Refuse
  PROVE  ExecInv'
<1> USE DEF Refuse, ExecInv
<1>1. TypeOK'
  BY DEF TypeOK, pool, processes
<1>2. NamesInv' /\ CodesInv'
  BY DEF NamesInv, CodesInv, CodeOf, ExitCode, processes
<1>3. PoolInv'
  BY DEF PoolInv, Idle, pool, processes
<1> QED BY <1>1, <1>2, <1>3

LEMMA AcceptStep ==
  ASSUME ExecInv, Accept
  PROVE  ExecInv'
<1> USE DEF Accept
<1>1. /\ asked \in Requests /\ nodes \in Seq(Nodes) /\ Len(nodes) \in Nat
      /\ Len(nodes) <= MaxNames /\ MaxNames \in Nat
      /\ next = Len(asked.names) + 1
  <2>1. Len(asked.names) \in Nat
    BY RequestFacts DEF ExecInv, TypeOK
  <2>2. nodes \in Seq(Nodes) /\ Len(nodes) <= MaxNames /\ asked \in Requests
    BY DEF ExecInv, TypeOK
  <2>3. next = Len(asked.names) + 1
    BY <2>1 DEF ExecInv, TypeOK
  <2> QED BY <2>2, <2>3, LenProperties, ExecConstantsOK DEF ExecConstantsOK
<1>2. Len(nodes) > 0
  BY <1>1, EmptySeq
<1>3. PoolSize(Len(nodes)) \in 1 .. MaxWorkers /\ MaxWorkers \in Nat
  BY <1>1, <1>2, PoolFits, ExecConstantsOK DEF ExecConstantsOK
<1>4. ch' \in Seq(Jobs) /\ Len(ch') = Len(nodes) /\ \A i \in 1 .. Len(nodes) : ch'[i] = i
  <2>1. ch' \in [1 .. Len(nodes) -> Jobs]
    BY <1>1 DEF Jobs
  <2>2. ch' \in Seq(Jobs)
    BY <1>1, <2>1, IsASeq
  <2> QED BY <1>1, <2>1, <2>2, LenProperties
<1>5. working' = 1 .. PoolSize(Len(nodes)) /\ working' \subseteq Workers /\ working' # {}
  BY <1>3 DEF Workers
<1>6. TypeOK'
  BY <1>4, <1>5 DEF ExecInv, TypeOK, processes
<1>7. NamesInv' /\ CodesInv'
  BY DEF ExecInv, NamesInv, CodesInv, CodeOf, ExitCode, processes
<1>8. Taken' = 0
  BY <1>1, <1>4 DEF Taken
<1>i. Idle
  BY DEF ExecInv, PoolInv
<1>9. QueueInv'
  <2>1. DOMAIN ch' = 1 .. Len(nodes)
    BY <1>4, LenProperties
  <2> QED BY <1>1, <1>4, <1>5, <1>8, <2>1 DEF QueueInv
<1>10. RunsInv'
  BY <1>8, <1>i DEF RunsInv, Idle
<1>11. WorkersInv' /\ JobsInv'
  BY <1>8, <1>i DEF WorkersInv, JobsInv, Idle, Busy, Jobs, processes
<1>12. PoolInv'
  BY <1>9, <1>10, <1>11 DEF PoolInv, AnswerInv
<1> QED BY <1>6, <1>7, <1>12 DEF ExecInv

-----------------------------------------------------------------------------
(* The pool.                                                               *)

(* Whoever works, works while the handler waits.                           *)
LEMMA AtWork ==
  ASSUME ExecInv,
         \/ working # {}
         \/ \E w \in Workers : job[w] # NoJob
         \/ \E i \in Jobs : Busy(i)
  PROVE  /\ phase = "running"
         /\ QueueInv /\ RunsInv /\ WorkersInv /\ JobsInv
<1>1. ~Idle
  BY DEF Idle, Busy
<1>2. phase \notin {"received", "refused"}
  BY <1>1 DEF ExecInv, PoolInv
<1>3. QueueInv /\ RunsInv /\ WorkersInv /\ JobsInv /\ AnswerInv
  BY <1>2 DEF ExecInv, PoolInv
<1>4. working # {}
  <2>1. (\E i \in Jobs : Busy(i)) => \E w \in Workers : job[w] # NoJob
    BY <1>3 DEF JobsInv, Jobs, NoJob
  <2>2. (\E w \in Workers : job[w] # NoJob) => working # {}
    BY <1>3 DEF WorkersInv
  <2> QED BY <2>1, <2>2
<1>5. phase \in {"received", "running", "answered", "refused"}
  BY DEF ExecInv, TypeOK
<1> QED BY <1>2, <1>3, <1>4, <1>5 DEF AnswerInv

(* The job at the head of the channel is the one behind the taken ones.    *)
LEMMA HeadIsNext ==
  ASSUME ExecInv, QueueInv, ch # <<>>
  PROVE  /\ Head(ch) = Taken + 1 /\ Head(ch) \in Jobs
         /\ Taken \in Nat /\ Taken < Len(nodes)
         /\ nodes[Taken + 1] \in Nodes
         /\ Tail(ch) \in Seq(Jobs) /\ Len(Tail(ch)) = Len(ch) - 1
         /\ \A i \in DOMAIN Tail(ch) : Tail(ch)[i] = Taken + 1 + i
         /\ \A i, j \in 1 .. Len(nodes) : nodes[i] = nodes[j] => i = j
<1>1. ch \in Seq(Jobs) /\ nodes \in Seq(Nodes)
  BY DEF ExecInv, TypeOK
<1>2. /\ Len(ch) \in Nat /\ DOMAIN ch = 1 .. Len(ch)
      /\ Len(nodes) \in Nat /\ DOMAIN nodes = 1 .. Len(nodes)
  BY <1>1, LenProperties
<1>3. Len(ch) > 0
  BY <1>1, <1>2, EmptySeq
<1>4. Taken \in Nat /\ Taken < Len(nodes)
  BY <1>2, <1>3 DEF QueueInv, Taken
<1>5. /\ Head(ch) = ch[1] /\ Head(ch) \in Jobs
      /\ Tail(ch) \in Seq(Jobs) /\ Len(Tail(ch)) = Len(ch) - 1
      /\ \A i \in 1 .. Len(Tail(ch)) : Tail(ch)[i] = ch[i + 1]
  BY <1>1, HeadTailProperties
<1>6. ch[1] = Taken + 1
  BY <1>2, <1>3 DEF QueueInv
<1>7. nodes[Taken + 1] \in Nodes
  BY <1>1, <1>2, <1>4, ElementOfSeq
<1>8. DOMAIN Tail(ch) = 1 .. Len(Tail(ch))
  BY <1>5, LenProperties
<1>9. \A i \in DOMAIN Tail(ch) : Tail(ch)[i] = Taken + 1 + i
  BY <1>2, <1>4, <1>5, <1>8 DEF QueueInv
<1>10. \A i, j \in 1 .. Len(nodes) : nodes[i] = nodes[j] => i = j
  BY <1>2 DEF ExecInv, NamesInv
<1> QED BY <1>4, <1>5, <1>6, <1>7, <1>9, <1>10

LEMMA TakeJobStep ==
  ASSUME ExecInv, NEW w \in Workers, TakeJob(w)
  PROVE  ExecInv'
<1> DEFINE i == Head(ch)
<1>1. /\ w \in working /\ job[w] = NoJob /\ ch # <<>>
      /\ ch' = Tail(ch)
      /\ runs' = [runs EXCEPT ![nodes[i]] = @ + 1]
      /\ UNCHANGED <<asked, next, phase, nodes, working, exits, late, held, answer>>
  BY DEF TakeJob
<1>2. phase = "running" /\ QueueInv /\ RunsInv /\ WorkersInv /\ JobsInv
  BY <1>1, AtWork
<1>3. /\ i = Taken + 1 /\ i \in Jobs
      /\ Taken \in Nat /\ Taken < Len(nodes)
      /\ nodes[i] \in Nodes
      /\ Tail(ch) \in Seq(Jobs) /\ Len(Tail(ch)) = Len(ch) - 1
      /\ \A k \in DOMAIN Tail(ch) : Tail(ch)[k] = Taken + 1 + k
      /\ \A k, j \in 1 .. Len(nodes) : nodes[k] = nodes[j] => k = j
  BY <1>1, <1>2, HeadIsNext
<1>4. Len(nodes) \in Nat /\ Len(ch) \in Nat
  BY LenProperties DEF ExecInv, TypeOK
<1>5. Taken' = i
  BY <1>1, <1>3, <1>4 DEF Taken
<1>6. command[i] = "none"
  BY <1>2, <1>3 DEF JobsInv
<1>r. runs \in [Nodes -> Nat]
  BY DEF ExecInv, TypeOK
<1>7. QueueInv'
  BY <1>1, <1>2, <1>3, <1>4, <1>5 DEF QueueInv
<1>8. RunsInv'
  <2>1. \A n \in Nodes : (\E k \in 1 .. i : nodes[k] = n)
                           <=> n = nodes[i] \/ \E k \in 1 .. Taken : nodes[k] = n
    BY <1>3
  <2>2. ~\E k \in 1 .. Taken : nodes[k] = nodes[i]
    BY <1>3, <1>4
  <2>3. \A n \in Nodes : runs'[n] = IF n = nodes[i] THEN runs[n] + 1 ELSE runs[n]
    BY <1>1, <1>3, <1>r
  <2>4. runs[nodes[i]] = 0
    BY <1>2, <1>3, <2>2 DEF RunsInv
  <2>5. \A n \in Nodes : runs'[n] = IF \E k \in 1 .. i : nodes[k] = n THEN 1 ELSE 0
    BY <1>2, <2>1, <2>3, <2>4 DEF RunsInv
  <2> QED BY <1>1, <1>5, <2>5 DEF RunsInv
<1>9. TypeOK' /\ CodesInv' /\ WorkersInv' /\ JobsInv'
  <2>t. /\ results \in [Jobs -> Codes \cup {NoCode}]
        /\ job \in [Workers -> Jobs \cup {NoJob}]
        /\ command \in [Jobs -> {"none", "running", "exited", "waited"}]
    BY DEF ExecInv, TypeOK
  <2>r. runs' \in [Nodes -> Nat]
    BY <1>1, <1>3, <1>r
  <2>1. CASE results' = [results EXCEPT ![i] = -1] /\ UNCHANGED <<job, command>>
    <3>1. TypeOK'
      BY <1>1, <1>3, <2>1, <2>r DEF ExecInv, TypeOK, Codes
    <3>2. CodesInv'
      BY <1>1, <1>6, <2>1, <2>t DEF ExecInv, CodesInv, CodeOf, ExitCode
    <3>3. WorkersInv'
      BY <1>1, <1>2, <1>3, <1>5, <2>1 DEF WorkersInv, Busy
    <3>4. JobsInv'
      <4>1. results'[i] = -1 /\ \A k \in Jobs \ {i} : results'[k] = results[k]
        BY <1>3, <2>1, <2>t
      <4>2. -1 # NoCode
        BY DEF NoCode
      <4>3. \A k \in Jobs : k <= i <=> k = i \/ k <= Taken
        BY <1>3 DEF Jobs
      <4>4. \A k \in Jobs : k > i => k > Taken
        BY <1>3 DEF Jobs
      <4> QED BY <1>1, <1>2, <1>5, <2>1, <4>1, <4>2, <4>3, <4>4 DEF JobsInv, Busy
    <3> QED BY <3>1, <3>2, <3>3, <3>4
  <2>2. CASE /\ job' = [job EXCEPT ![w] = i] /\ command' = [command EXCEPT ![i] = "running"]
             /\ UNCHANGED results
    <3>c. command'[i] = "running" /\ \A k \in Jobs \ {i} : command'[k] = command[k]
      BY <1>3, <2>2, <2>t
    <3>j. job'[w] = i /\ \A v \in Workers \ {w} : job'[v] = job[v]
      BY <2>2, <2>t
    <3>1. TypeOK'
      BY <1>1, <1>3, <2>2, <2>r DEF ExecInv, TypeOK
    <3>2. CodesInv'
      BY <1>1, <2>2, <3>c DEF ExecInv, CodesInv, CodeOf, ExitCode
    <3>3. WorkersInv'
      <4>1. \A v \in Workers \ {w} : job[v] # i
        BY <1>2, <1>3 DEF WorkersInv, NoJob
      <4>2. \A k \in 1 .. Taken : k \in 1 .. i /\ k # i
        BY <1>3
      <4>3. \A v \in Workers \ {w} : job[v] # NoJob => job[v] \in Jobs
        BY <2>t
      <4>4. i \in 1 .. i
        BY <1>3
      <4> QED BY <1>1, <1>2, <1>5, <3>c, <3>j, <4>1, <4>2, <4>3, <4>4 DEF WorkersInv, Busy
    <3>4. JobsInv'
      <4>3. \A k \in Jobs : k <= i <=> k = i \/ k <= Taken
        BY <1>3 DEF Jobs
      <4>4. \A k \in Jobs : k > i => k > Taken /\ k # i
        BY <1>3 DEF Jobs
      <4>5. \A k \in Jobs \ {i} : Busy(k) => \E v \in Workers \ {w} : job[v] = k
        BY <1>1, <1>2 DEF JobsInv, NoJob, Jobs
      <4> QED BY <1>2, <1>5, <2>2, <3>c, <3>j, <4>3, <4>4, <4>5 DEF JobsInv, Busy
    <3> QED BY <3>1, <3>2, <3>3, <3>4
  <2> QED BY <2>1, <2>2 DEF TakeJob
<1>10. NamesInv'
  BY <1>1 DEF ExecInv, NamesInv
<1>11. PoolInv'
  BY <1>1, <1>2, <1>7, <1>8, <1>9 DEF PoolInv, AnswerInv
<1> QED BY <1>9, <1>10, <1>11 DEF ExecInv

LEMMA EndWorkerStep ==
  ASSUME ExecInv, NEW w \in Workers, EndWorker(w)
  PROVE  ExecInv'
<1>1. /\ w \in working /\ job[w] = NoJob /\ ch = <<>>
      /\ working' = working \ {w}
      /\ UNCHANGED <<asked, phase, next, nodes, ch, job, processes, results, answer, runs>>
  BY DEF EndWorker
<1>2. phase = "running" /\ QueueInv /\ RunsInv /\ WorkersInv /\ JobsInv
  BY <1>1, AtWork
<1>3. TypeOK'
  BY <1>1 DEF ExecInv, TypeOK, processes
<1>4. NamesInv' /\ CodesInv'
  BY <1>1 DEF ExecInv, NamesInv, CodesInv, CodeOf, ExitCode, processes
<1>5. Taken' = Taken
  BY <1>1 DEF Taken
<1>6. QueueInv' /\ RunsInv'
  BY <1>1, <1>2, <1>5 DEF QueueInv, RunsInv
<1>7. WorkersInv' /\ JobsInv'
  BY <1>1, <1>2, <1>5 DEF WorkersInv, JobsInv, Busy, processes
<1>8. PoolInv'
  BY <1>1, <1>2, <1>6, <1>7 DEF PoolInv, AnswerInv
<1> QED BY <1>3, <1>4, <1>8 DEF ExecInv

(* A command that runs or has ended but was not waited for may change its  *)
(* state between these two, and its deadline may pass.                     *)
LEMMA CommandStep ==
  ASSUME ExecInv, NEW i \in Jobs, Busy(i), Busy(i)',
         TypeOK', CodesInv',
         \A k \in Jobs \ {i} : command'[k] = command[k],
         UNCHANGED <<asked, phase, next, nodes, pool, results, answer, runs>>
  PROVE  ExecInv'
<1>1. phase = "running" /\ QueueInv /\ RunsInv /\ WorkersInv /\ JobsInv
  BY AtWork
<1>2. NamesInv'
  BY DEF ExecInv, NamesInv
<1>3. Taken' = Taken
  BY DEF Taken, pool
<1>4. QueueInv' /\ RunsInv'
  BY <1>1, <1>3 DEF QueueInv, RunsInv, pool
<1>5. \A k \in Jobs : Busy(k)' <=> Busy(k)
  BY DEF Busy
<1>6. WorkersInv'
  <2>1. \A w \in Workers : job[w] # NoJob => job[w] \in Jobs
    BY DEF ExecInv, TypeOK
  <2>2. \A w \in Workers : job[w] # NoJob => (Busy(job[w]) => command'[job[w]] \in {"running", "exited"})
    BY <2>1 DEF Busy
  <2> QED BY <1>1, <1>3, <2>2 DEF WorkersInv, Busy, pool
<1>7. JobsInv'
  <2>1. \A k \in Jobs : k > Taken => command'[k] = "none"
    BY <1>1 DEF JobsInv, Busy
  <2> QED BY <1>1, <1>3, <1>5, <2>1 DEF JobsInv, pool
<1>8. PoolInv'
  BY <1>1, <1>4, <1>6, <1>7 DEF PoolInv, AnswerInv
<1> QED BY <1>2, <1>8 DEF ExecInv

LEMMA ExitCommandStep ==
  ASSUME ExecInv, NEW i \in Jobs, ExitCommand(i)
  PROVE  ExecInv'
<1>1. PICK code \in Codes, left \in BOOLEAN :
        /\ command[i] = "running"
        /\ command' = [command EXCEPT ![i] = "exited"]
        /\ exits' = [exits EXCEPT ![i] = code]
        /\ held' = [held EXCEPT ![i] = left]
        /\ UNCHANGED <<asked, phase, next, nodes, pool, late, results, answer, runs>>
  BY DEF ExitCommand
<1>2. TypeOK'
  BY <1>1 DEF ExecInv, TypeOK, pool
<1>3. CodesInv'
  <2>1. \A k \in Jobs : exits'[k] = Killed => exits[k] = Killed
    <3>1. code # Killed
      BY DEF Codes, Timeout, Killed
    <3> QED BY <1>1, <3>1 DEF ExecInv, TypeOK
  <2>2. \A k \in Jobs : command'[k] = "waited" => command[k] = "waited" /\ exits'[k] = exits[k]
    BY <1>1 DEF ExecInv, TypeOK
  <2> QED BY <1>1, <2>1, <2>2 DEF ExecInv, CodesInv, CodeOf, ExitCode
<1>4. Busy(i) /\ Busy(i)' /\ \A k \in Jobs \ {i} : command'[k] = command[k]
  BY <1>1 DEF ExecInv, TypeOK, Busy
<1> QED BY <1>1, <1>2, <1>3, <1>4, CommandStep

LEMMA KillCommandStep ==
  ASSUME ExecInv, NEW i \in Jobs, KillCommand(i)
  PROVE  ExecInv'
<1>1. PICK left \in BOOLEAN :
        /\ command[i] = "running"
        /\ command' = [command EXCEPT ![i] = "exited"]
        /\ exits' = [exits EXCEPT ![i] = Killed]
        /\ late' = [late EXCEPT ![i] = TRUE]
        /\ held' = [held EXCEPT ![i] = left]
        /\ UNCHANGED <<asked, phase, next, nodes, pool, results, answer, runs>>
  BY DEF KillCommand
<1>2. TypeOK'
  BY <1>1 DEF ExecInv, TypeOK, pool
<1>3. CodesInv'
  <2>1. \A k \in Jobs : exits'[k] = Killed => k = i \/ exits[k] = Killed
    BY <1>1 DEF ExecInv, TypeOK
  <2>2. \A k \in Jobs : late[k] \/ k = i => late'[k]
    BY <1>1 DEF ExecInv, TypeOK
  <2>3. \A k \in Jobs : command'[k] = "waited" => command[k] = "waited" /\ exits'[k] = exits[k]
    BY <1>1 DEF ExecInv, TypeOK
  <2> QED BY <1>1, <2>1, <2>2, <2>3 DEF ExecInv, CodesInv, CodeOf, ExitCode
<1>4. Busy(i) /\ Busy(i)' /\ \A k \in Jobs \ {i} : command'[k] = command[k]
  BY <1>1 DEF ExecInv, TypeOK, Busy
<1> QED BY <1>1, <1>2, <1>3, <1>4, CommandStep

LEMMA PassDeadlineStep ==
  ASSUME ExecInv, NEW i \in Jobs, PassDeadline(i)
  PROVE  ExecInv'
<1> USE DEF PassDeadline
<1>2. TypeOK'
  BY DEF ExecInv, TypeOK, pool
<1>3. CodesInv'
  <2>1. \A k \in Jobs : late[k] => late'[k]
    BY DEF ExecInv, TypeOK
  <2> QED BY <2>1 DEF ExecInv, CodesInv, CodeOf, ExitCode
<1>4. Busy(i) /\ Busy(i)' /\ \A k \in Jobs \ {i} : command'[k] = command[k]
  BY DEF Busy
<1> QED BY <1>2, <1>3, <1>4, CommandStep

(* Who holds the pipes of a command, nothing else depends on.              *)
LEMMA ReleaseStep ==
  ASSUME ExecInv, NEW i \in Jobs, Release(i)
  PROVE  ExecInv'
<1> USE DEF Release
<1>1. TypeOK'
  BY DEF ExecInv, TypeOK, pool
<1>2. NamesInv' /\ CodesInv'
  BY DEF ExecInv, NamesInv, CodesInv, CodeOf, ExitCode
<1>3. Taken' = Taken
  BY DEF Taken, pool
<1>4. Idle => Idle'
  BY DEF Idle, pool
<1>5. QueueInv /\ RunsInv => QueueInv' /\ RunsInv'
  BY <1>3 DEF QueueInv, RunsInv, pool
<1>6. WorkersInv /\ JobsInv => WorkersInv' /\ JobsInv'
  BY <1>3 DEF WorkersInv, JobsInv, Busy, pool
<1>7. AnswerInv => AnswerInv'
  BY DEF AnswerInv, pool
<1> QED BY <1>1, <1>2, <1>4, <1>5, <1>6, <1>7 DEF ExecInv, PoolInv

LEMMA FinishJobStep ==
  ASSUME ExecInv, NEW w \in Workers, FinishJob(w)
  PROVE  ExecInv'
<1> DEFINE i == job[w]
<1>1. /\ i # NoJob /\ command[i] = "exited"
      /\ command' = [command EXCEPT ![i] = "waited"]
      /\ results' = [results EXCEPT ![i] = CodeOf(i)]
      /\ job' = [job EXCEPT ![w] = NoJob]
      /\ UNCHANGED <<asked, phase, next, nodes, ch, working, exits, late, held, answer, runs>>
  BY DEF FinishJob
<1>2. phase = "running" /\ QueueInv /\ RunsInv /\ WorkersInv /\ JobsInv
  BY <1>1, AtWork
<1>t. /\ results \in [Jobs -> Codes \cup {NoCode}]
      /\ job \in [Workers -> Jobs \cup {NoJob}]
      /\ command \in [Jobs -> {"none", "running", "exited", "waited"}]
      /\ exits \in [Jobs -> Codes \cup {Killed}]
  BY DEF ExecInv, TypeOK
<1>3. i \in Jobs
  BY <1>1, <1>t
<1>c. command'[i] = "waited" /\ \A k \in Jobs \ {i} : command'[k] = command[k]
  BY <1>1, <1>3, <1>t
<1>j. job'[w] = NoJob /\ \A v \in Workers \ {w} : job'[v] = job[v]
  BY <1>1, <1>t
<1>r. results'[i] = CodeOf(i) /\ \A k \in Jobs \ {i} : results'[k] = results[k]
  BY <1>1, <1>3, <1>t
<1>o. CodeOf(i) \in Codes /\ CodeOf(i) # NoCode
  BY <1>3, <1>t DEF CodeOf, ExitCode, Codes, NoCode, Timeout, Killed
<1>4. TypeOK'
  BY <1>1, <1>3, <1>o DEF ExecInv, TypeOK
<1>5. CodesInv'
  <2>1. UNCHANGED <<exits, late>>
    BY <1>1
  <2>2. \A k \in Jobs : CodeOf(k)' = CodeOf(k)
    BY <2>1 DEF CodeOf, ExitCode
  <2> QED BY <1>c, <1>r, <2>1, <2>2 DEF ExecInv, CodesInv
<1>6. NamesInv'
  BY <1>1 DEF ExecInv, NamesInv
<1>7. Taken' = Taken
  BY <1>1 DEF Taken
<1>8. QueueInv' /\ RunsInv'
  BY <1>1, <1>2, <1>7 DEF QueueInv, RunsInv
<1>9. \A v \in Workers \ {w} : job[v] # i
  BY <1>1, <1>2 DEF WorkersInv
<1>10. WorkersInv'
  <2>1. \A v \in Workers \ {w} : job[v] # NoJob => job[v] \in Jobs \ {i}
    BY <1>9, <1>t
  <2>2. \A v \in Workers \ {w} : job[v] # NoJob => command'[job[v]] \in {"running", "exited"}
    BY <1>2, <1>c, <2>1 DEF WorkersInv, Busy
  <2> QED BY <1>1, <1>2, <1>7, <1>j, <2>2 DEF WorkersInv, Busy
<1>11. JobsInv'
  <2>1. i \in 1 .. Taken
    BY <1>1, <1>2 DEF WorkersInv
  <2>n. Taken \in Int
    BY LenProperties DEF ExecInv, TypeOK, Taken
  <2>2. ~(i > Taken)
    BY <2>1, <2>n
  <2>3. \A k \in Jobs \ {i} : Busy(k) => \E v \in Workers \ {w} : job[v] = k
    BY <1>2 DEF JobsInv
  <2> QED BY <1>2, <1>7, <1>c, <1>j, <1>r, <1>o, <2>2, <2>3 DEF JobsInv, Busy
<1>12. PoolInv'
  BY <1>1, <1>2, <1>8, <1>10, <1>11 DEF PoolInv, AnswerInv
<1> QED BY <1>4, <1>5, <1>6, <1>12 DEF ExecInv

LEMMA AnswerStep ==
  ASSUME ExecInv, Answer
  PROVE  ExecInv'
<1> USE DEF Answer
<1>1. QueueInv /\ RunsInv /\ WorkersInv /\ JobsInv
  BY DEF ExecInv, PoolInv
<1>2. TypeOK'
  <2>1. nodes \in Seq(Nodes) /\ Len(nodes) \in Nat /\ Len(nodes) <= MaxNames /\ MaxNames \in Nat
    BY LenProperties, ExecConstantsOK DEF ExecInv, TypeOK, ExecConstantsOK
  <2>2. \A i \in 1 .. Len(nodes) : nodes[i] \in Nodes /\ i \in Jobs
    BY <2>1, ElementOfSeq DEF Jobs
  <2>3. answer' \subseteq [node : Nodes, code : Codes \cup {NoCode}]
    BY <2>2 DEF ExecInv, TypeOK
  <2> QED BY <2>3 DEF ExecInv, TypeOK, pool, processes
<1>3. NamesInv' /\ CodesInv'
  BY DEF ExecInv, NamesInv, CodesInv, CodeOf, ExitCode, processes
<1>4. Taken' = Taken
  BY DEF Taken, pool
<1>5. QueueInv' /\ RunsInv'
  BY <1>1, <1>4 DEF QueueInv, RunsInv, pool
<1>6. WorkersInv' /\ JobsInv'
  BY <1>1, <1>4 DEF WorkersInv, JobsInv, Busy, pool, processes
<1>7. AnswerInv'
  BY DEF AnswerInv, pool
<1> QED BY <1>2, <1>3, <1>5, <1>6, <1>7 DEF ExecInv, PoolInv

LEMMA ExecInvNext == ExecInv /\ [Next]_vars => ExecInv'
<1> SUFFICES ASSUME ExecInv, [Next]_vars PROVE ExecInv'
  OBVIOUS
<1>1. CASE UNCHANGED vars
  <2> USE <1>1 DEF vars, pool, processes
  <2>1. TypeOK' /\ NamesInv' /\ CodesInv'
    BY DEF ExecInv, TypeOK, NamesInv, CodesInv, CodeOf, ExitCode
  <2>2. PoolInv'
    BY DEF ExecInv, PoolInv, Idle, QueueInv, RunsInv, WorkersInv, JobsInv, AnswerInv, Busy, Taken
  <2> QED BY <2>1, <2>2 DEF ExecInv
<1>2. CASE ReadName \/ Refuse \/ Accept \/ Answer
  BY <1>2, ReadNameStep, RefuseStep, AcceptStep, AnswerStep
<1>3. CASE \E w \in Workers : TakeJob(w) \/ FinishJob(w) \/ EndWorker(w)
  BY <1>3, TakeJobStep, FinishJobStep, EndWorkerStep
<1>4. CASE \E i \in Jobs : ExitCommand(i) \/ KillCommand(i) \/ PassDeadline(i) \/ Release(i)
  BY <1>4, ExitCommandStep, KillCommandStep, PassDeadlineStep, ReleaseStep
<1> QED BY <1>1, <1>2, <1>3, <1>4 DEF Next

LEMMA ExecInvAlways == Spec => []ExecInv
BY ExecInvInit, ExecInvNext, PTL DEF Spec

-----------------------------------------------------------------------------
(* The theorems.                                                           *)

(* In every state the request, the pool, the commands and the results have *)
(* the types of the model: the pool never has more workers than the limit  *)
(* and no job lies beyond the names of the request.                        *)
THEOREM TypesHold == Spec => []TypeOK
<1>1. ExecInv => TypeOK
  BY DEF ExecInv
<1> QED BY <1>1, ExecInvAlways, PTL

LEMMA AnswerCovers ==
  ASSUME ExecInv PROVE AnswerCoversRequest
<1> SUFFICES ASSUME phase = "answered"
             PROVE  /\ \A n \in Nodes : runs[n] = IF n \in ToSet(asked.names) THEN 1 ELSE 0
                    /\ {r.node : r \in answer} = ToSet(asked.names) \cap Nodes
                    /\ \A r \in answer : r.code # NoCode
                    /\ \A i \in Jobs : command[i] \in {"none", "waited"}
  BY DEF AnswerCoversRequest
<1>1. QueueInv /\ RunsInv /\ WorkersInv /\ JobsInv /\ AnswerInv
  BY DEF ExecInv, PoolInv
<1>2. /\ working = {} /\ ch = <<>>
      /\ answer = {[node |-> nodes[i], code |-> results[i]] : i \in 1 .. Len(nodes)}
  BY <1>1 DEF QueueInv, AnswerInv
<1>3. /\ nodes \in Seq(Nodes) /\ Len(nodes) \in Nat /\ DOMAIN nodes = 1 .. Len(nodes)
      /\ Len(nodes) <= MaxNames /\ MaxNames \in Nat
  BY LenProperties, ExecConstantsOK DEF ExecInv, TypeOK, ExecConstantsOK
<1>4. Taken = Len(nodes)
  BY <1>2, <1>3 DEF Taken
<1>5. ToSet(nodes) = ToSet(asked.names) \cap Nodes
  <2>1. /\ Len(asked.names) \in Nat /\ DOMAIN asked.names = 1 .. Len(asked.names)
        /\ next = Len(asked.names) + 1
    BY <1>1, RequestFacts DEF ExecInv, TypeOK, QueueInv
  <2>2. 1 .. next - 1 = DOMAIN asked.names
    BY <2>1
  <2>3. ToSet(nodes) = ToSet(asked.names) \ {Blank} /\ ToSet(asked.names) \subseteq Nodes \cup {Blank}
    BY <2>2 DEF ExecInv, NamesInv, ToSet
  <2>4. Blank \notin Nodes
    BY ExecConstantsOK DEF ExecConstantsOK
  <2> QED BY <2>3, <2>4
<1>6. \A i \in Jobs : ~Busy(i)
  <2>1. \A w \in Workers : job[w] = NoJob
    BY <1>1, <1>2 DEF WorkersInv
  <2> QED BY <1>1, <2>1 DEF JobsInv, Jobs, NoJob
<1>7. \A n \in Nodes : runs[n] = IF n \in ToSet(asked.names) THEN 1 ELSE 0
  <2>1. \A n \in Nodes : (\E i \in 1 .. Taken : nodes[i] = n) <=> n \in ToSet(asked.names)
    BY <1>3, <1>4, <1>5 DEF ToSet
  <2> QED BY <1>1, <2>1 DEF RunsInv
<1>8. {r.node : r \in answer} = ToSet(nodes)
  <2>1. \A r \in answer : r.node \in ToSet(nodes)
    BY <1>2, <1>3 DEF ToSet
  <2>2. ASSUME NEW n \in ToSet(nodes)
        PROVE  \E r \in answer : r.node = n
    <3>1. PICK i \in 1 .. Len(nodes) : nodes[i] = n
      BY <1>3 DEF ToSet
    <3>2. [node |-> nodes[i], code |-> results[i]] \in answer
      BY <1>2
    <3> QED BY <3>1, <3>2
  <2> QED BY <2>1, <2>2
<1>9. \A r \in answer : r.code # NoCode
  <2>1. \A i \in 1 .. Len(nodes) : i \in Jobs /\ i <= Taken
    BY <1>3, <1>4 DEF Jobs
  <2>2. \A i \in 1 .. Len(nodes) : results[i] # NoCode
    BY <1>1, <1>6, <2>1 DEF JobsInv
  <2> QED BY <1>2, <2>2
<1>10. \A i \in Jobs : command[i] \in {"none", "waited"}
  BY <1>6 DEF ExecInv, TypeOK, Busy
<1> QED BY <1>5, <1>7, <1>8, <1>9, <1>10

(* For any lab, request and limits, and any order in which the workers     *)
(* take the jobs: when the answer is given, each node that was named was   *)
(* run exactly once, has a result, and no command still runs.              *)
THEOREM EveryNodeOnce == Spec => []AnswerCoversRequest
<1>1. ExecInv => AnswerCoversRequest
  BY AnswerCovers
<1> QED BY <1>1, ExecInvAlways, PTL

(* The code of an answer is the result of one job, whose command, if it    *)
(* had one, was waited for.                                                *)
LEMMA CodesTell ==
  ASSUME ExecInv PROVE CodesAreHonest
<1> SUFFICES ASSUME phase = "answered", NEW r \in answer
             PROVE  \E i \in DOMAIN nodes :
                      /\ nodes[i] = r.node
                      /\ command[i] \in {"none", "waited"}
                      /\ IF command[i] = "none" THEN r.code = -1
                         ELSE /\ r.code = 0 <=> exits[i] = 0
                              /\ exits[i] = Killed => r.code = Timeout
                              /\ r.code = Timeout => late[i] \/ exits[i] = Timeout
                              /\ r.code \notin {0, Timeout} => r.code = exits[i] /\ ~late[i]
  BY DEF CodesAreHonest
<1>2. AnswerInv /\ AnswerCoversRequest
  BY AnswerCovers DEF ExecInv, PoolInv
<1>3. PICK i \in 1 .. Len(nodes) : r = [node |-> nodes[i], code |-> results[i]]
  BY <1>2 DEF AnswerInv
<1>4. /\ i \in DOMAIN nodes /\ i \in Jobs
      /\ exits[i] \in Codes \cup {Killed}
  BY <1>3, LenProperties, ExecConstantsOK DEF ExecInv, TypeOK, Jobs, ExecConstantsOK
<1>5. command[i] \in {"none", "waited"} /\ r.code # NoCode
  BY <1>2, <1>4 DEF AnswerCoversRequest
<1>6. CASE command[i] = "none"
  BY <1>3, <1>4, <1>5, <1>6 DEF ExecInv, CodesInv
<1>7. CASE command[i] = "waited"
  <2>1. r.code = CodeOf(i) /\ (exits[i] = Killed => late[i])
    BY <1>3, <1>4, <1>7 DEF ExecInv, CodesInv
  <2> QED BY <1>3, <1>4, <1>5, <1>7, <2>1 DEF CodeOf, ExitCode, Codes, Timeout, Killed
<1> QED BY <1>5, <1>6, <1>7

(* For commands that end in any way, with any children, and any limits of  *)
(* the pool: 0 is answered for those that succeeded and no others, 124 for *)
(* every one the deadline killed, and else only if the deadline passed all *)
(* the same or the command returned 124 itself; other codes are the        *)
(* command's own, before the deadline.                                     *)
THEOREM CodesHonest == Spec => []CodesAreHonest
<1>1. ExecInv => CodesAreHonest
  BY CodesTell
<1> QED BY <1>1, ExecInvAlways, PTL
=============================================================================
