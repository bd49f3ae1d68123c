-------------------------- MODULE AutomationProofs --------------------------
(***************************************************************************)
(* For any nodes, scripts, number of jobs and faults: a node has one       *)
(* unfinished expect job at most, a wait after a command sees only output  *)
(* that came after it, and a run that is reported finished is over.        *)
(*                                                                         *)
(* What makes these inductive: the task that ends is the one its node is   *)
(* busy with (Owned), so that Finish frees no other job's node; and a run  *)
(* knows of each job it started a status that is unfinished or the job's   *)
(* last one, although the job may be forgotten before the next poll        *)
(* (Folded).                                                               *)
(***************************************************************************)
EXTENDS Automation, FiniteSetTheorems, TLAPS

Places == {"insert", "record", "fail", "delay", "wait"}
Entries == {"none", "queued", "skipped", "rejected", "pending", "running"} \union Final

\* The types, and the bounds: of the nodes' output,
OutputTyped ==
  /\ online \subseteq Nodes
  /\ emitted \in [Nodes -> 0..MaxOutput] /\ received \in [Nodes -> Nat]
  /\ tailFrom \in [Nodes -> Nat] /\ prompts \in [Nodes -> SUBSET Nat]
  /\ \A n \in Nodes : /\ received[n] <= emitted[n] /\ tailFrom[n] <= received[n]
                      /\ prompts[n] \subseteq 1..emitted[n]
  /\ drops \in 0..MaxFaults

\* of the jobs,
JobsTyped ==
  /\ node \in [Jobs -> Nodes \union {None}]
  /\ script \in [Jobs -> {<<>>, DirectScript, RunbookScript}]
  /\ status \in [Jobs -> {"none", "pending", "running"} \union Final]
  /\ at \in [Jobs -> {"none", "start", "ended"} \union Places]
  /\ step \in [Jobs -> Nat] /\ bufFrom \in [Jobs -> Nat]
  /\ issued \in [Jobs -> Nat \union {None}]
  /\ \A j \in Jobs : step[j] <= Len(script[j])
  /\ \A j \in Jobs : node[j] \in Nodes => bufFrom[j] <= received[node[j]]
  /\ event \in [Jobs -> BOOLEAN] /\ cancelled \in [Jobs -> BOOLEAN]
  /\ overdue \in [Jobs -> BOOLEAN] /\ old \in [Jobs -> BOOLEAN]
  /\ active \in [Nodes -> Jobs \union {None}]
  /\ byJob \subseteq Jobs

\* and of the run.
RunTyped ==
  /\ entry \in [Nodes -> Entries]
  /\ jobOf \in [Nodes -> Jobs \union {None}]
  /\ driven \in 0..Len(NodeOrder)
  /\ run \in {"none", "open", "finished", "gone"} /\ runOld \in BOOLEAN

\* A job's status tells whether its task is there.
Started ==
  \A j \in Jobs :
    /\ status[j] = "none" <=> at[j] = "none"
    /\ status[j] \in Final <=> at[j] = "ended"
    /\ at[j] # "none" => node[j] \in Nodes
    /\ at[j] = "none" => step[j] = 0 /\ issued[j] = None

\* A node is busy with its unfinished job.
Owned ==
  /\ \A j \in Live : active[node[j]] = j
  /\ \A n \in Nodes : active[n] # None => active[n] \in Live /\ node[active[n]] = n

\* A job's buffer begins where it last issued a command.
Fresh == \A j \in Jobs : issued[j] # None => issued[j] <= bufFrom[j]

\* What the run knows of its jobs.
Folded ==
  /\ run = "none" => driven = 0 /\ \A n \in Nodes : jobOf[n] = None
  /\ \A p \in DOMAIN NodeOrder : p > driven =>
       /\ jobOf[NodeOrder[p]] = None
       /\ run # "none" => entry[NodeOrder[p]] = "queued"
  /\ \A n \in Nodes : jobOf[n] # None =>
       /\ status[jobOf[n]] # "none"
       /\ \/ entry[n] \in {"pending", "running"}
          \/ entry[n] \in Final /\ entry[n] = status[jobOf[n]]
  /\ run = "finished" => \A n \in Nodes : ~Unfinished(entry[n])

Typed == OutputTyped /\ JobsTyped /\ RunTyped

Invariant == Typed /\ Started /\ Owned /\ Fresh /\ Folded

-----------------------------------------------------------------------------
(* What the invariant says of TypeOK, and of the constants.                *)

\* The scripts' lengths, and the targets.
LEMMA ConstantFacts ==
  /\ Len(<<>>) = 0 /\ Len(DirectScript) \in Nat \ {0} /\ Len(RunbookScript) \in Nat \ {0}
  /\ Len(NodeOrder) \in Nat /\ DOMAIN NodeOrder = 1..Len(NodeOrder)
  /\ \A p \in 1..Len(NodeOrder) : NodeOrder[p] \in Nodes
  /\ \A p, q \in 1..Len(NodeOrder) : NodeOrder[p] = NodeOrder[q] => p = q
  /\ MaxDirect \in Nat /\ MaxOutput \in Nat /\ MaxFaults \in Nat /\ None \notin Jobs
<1>1. Len(NodeOrder) \in Nat /\ DOMAIN NodeOrder = 1..Len(NodeOrder)
      /\ \A p \in 1..Len(NodeOrder) : NodeOrder[p] \in Nodes
  BY NodesAssumption
<1>2. Len(DirectScript) \in Nat \ {0} /\ Len(RunbookScript) \in Nat \ {0}
  BY ScriptAssumption
<1>. QED BY <1>1, <1>2, NodesAssumption, BoundsAssumption, NoneAssumption

\* The faults so far are at least the drops.
LEMMA FaultsFacts ==
  ASSUME Typed, Faults < MaxFaults
  PROVE  drops + 1 \in 0..MaxFaults
<1>. DEFINE marked(f) == Cardinality({j \in Jobs : f[j]})
            last == IF runOld THEN 1 ELSE 0
<1>1. \A S \in SUBSET Jobs : Cardinality(S) \in Nat
  <2>1. IsFiniteSet(Jobs)
    BY FS_Interval, ConstantFacts DEF Jobs
  <2>. QED BY <2>1, FS_Subset, FS_CardinalityType
<1>2. /\ marked(cancelled) \in Nat /\ marked(overdue) \in Nat /\ marked(old) \in Nat
      /\ last \in Nat
  BY <1>1
<1>3. Faults = drops + marked(cancelled) + marked(overdue) + marked(old) + last
  BY DEF Faults
<1>. HIDE DEF marked, last
<1>4. drops \in Nat /\ MaxFaults \in Nat
  BY ConstantFacts DEF Typed, OutputTyped
<1>. QED BY <1>2, <1>3, <1>4

\* A live job is pending or running, and on a node.
LEMMA LiveFacts ==
  ASSUME JobsTyped, Started, NEW j \in Live
  PROVE  j \in Jobs /\ status[j] \in {"pending", "running"} /\ node[j] \in Nodes
         /\ at[j] \notin {"none", "ended"}
BY DEF JobsTyped, Started, Live, Final

\* What a node is busy with, and the types, make TypeOK.
LEMMA InvariantTypes ==
  ASSUME Invariant
  PROVE  TypeOK
<1>1. Typed /\ Started /\ Owned /\ Fresh
  BY DEF Invariant
<1>2. \A j, k \in Live : node[j] = node[k] => j = k
  BY <1>1 DEF Owned
<1>3. \A n \in Nodes : active[n] # None <=> \E j \in Live : node[j] = n
  <2>1. None \notin Live
    BY ConstantFacts DEF Live
  <2>. QED BY <1>1, <2>1 DEF Owned
<1>4. \A n \in Nodes : /\ received[n] \in 0..emitted[n] /\ emitted[n] \in 0..MaxOutput
                       /\ prompts[n] \subseteq 1..emitted[n] /\ tailFrom[n] \in 0..received[n]
  BY <1>1 DEF Typed, OutputTyped
<1>5. \A j \in Jobs : step[j] \in 0..Len(script[j])
  <2>1. ASSUME NEW j \in Jobs PROVE Len(script[j]) \in Nat
    BY <1>1, ConstantFacts DEF Typed, JobsTyped
  <2>. QED BY <1>1, <2>1 DEF Typed, JobsTyped
<1>6. ASSUME NEW j \in Jobs, NEW n \in Nodes, node[j] = n
      PROVE  bufFrom[j] \in 0..received[n] /\ (issued[j] # None => issued[j] \in 0..received[n])
  <2>1. bufFrom[j] \in Nat /\ received[n] \in Nat /\ bufFrom[j] <= received[n]
        /\ issued[j] \in Nat \union {None}
    BY <1>1, <1>6 DEF Typed, JobsTyped, OutputTyped
  <2>2. issued[j] # None => issued[j] \in Nat /\ issued[j] <= bufFrom[j]
    BY <1>1, <2>1 DEF Fresh
  <2>. QED BY <2>1, <2>2
<1>. QED BY <1>1, <1>2, <1>3, <1>4, <1>5, <1>6
     DEF TypeOK, Typed, OutputTyped, JobsTyped, RunTyped, Places, Entries

-----------------------------------------------------------------------------
(* Nodes come and go, and print.                                           *)

\* Where the jobs and the run stand still, and no less was received, they are fine.
LEMMA JobsStandStill ==
  ASSUME Invariant, OutputTyped', UNCHANGED <<runbook, issued, node, script, status, at, step,
           bufFrom, active>>, event' \in [Jobs -> BOOLEAN], cancelled' \in [Jobs -> BOOLEAN],
         overdue' \in [Jobs -> BOOLEAN], old' \in [Jobs -> BOOLEAN], byJob' \subseteq Jobs,
         \A n \in Nodes : received'[n] >= received[n]
  PROVE  Invariant'
<1>1. Typed /\ Started /\ Owned /\ Fresh /\ Folded
  BY DEF Invariant
<1>2. JobsTyped'
  <2>1. ASSUME NEW j \in Jobs, node[j] \in Nodes PROVE bufFrom[j] <= received'[node[j]]
    <3>1. bufFrom[j] \in Nat /\ received[node[j]] \in Nat /\ received'[node[j]] \in Nat
          /\ bufFrom[j] <= received[node[j]] /\ received'[node[j]] >= received[node[j]]
      BY <1>1, <2>1 DEF Typed, JobsTyped, OutputTyped
    <3>. QED BY <3>1
  <2>. QED BY <1>1, <2>1 DEF Typed, JobsTyped
<1>3. RunTyped' /\ Started' /\ Owned' /\ Fresh' /\ Folded'
  BY <1>1 DEF Typed, RunTyped, Started, Owned, Fresh, Folded, runbook, Live
<1>. QED BY <1>2, <1>3 DEF Invariant, Typed

LEMMA NodeHolds ==
  ASSUME Invariant, NEW n \in Nodes, Emit(n) \/ Receive(n) \/ Drop(n) \/ Return(n)
  PROVE  Invariant'
<1>1. OutputTyped /\ JobsTyped /\ Typed /\ MaxOutput \in Nat
      /\ emitted[n] \in 0..MaxOutput /\ received[n] \in Nat /\ tailFrom[n] \in Nat
      /\ received[n] <= emitted[n] /\ prompts[n] \subseteq 1..emitted[n] /\ tailFrom[n] <= received[n]
  BY ConstantFacts DEF Invariant, Typed, OutputTyped
<1>2. CASE Emit(n)
  <2>1. /\ emitted' = [emitted EXCEPT ![n] = emitted[n] + 1] /\ emitted[n] < MaxOutput
        /\ prompts' = prompts \/ prompts' = [prompts EXCEPT ![n] = prompts[n] \union {emitted'[n]}]
        /\ UNCHANGED <<online, received, tailFrom, job, runbook, drops, issued>>
    BY <1>2 DEF Emit
  <2>2. emitted' \in [Nodes -> 0..MaxOutput] /\ emitted'[n] = emitted[n] + 1
        /\ \A m \in Nodes : m # n => emitted'[m] = emitted[m]
    BY <1>1, <2>1 DEF OutputTyped
  <2>3. prompts' \in [Nodes -> SUBSET Nat]
        /\ \A m \in Nodes : m # n => prompts'[m] = prompts[m]
    BY <1>1, <2>1, <2>2 DEF OutputTyped
  <2>6. prompts'[n] \subseteq prompts[n] \union {emitted[n] + 1}
    BY <1>1, <2>1, <2>2 DEF OutputTyped
  <2>4. ASSUME NEW m \in Nodes
        PROVE  received[m] <= emitted'[m] /\ prompts'[m] \subseteq 1..emitted'[m]
    <3>1. CASE m = n
      <4>1. emitted[n] \in Nat /\ emitted'[n] = emitted[n] + 1
        BY <1>1, <2>2
      <4>2. ASSUME NEW x \in prompts'[n] PROVE x \in 1..emitted'[n]
        <5>1. x \in prompts[n] \/ x = emitted[n] + 1
          BY <2>6
        <5>2. prompts[n] \subseteq 1..emitted[n]
          BY <1>1
        <5>3. x \in 1..emitted[n] \/ x = emitted[n] + 1
          BY <5>1, <5>2
        <5>. QED BY <4>1, <5>3
      <4>3. received[n] <= emitted'[n]
        BY <1>1, <4>1
      <4>. QED BY <3>1, <4>2, <4>3
    <3>2. CASE m # n
      BY <1>1, <2>2, <2>3, <3>2 DEF OutputTyped
    <3>. QED BY <3>1, <3>2
  <2>5. OutputTyped'
    BY <1>1, <2>1, <2>2, <2>3, <2>4 DEF OutputTyped
  <2>. QED BY <1>1, <2>1, <2>5, JobsStandStill DEF OutputTyped, JobsTyped, job, task
<1>3. CASE Receive(n)
  <2>1. /\ received' = [received EXCEPT ![n] = received[n] + 1] /\ received[n] < emitted[n]
        /\ event' = [j \in Jobs |-> IF active[n] = j /\ j \in byJob THEN TRUE ELSE event[j]]
        /\ UNCHANGED <<online, emitted, prompts, tailFrom, node, script, status, at, step, bufFrom,
                       cancelled, overdue, active, byJob, old, runbook, drops, issued>>
    BY <1>3 DEF Receive
  <2>2. event' \in [Jobs -> BOOLEAN]
    BY <1>1, <2>1 DEF JobsTyped
  <2>3. received' \in [Nodes -> Nat]
        /\ \A m \in Nodes : received'[m] >= received[m] /\ received'[m] <= emitted[m]
                            /\ tailFrom[m] <= received'[m]
    BY <1>1, <2>1 DEF OutputTyped
  <2>4. OutputTyped'
    BY <1>1, <2>1, <2>3 DEF OutputTyped
  <2>. QED BY <1>1, <2>1, <2>2, <2>3, <2>4, JobsStandStill DEF JobsTyped
<1>4. CASE Drop(n)
  <2>1. /\ drops' = drops + 1 /\ Faults < MaxFaults /\ online' = online \ {n}
        /\ emitted' = [emitted EXCEPT ![n] = received[n]]
        /\ prompts' = [prompts EXCEPT ![n] = prompts[n] \intersect 1..received[n]]
        /\ UNCHANGED <<received, tailFrom, job, runbook, issued>>
    BY <1>4 DEF Drop
  <2>2. drops' \in 0..MaxFaults
    BY <1>1, <2>1, FaultsFacts
  <2>3. emitted' \in [Nodes -> 0..MaxOutput] /\ prompts' \in [Nodes -> SUBSET Nat]
        /\ \A m \in Nodes : received[m] <= emitted'[m] /\ prompts'[m] \subseteq 1..emitted'[m]
    BY <1>1, <2>1 DEF OutputTyped
  <2>4. OutputTyped'
    BY <1>1, <2>1, <2>2, <2>3 DEF OutputTyped
  <2>. QED BY <1>1, <2>1, <2>4, JobsStandStill DEF OutputTyped, JobsTyped, job, task
<1>5. CASE Return(n)
  <2>1. /\ online' = online \union {n} /\ tailFrom' = [tailFrom EXCEPT ![n] = received[n]]
        /\ UNCHANGED <<emitted, received, prompts, job, runbook, drops, issued>>
    BY <1>5 DEF Return
  <2>2. OutputTyped'
    BY <1>1, <2>1 DEF OutputTyped
  <2>. QED BY <1>1, <2>1, <2>2, JobsStandStill DEF OutputTyped, JobsTyped, job, task
<1>. QED BY <1>2, <1>3, <1>4, <1>5

\* A job is cancelled, has run for too long, or ended long ago.
LEMMA MarkHolds ==
  ASSUME Invariant, NEW j \in Jobs, Cancel(j) \/ Overdue(j) \/ Age(j)
  PROVE  Invariant'
<1>1. OutputTyped /\ JobsTyped
  BY DEF Invariant, Typed
<1>2. OutputTyped' /\ UNCHANGED <<received, runbook, issued, node, script, status, at, step,
                                  bufFrom, active, event, byJob>>
  BY <1>1 DEF Cancel, Overdue, Age, OutputTyped, output, task
<1>3. cancelled' \in [Jobs -> BOOLEAN] /\ overdue' \in [Jobs -> BOOLEAN] /\ old' \in [Jobs -> BOOLEAN]
  BY <1>1 DEF Cancel, Overdue, Age, JobsTyped
<1>. QED BY <1>1, <1>2, <1>3, JobsStandStill DEF OutputTyped, JobsTyped

-----------------------------------------------------------------------------
(* A job's task.                                                           *)

\* The task goes on to another await, and may have issued a command.
Goes(j) ==
  /\ \E st \in {"pending", "running"}, a \in Places, x \in 0..Len(script[j]) :
       /\ status' = [status EXCEPT ![j] = st]
       /\ at' = [at EXCEPT ![j] = a]
       /\ step' = [step EXCEPT ![j] = x]
  /\ event' \in [Jobs -> BOOLEAN]
  /\ UNCHANGED <<active, byJob>>
  /\ \/ UNCHANGED <<bufFrom, issued>>
     \/ /\ bufFrom' = [bufFrom EXCEPT ![j] = received[node[j]]]
        /\ issued' = [issued EXCEPT ![j] = received[node[j]]]

Ends(j) == \E s \in Final : Finish(j, s)

\* The loop over the steps comes to an await, or to the end.
LEMMA AdvanceMoves ==
  ASSUME Invariant, NEW j \in Live, NEW i \in Nat \ {0}, Advance(j, i)
  PROVE  Goes(j) \/ Ends(j)
<1>1. /\ j \in Jobs /\ event \in [Jobs -> BOOLEAN] /\ Len(script[j]) \in Nat
      /\ {"done", "failed", "timeout"} \subseteq Final
      /\ {"insert", "delay", "wait"} \subseteq Places
  BY ConstantFacts DEF Invariant, Typed, JobsTyped, Live, Final, Places
<1>2. ASSUME NEW k \in i..Len(script[j]) + 1, k <= Len(script[j])
      PROVE  k \in 0..Len(script[j])
  BY <1>1, <1>2
<1>3. ASSUME NEW k \in 0..Len(script[j]), Issue(j, k)
      PROVE  Goes(j)
  BY <1>1, <1>3 DEF Issue, Block, ClearBuffer, Goes
<1>4. ASSUME NEW k \in 0..Len(script[j]), Block(j, k, "delay"), UNCHANGED <<bufFrom, event, issued>>
      PROVE  Goes(j)
  BY <1>1, <1>4 DEF Block, Goes
<1>5. ASSUME NEW k \in 0..Len(script[j]), Block(j, k, "wait"), UNCHANGED <<bufFrom, issued>>,
             event' = [event EXCEPT ![j] = FALSE]
      PROVE  Goes(j)
  BY <1>1, <1>5 DEF Block, Goes
<1>. QED BY <1>1, <1>2, <1>3, <1>4, <1>5 DEF Advance, Ends

\* Whatever resumes a task, it goes on or ends.
LEMMA ResumeMoves ==
  ASSUME Invariant, NEW j \in Jobs, Resume(j)
  PROVE  j \in Live /\ UNCHANGED rest /\ (Goes(j) \/ Ends(j))
<1>1. j \in Live /\ UNCHANGED rest
  BY DEF Resume, Run, Write, SendFails, Recorded, ActionFailed, DelayOver, Woken, TimerFires,
     Stopped, Resumes, Live, rest
<1>2. /\ JobsTyped /\ status[j] \in {"pending", "running"} /\ step[j] \in Nat
      /\ step[j] + 1 \in Nat \ {0} /\ 1 \in Nat \ {0} /\ step[j] \in 0..Len(script[j])
      /\ {"failed", "timeout", "cancelled"} \subseteq Final /\ {"record", "fail", "wait"} \subseteq Places
  <2>1. JobsTyped /\ Started
    BY DEF Invariant, Typed
  <2>2. step[j] \in Nat /\ Len(script[j]) \in Nat /\ step[j] <= Len(script[j])
    BY <2>1, ConstantFacts DEF JobsTyped
  <2>. QED BY <1>1, <2>1, <2>2, LiveFacts DEF Final, Places
<1>3. CASE Run(j) \/ Recorded(j) \/ DelayOver(j)
  BY <1>1, <1>2, <1>3, AdvanceMoves DEF Run, Recorded, DelayOver
<1>4. ASSUME NEW a \in Places, at' = [at EXCEPT ![j] = a],
             UNCHANGED <<status, step, bufFrom, active, byJob, issued>>, event' \in [Jobs -> BOOLEAN]
      PROVE  Goes(j)
  <2>1. status' = [status EXCEPT ![j] = status[j]] /\ step' = [step EXCEPT ![j] = step[j]]
    BY <1>2, <1>4 DEF JobsTyped
  <2>. QED BY <1>2, <1>4, <2>1 DEF Goes
<1>5. CASE Write(j) \/ SendFails(j)
  <2>1. PICK a \in {"record", "fail"} : at' = [at EXCEPT ![j] = a]
    BY <1>5 DEF Write, SendFails
  <2>2. UNCHANGED <<status, step, bufFrom, active, byJob, issued, event>>
    BY <1>5 DEF Write, SendFails
  <2>3. event' \in [Jobs -> BOOLEAN]
    BY <1>2, <2>2 DEF JobsTyped
  <2>. QED BY <1>1, <1>2, <1>4, <2>1, <2>2, <2>3
<1>6. CASE Woken(j)
  <2>1. CASE event' = [event EXCEPT ![j] = FALSE] /\ UNCHANGED <<status, at, step, bufFrom, active,
             byJob, issued>>
    <3>1. at' = [at EXCEPT ![j] = "wait"] /\ event' \in [Jobs -> BOOLEAN]
      BY <1>2, <1>6, <2>1 DEF Woken, Resumes, JobsTyped
    <3>. QED BY <1>1, <1>2, <1>4, <2>1, <3>1
  <2>. QED BY <1>1, <1>2, <1>6, <2>1, AdvanceMoves DEF Woken
<1>7. CASE ActionFailed(j) \/ Stopped(j)
  BY <1>1, <1>2, <1>7 DEF ActionFailed, Stopped, Ends
<1>8. CASE TimerFires(j)
  BY <1>1, <1>2, <1>8, AdvanceMoves DEF TimerFires, Ends
<1>. QED BY <1>1, <1>3, <1>5, <1>6, <1>7, <1>8 DEF Resume

\* A task that goes on keeps its node, and what it issued is before its buffer.
LEMMA GoesHolds ==
  ASSUME Invariant, NEW j \in Live, UNCHANGED rest, Goes(j)
  PROVE  Invariant'
<1>1. Typed /\ Started /\ Owned /\ Fresh /\ Folded /\ OutputTyped /\ JobsTyped /\ RunTyped
  BY DEF Invariant, Typed
<1>2. j \in Jobs /\ status[j] \in {"pending", "running"} /\ node[j] \in Nodes
      /\ at[j] \notin {"none", "ended"} /\ received[node[j]] \in Nat
  BY <1>1, LiveFacts DEF OutputTyped
<1>3. PICK st \in {"pending", "running"}, a \in Places, x \in 0..Len(script[j]) :
         /\ status' = [status EXCEPT ![j] = st]
         /\ at' = [at EXCEPT ![j] = a]
         /\ step' = [step EXCEPT ![j] = x]
  BY DEF Goes
<1>4. /\ UNCHANGED <<online, emitted, received, prompts, tailFrom, node, script, cancelled,
                     overdue, old, entry, jobOf, driven, run, runOld, drops, active, byJob>>
      /\ event' \in [Jobs -> BOOLEAN]
      /\ \/ UNCHANGED <<bufFrom, issued>>
         \/ /\ bufFrom' = [bufFrom EXCEPT ![j] = received[node[j]]]
            /\ issued' = [issued EXCEPT ![j] = received[node[j]]]
  BY DEF Goes, rest, output, runbook
<1>5. OutputTyped' /\ RunTyped'
  BY <1>1, <1>4 DEF OutputTyped, RunTyped
<1>6. /\ status' \in [Jobs -> {"none", "pending", "running"} \union Final]
      /\ at' \in [Jobs -> {"none", "start", "ended"} \union Places]
      /\ step' \in [Jobs -> Nat] /\ \A k \in Jobs : step'[k] <= Len(script[k])
  BY <1>1, <1>2, <1>3, ConstantFacts DEF JobsTyped
<1>7. /\ bufFrom' \in [Jobs -> Nat] /\ issued' \in [Jobs -> Nat \union {None}]
      /\ \A k \in Jobs : node[k] \in Nodes => bufFrom'[k] <= received[node[k]]
      /\ Fresh'
  <2>1. CASE UNCHANGED <<bufFrom, issued>>
    BY <1>1, <2>1 DEF JobsTyped, Fresh
  <2>2. CASE /\ bufFrom' = [bufFrom EXCEPT ![j] = received[node[j]]]
             /\ issued' = [issued EXCEPT ![j] = received[node[j]]]
    BY <1>1, <1>2, <2>2 DEF JobsTyped, Fresh
  <2>. QED BY <1>4, <2>1, <2>2
<1>8. JobsTyped'
  BY <1>1, <1>4, <1>6, <1>7 DEF JobsTyped
<1>9. Live' = Live
  BY <1>1, <1>2, <1>3 DEF Live, JobsTyped, Places
<1>10. Started'
  <2>1. ASSUME NEW k \in Jobs, k # j PROVE status'[k] = status[k] /\ at'[k] = at[k]
               /\ step'[k] = step[k] /\ issued'[k] = issued[k]
    BY <1>1, <1>3, <1>4, <2>1 DEF JobsTyped
  <2>2. status'[j] \in {"pending", "running"} /\ at'[j] \in Places
    BY <1>1, <1>2, <1>3 DEF JobsTyped
  <2>. QED BY <1>1, <1>2, <1>4, <2>1, <2>2 DEF Started, Final, Places
<1>11. Owned'
  BY <1>1, <1>4, <1>9 DEF Owned
<1>12. Folded'
  <2>1. ASSUME NEW k \in Jobs
        PROVE  (status[k] # "none" => status'[k] # "none")
               /\ (status[k] \in Final => status'[k] = status[k])
    BY <1>1, <1>2, <1>3 DEF JobsTyped, Final
  <2>. QED BY <1>1, <1>4, <2>1 DEF Folded, RunTyped
<1>. QED BY <1>5, <1>7, <1>8, <1>10, <1>11, <1>12 DEF Invariant, Typed

\* A task that ends leaves its node free, and no other.
LEMMA EndsHolds ==
  ASSUME Invariant, NEW j \in Live, UNCHANGED rest, Ends(j)
  PROVE  Invariant'
<1>1. Typed /\ Started /\ Owned /\ Fresh /\ Folded /\ OutputTyped /\ JobsTyped /\ RunTyped
  BY DEF Invariant, Typed
<1>2. j \in Jobs /\ status[j] \in {"pending", "running"} /\ node[j] \in Nodes
      /\ at[j] \notin {"none", "ended"} /\ active[node[j]] = j
  BY <1>1, LiveFacts DEF Owned
<1>3. PICK s \in Final : Finish(j, s)
  BY DEF Ends
<1>4. /\ status' = [status EXCEPT ![j] = s] /\ at' = [at EXCEPT ![j] = "ended"]
      /\ active' = [active EXCEPT ![node[j]] = None]
      /\ byJob' \subseteq byJob
      /\ step' = [step EXCEPT ![j] = 0] /\ bufFrom' = [bufFrom EXCEPT ![j] = 0]
      /\ event' = [event EXCEPT ![j] = FALSE] /\ issued' = [issued EXCEPT ![j] = None]
  BY <1>2, <1>3 DEF Finish
<1>5. UNCHANGED <<online, emitted, received, prompts, tailFrom, node, script, cancelled,
                  overdue, old, entry, jobOf, driven, run, runOld, drops>>
  BY DEF rest, output, runbook
<1>6. OutputTyped' /\ RunTyped'
  BY <1>1, <1>5 DEF OutputTyped, RunTyped
<1>7. JobsTyped'
  <2>1. /\ status' \in [Jobs -> {"none", "pending", "running"} \union Final]
        /\ at' \in [Jobs -> {"none", "start", "ended"} \union Places]
        /\ active' \in [Nodes -> Jobs \union {None}]
        /\ event' \in [Jobs -> BOOLEAN] /\ issued' \in [Jobs -> Nat \union {None}]
        /\ byJob' \subseteq Jobs
    BY <1>1, <1>2, <1>4 DEF JobsTyped
  <2>2. step' \in [Jobs -> Nat] /\ \A k \in Jobs : step'[k] <= Len(script[k])
    <3>1. \A k \in Jobs : Len(script[k]) \in Nat
      BY <1>1, ConstantFacts DEF JobsTyped
    <3>2. ASSUME NEW k \in Jobs PROVE step'[k] = 0 \/ step'[k] = step[k]
      BY <1>1, <1>4 DEF JobsTyped
    <3>3. step' \in [Jobs -> Nat]
      BY <1>1, <1>4 DEF JobsTyped
    <3>4. \A k \in Jobs : 0 <= Len(script[k]) /\ step[k] <= Len(script[k])
      BY <1>1, <3>1 DEF JobsTyped
    <3>. QED BY <3>2, <3>3, <3>4
  <2>3. bufFrom' \in [Jobs -> Nat] /\ \A k \in Jobs : node[k] \in Nodes => bufFrom'[k] <= received[node[k]]
    <3>1. ASSUME NEW k \in Jobs PROVE bufFrom'[k] = 0 \/ bufFrom'[k] = bufFrom[k]
      BY <1>1, <1>4 DEF JobsTyped
    <3>2. bufFrom' \in [Jobs -> Nat]
      BY <1>1, <1>4 DEF JobsTyped
    <3>3. \A k \in Jobs : node[k] \in Nodes => 0 <= received[node[k]] /\ bufFrom[k] <= received[node[k]]
      BY <1>1 DEF JobsTyped, OutputTyped
    <3>. QED BY <3>1, <3>2, <3>3
  <2>. QED BY <1>1, <1>5, <2>1, <2>2, <2>3 DEF JobsTyped
<1>8. Live' = Live \ {j}
  BY <1>1, <1>2, <1>4 DEF Live, JobsTyped
<1>9. ASSUME NEW k \in Jobs, k # j
      PROVE  status'[k] = status[k] /\ at'[k] = at[k] /\ step'[k] = step[k] /\ issued'[k] = issued[k]
             /\ bufFrom'[k] = bufFrom[k]
  BY <1>1, <1>4, <1>9 DEF JobsTyped
<1>10. status'[j] \in Final /\ at'[j] = "ended" /\ issued'[j] = None
  BY <1>1, <1>2, <1>4 DEF JobsTyped
<1>11. Started' /\ Fresh'
  BY <1>1, <1>2, <1>5, <1>9, <1>10 DEF Started, Fresh, Final
<1>12. Owned'
  <2>1. ASSUME NEW k \in Live, k # j PROVE active'[node[k]] = k
    BY <1>1, <1>2, <1>4, <2>1, LiveFacts DEF Owned, JobsTyped
  <2>2. ASSUME NEW n \in Nodes, active'[n] # None
        PROVE  active'[n] = active[n] /\ active[n] # j
    BY <1>1, <1>2, <1>4, <2>2 DEF Owned, JobsTyped
  <2>. QED BY <1>1, <1>5, <1>8, <2>1, <2>2 DEF Owned
<1>13. Folded'
  <2>1. ASSUME NEW k \in Jobs
        PROVE  (status[k] # "none" => status'[k] # "none")
               /\ (status[k] \in Final => status'[k] = status[k])
    BY <1>2, <1>9, <1>10 DEF Final
  <2>. QED BY <1>1, <1>5, <2>1 DEF Folded, RunTyped
<1>. QED BY <1>6, <1>7, <1>11, <1>12, <1>13 DEF Invariant, Typed

-----------------------------------------------------------------------------
(* Jobs and runs are started, and polled.                                  *)

\* A job that is started on a node that is not busy is the only one there.
LEMMA StartJobHolds ==
  ASSUME Invariant, NEW j \in Jobs, NEW n \in Nodes, NEW steps \in {DirectScript, RunbookScript},
         StartJob(j, n, steps), ~Busy(n), UNCHANGED <<online, output, cancelled, overdue, old,
         drops, issued>>
  PROVE  OutputTyped' /\ JobsTyped' /\ Started' /\ Owned' /\ Fresh'
         /\ status[j] = "none" /\ status' = [status EXCEPT ![j] = "pending"]
<1>1. Typed /\ Started /\ Owned /\ Fresh /\ OutputTyped /\ JobsTyped
  BY DEF Invariant, Typed
<1>2. /\ status[j] = "none" /\ at[j] = "none" /\ step[j] = 0 /\ issued[j] = None
      /\ active[n] = None /\ tailFrom[n] \in Nat /\ tailFrom[n] <= received[n]
  BY <1>1 DEF StartJob, Busy, Started, OutputTyped
<1>3. /\ node' = [node EXCEPT ![j] = n] /\ script' = [script EXCEPT ![j] = steps]
      /\ status' = [status EXCEPT ![j] = "pending"] /\ at' = [at EXCEPT ![j] = "start"]
      /\ bufFrom' = [bufFrom EXCEPT ![j] = tailFrom[n]] /\ active' = [active EXCEPT ![n] = j]
      /\ byJob' = byJob \union {j}
      /\ UNCHANGED <<step, event, online, emitted, received, prompts, tailFrom, cancelled,
                     overdue, old, drops, issued>>
  BY DEF StartJob, output
<1>4. ASSUME NEW k \in Jobs, k # j
      PROVE  /\ node'[k] = node[k] /\ script'[k] = script[k] /\ status'[k] = status[k]
             /\ at'[k] = at[k] /\ bufFrom'[k] = bufFrom[k]
  BY <1>1, <1>3, <1>4 DEF JobsTyped
<1>5. /\ node'[j] = n /\ script'[j] = steps /\ status'[j] = "pending" /\ at'[j] = "start"
      /\ bufFrom'[j] = tailFrom[n]
  BY <1>1, <1>3 DEF JobsTyped
<1>6. OutputTyped'
  BY <1>1, <1>3 DEF OutputTyped
<1>7. JobsTyped'
  <2>1. /\ node' \in [Jobs -> Nodes \union {None}]
        /\ script' \in [Jobs -> {<<>>, DirectScript, RunbookScript}]
        /\ status' \in [Jobs -> {"none", "pending", "running"} \union Final]
        /\ at' \in [Jobs -> {"none", "start", "ended"} \union Places]
        /\ bufFrom' \in [Jobs -> Nat] /\ active' \in [Nodes -> Jobs \union {None}]
        /\ byJob' \subseteq Jobs
    BY <1>1, <1>2, <1>3 DEF JobsTyped
  <2>2. \A k \in Jobs : step[k] <= Len(script'[k])
    <3>1. 0 <= Len(steps)
      BY ConstantFacts
    <3>. QED BY <1>1, <1>2, <1>4, <1>5, <3>1 DEF JobsTyped
  <2>3. \A k \in Jobs : node'[k] \in Nodes => bufFrom'[k] <= received[node'[k]]
    BY <1>1, <1>2, <1>4, <1>5 DEF JobsTyped
  <2>. QED BY <1>1, <1>3, <2>1, <2>2, <2>3 DEF JobsTyped
<1>8. Live' = Live \union {j}
  BY <1>4, <1>5 DEF Live
<1>9. Started'
  BY <1>1, <1>2, <1>3, <1>4, <1>5 DEF Started, Final
<1>10. Fresh'
  BY <1>1, <1>2, <1>3, <1>4 DEF Fresh
<1>11. Owned'
  <2>1. ASSUME NEW k \in Live, k # j
        PROVE  node'[k] = node[k] /\ node[k] \in Nodes /\ node[k] # n /\ active'[node[k]] = k
    <3>1. k \in Jobs /\ node[k] \in Nodes /\ active[node[k]] = k
      BY <1>1, <2>1, LiveFacts DEF Owned
    <3>2. node[k] # n
      BY <1>2, <3>1, ConstantFacts
    <3>. QED BY <1>1, <1>3, <1>4, <2>1, <3>1, <3>2 DEF JobsTyped
  <2>2. active'[n] = j
    BY <1>1, <1>3 DEF JobsTyped
  <2>3. ASSUME NEW m \in Nodes, m # n, active'[m] # None
        PROVE  active'[m] \in Live /\ active'[m] # j /\ node'[active'[m]] = m
    <3>1. active'[m] = active[m]
      BY <1>1, <1>3, <2>3 DEF JobsTyped
    <3>2. active[m] \in Live /\ node[active[m]] = m
      BY <1>1, <2>3, <3>1 DEF Owned
    <3>3. active[m] # j
      BY <1>2, <3>2 DEF Live
    <3>. QED BY <1>4, <3>1, <3>2, <3>3 DEF Live
  <2>. QED BY <1>5, <1>8, <2>1, <2>2, <2>3 DEF Owned
<1>. QED BY <1>2, <1>3, <1>6, <1>7, <1>9, <1>10, <1>11

\* The run keeps what it knows, when only jobs it does not know move.
LEMMA PostHolds ==
  ASSUME Invariant, NEW j \in Jobs, NEW n \in Nodes, PostExpect(j, n)
  PROVE  Invariant'
<1>1. /\ StartJob(j, n, DirectScript) /\ ~Busy(n)
      /\ UNCHANGED <<online, output, cancelled, overdue, old, runbook, drops, issued>>
  BY DEF PostExpect
<1>2. /\ OutputTyped' /\ JobsTyped' /\ Started' /\ Owned' /\ Fresh' /\ status[j] = "none"
      /\ status' = [status EXCEPT ![j] = "pending"]
  BY <1>1, StartJobHolds
<1>3. ASSUME NEW k \in Jobs, status[k] # "none" PROVE status'[k] = status[k]
  BY <1>2, <1>3 DEF Invariant, Typed, JobsTyped
<1>4. RunTyped' /\ Folded'
  BY <1>1, <1>3 DEF Invariant, Typed, RunTyped, Folded, runbook
<1>. QED BY <1>2, <1>4 DEF Invariant, Typed

\* The run is started, polled, or finished long ago.
LEMMA RunHolds ==
  ASSUME Invariant, StartRun \/ PollRun \/ AgeRun
  PROVE  Invariant'
<1>1. Typed /\ Started /\ Owned /\ Fresh /\ Folded /\ OutputTyped /\ JobsTyped /\ RunTyped
  BY DEF Invariant, Typed
<1>2. UNCHANGED <<online, output, job, jobOf, driven, drops, issued>>
  BY DEF StartRun, PollRun, AgeRun
<1>3. OutputTyped' /\ JobsTyped' /\ Started' /\ Owned' /\ Fresh'
  BY <1>1, <1>2 DEF OutputTyped, JobsTyped, Started, Owned, Fresh, Live, output, job, task
<1>4. status' = status /\ byJob' = byJob /\ jobOf' = jobOf /\ driven' = driven
  BY <1>2 DEF job, task
<1>5. CASE AgeRun
  BY <1>1, <1>3, <1>4, <1>5 DEF AgeRun, RunTyped, Folded, Invariant, Typed
<1>6. CASE StartRun
  <2>1. /\ run = "none" /\ run' = "open" /\ runOld' = runOld
        /\ entry' = [n \in Nodes |-> IF \E p \in DOMAIN NodeOrder : NodeOrder[p] = n
                                     THEN "queued" ELSE "none"]
    BY <1>6 DEF StartRun
  <2>2. entry' \in [Nodes -> Entries]
    BY <2>1 DEF Entries
  <2>3. \A p \in DOMAIN NodeOrder : jobOf[NodeOrder[p]] = None /\ entry'[NodeOrder[p]] = "queued"
    BY <1>1, <2>1, ConstantFacts DEF Folded
  <2>4. Folded' /\ RunTyped'
    BY <1>1, <1>4, <2>1, <2>2, <2>3 DEF Folded, RunTyped
  <2>. QED BY <1>3, <2>4 DEF Invariant, Typed
<1>7. CASE PollRun
  <2>1. /\ run \in {"open", "finished"} /\ runOld' = runOld
        /\ entry' = [n \in Nodes |-> IF jobOf[n] \in byJob THEN status[jobOf[n]] ELSE entry[n]]
        /\ \/ run' = "gone"
           \/ run' = "finished" /\ run = "finished"
           \/ run' = "open"
           \/ run' = "finished" /\ \A n \in Nodes : ~Unfinished(entry'[n])
    BY <1>7 DEF PollRun
  <2>2. ASSUME NEW n \in Nodes
        PROVE  /\ entry'[n] \in Entries
               /\ jobOf[n] = None => entry'[n] = entry[n]
               /\ jobOf[n] # None => \/ entry'[n] \in {"pending", "running"}
                                     \/ entry'[n] \in Final /\ entry'[n] = status[jobOf[n]]
               /\ ~Unfinished(entry[n]) => entry'[n] = entry[n]
    <3>1. CASE jobOf[n] = None
      <4>1. None \notin byJob
        BY <1>1, ConstantFacts DEF JobsTyped
      <4>. QED BY <1>1, <2>1, <3>1, <4>1 DEF RunTyped
    <3>2. CASE jobOf[n] # None
      <4>1. /\ jobOf[n] \in Jobs /\ status[jobOf[n]] \in {"pending", "running"} \union Final
            /\ \/ entry[n] \in {"pending", "running"}
               \/ entry[n] \in Final /\ entry[n] = status[jobOf[n]]
        BY <1>1, <3>2 DEF Folded, RunTyped, JobsTyped
      <4>2. entry'[n] = entry[n] \/ entry'[n] = status[jobOf[n]]
        BY <2>1
      <4>. QED BY <3>2, <4>1, <4>2 DEF Entries, Unfinished
    <3>. QED BY <3>1, <3>2
  <2>3. entry' \in [Nodes -> Entries]
    BY <2>1, <2>2
  <2>4. RunTyped'
    BY <1>1, <1>4, <2>1, <2>3 DEF RunTyped
  <2>5. run' = "finished" => \A n \in Nodes : ~Unfinished(entry'[n])
    BY <1>1, <2>1, <2>2 DEF Folded
  <2>6. Folded'
    BY <1>1, <1>4, <2>1, <2>2, <2>5, ConstantFacts DEF Folded
  <2>. QED BY <1>3, <2>4, <2>6 DEF Invariant, Typed
<1>. QED BY <1>5, <1>6, <1>7

\* The run comes to its next node, which it had not dealt with.
LEMMA DriveHolds ==
  ASSUME Invariant, Drive
  PROVE  Invariant'
<1>. DEFINE n == NodeOrder[driven + 1]
<1>1. Typed /\ Started /\ Owned /\ Fresh /\ Folded /\ OutputTyped /\ JobsTyped /\ RunTyped
  BY DEF Invariant, Typed
<1>2. /\ run # "none" /\ driven + 1 \in 1..Len(NodeOrder) /\ driven \in Nat /\ n \in Nodes
      /\ jobOf[n] = None /\ entry[n] = "queued"
      /\ \A p \in DOMAIN NodeOrder : p > driven + 1 => p > driven /\ NodeOrder[p] # n
  <2>1. run # "none" /\ driven + 1 \in 1..Len(NodeOrder) /\ driven \in Nat
    BY <1>1, ConstantFacts DEF Drive, RunTyped
  <2>. QED BY <1>1, <2>1, ConstantFacts DEF Folded
<1>3. run # "finished"
  BY <1>1, <1>2 DEF Folded, Unfinished
<1>4. ASSUME NEW s \in Entries, NEW j \in Jobs \union {None}, Entered(n, s, j),
             j # None => s = "running" /\ status'[j] # "none",
             \A k \in Jobs : status[k] # "none" => status'[k] = status[k]
      PROVE  RunTyped' /\ Folded'
  <2>1. /\ entry' = [entry EXCEPT ![n] = s] /\ jobOf' = [jobOf EXCEPT ![n] = j]
        /\ driven' = driven + 1 /\ UNCHANGED <<run, runOld>>
    BY <1>4 DEF Entered
  <2>2. RunTyped'
    BY <1>1, <1>2, <2>1, ConstantFacts DEF RunTyped
  <2>3. \A m \in Nodes : m # n => entry'[m] = entry[m] /\ jobOf'[m] = jobOf[m]
    BY <1>1, <2>1 DEF RunTyped
  <2>4. entry'[n] = s /\ jobOf'[n] = j
    BY <1>1, <1>2, <2>1 DEF RunTyped
  <2>5. \A p \in DOMAIN NodeOrder : p > driven' =>
          jobOf'[NodeOrder[p]] = None /\ entry'[NodeOrder[p]] = "queued"
    BY <1>1, <1>2, <2>1, <2>3, ConstantFacts DEF Folded
  <2>6. ASSUME NEW m \in Nodes, jobOf'[m] # None
        PROVE  /\ status'[jobOf'[m]] # "none"
               /\ \/ entry'[m] \in {"pending", "running"}
                  \/ entry'[m] \in Final /\ entry'[m] = status'[jobOf'[m]]
    <3>1. CASE m = n
      BY <1>4, <2>4, <2>6, <3>1
    <3>2. CASE m # n
      <4>1. jobOf'[m] = jobOf[m] /\ entry'[m] = entry[m] /\ jobOf[m] \in Jobs
        BY <1>1, <2>3, <2>6, <3>2 DEF RunTyped
      <4>. QED BY <1>1, <1>4, <2>6, <4>1 DEF Folded
    <3>. QED BY <3>1, <3>2
  <2>. QED BY <1>2, <1>3, <2>1, <2>2, <2>5, <2>6 DEF Folded
<1>5. ASSUME NEW s \in {"skipped", "rejected"}, Entered(n, s, None),
             UNCHANGED <<node, script, task, active, byJob>>
      PROVE  Invariant'
  <2>1. UNCHANGED <<online, output, job, drops, issued>>
    BY <1>5 DEF Entered, job
  <2>2. OutputTyped' /\ JobsTyped' /\ Started' /\ Owned' /\ Fresh'
    BY <1>1, <2>1 DEF OutputTyped, JobsTyped, Started, Owned, Fresh, Live, output, job, task
  <2>3. RunTyped' /\ Folded'
    BY <1>4, <1>5 DEF Entries, task
  <2>. QED BY <2>2, <2>3 DEF Invariant, Typed
<1>6. ASSUME NEW j \in Jobs, StartJob(j, n, RunbookScript), Entered(n, "running", j), ~Busy(n)
      PROVE  Invariant'
  <2>1. /\ OutputTyped' /\ JobsTyped' /\ Started' /\ Owned' /\ Fresh' /\ status[j] = "none"
        /\ status' = [status EXCEPT ![j] = "pending"]
    BY <1>2, <1>6, StartJobHolds DEF Entered
  <2>2. /\ \A k \in Jobs : status[k] # "none" => status'[k] = status[k]
        /\ status'[j] # "none"
    BY <1>1, <2>1 DEF JobsTyped
  <2>3. RunTyped' /\ Folded'
    BY <1>4, <1>6, <2>2 DEF Entries
  <2>. QED BY <2>1, <2>3 DEF Invariant, Typed
<1>. QED BY <1>5, <1>6 DEF Drive

-----------------------------------------------------------------------------
(* The theorems.                                                           *)

LEMMA InitHolds ==
  ASSUME Init
  PROVE  Invariant
<1>1. OutputTyped
  BY ConstantFacts DEF Init, OutputTyped
<1>2. \A j \in Jobs : step[j] = 0 /\ bufFrom[j] = 0 /\ script[j] = <<>> /\ node[j] = None
                      /\ issued[j] = None /\ status[j] = "none" /\ at[j] = "none"
  BY DEF Init
<1>3. JobsTyped
  <2>1. \A n \in Nodes : received[n] = 0
    BY DEF Init
  <2>2. \A j \in Jobs : step[j] <= Len(script[j])
    BY <1>2, ConstantFacts
  <2>3. \A j \in Jobs : node[j] \in Nodes => bufFrom[j] <= received[node[j]]
    BY <1>2, <2>1
  <2>. QED BY <2>2, <2>3 DEF Init, JobsTyped
<1>4. RunTyped
  <2>1. 0 \in 0..Len(NodeOrder)
    BY ConstantFacts
  <2>. QED BY <2>1 DEF Init, RunTyped, Entries
<1>5. Started /\ Fresh
  BY <1>2 DEF Started, Fresh, Final
<1>6. Owned
  BY <1>2 DEF Owned, Live, Init
<1>7. Folded
  BY ConstantFacts DEF Folded, Init
<1>. QED BY <1>1, <1>3, <1>4, <1>5, <1>6, <1>7 DEF Invariant, Typed

LEMMA NextHolds ==
  ASSUME Invariant, [Next]_vars
  PROVE  Invariant'
<1>1. ASSUME NEW n \in Nodes, Emit(n) \/ Receive(n) \/ Drop(n) \/ Return(n)
      PROVE  Invariant'
  BY <1>1, NodeHolds
<1>2. ASSUME NEW j \in Jobs, Resume(j)
      PROVE  Invariant'
  BY <1>2, ResumeMoves, GoesHolds, EndsHolds
<1>3. ASSUME NEW j \in Jobs, Cancel(j) \/ Overdue(j) \/ Age(j)
      PROVE  Invariant'
  BY <1>3, MarkHolds
<1>4. CASE UNCHANGED vars
  BY <1>4 DEF Invariant, Typed, OutputTyped, JobsTyped, RunTyped, Started, Owned, Fresh, Folded,
     Live, vars, output, job, task, runbook
<1>. QED BY <1>1, <1>2, <1>3, <1>4, PostHolds, RunHolds, DriveHolds DEF Next

\* The invariant holds always.
THEOREM InvariantHolds == Spec => []Invariant
BY InitHolds, NextHolds, PTL DEF Spec

\* Every variable keeps its type, and a node has one unfinished expect job at most and
\* is busy exactly while it has one, however requests, runs and ends of jobs interleave.
THEOREM TypeCorrect == Spec => []TypeOK
BY InvariantHolds, InvariantTypes, PTL

\* Once a job has issued a command, no output that had come before lets it go on.
THEOREM FreshSinceIssueHolds == Spec => []FreshSinceIssue
<1>1. Invariant => FreshSinceIssue
  <2>. SUFFICES ASSUME Invariant, NEW j \in Live, issued[j] # None, NEW i \in Matches(j)
                PROVE  i > issued[j]
    BY DEF FreshSinceIssue
  <2>1. j \in Jobs /\ node[j] \in Nodes /\ Typed
    BY LiveFacts DEF Invariant, Typed
  <2>2. bufFrom[j] \in Nat /\ issued[j] \in Nat /\ issued[j] <= bufFrom[j] /\ i \in Nat
        /\ i > bufFrom[j]
    BY <2>1 DEF Invariant, Typed, JobsTyped, OutputTyped, Fresh, Matches
  <2>. QED BY <2>2
<1>. QED BY <1>1, InvariantHolds, PTL

\* A run that is reported finished has dealt with every target, none of its jobs is still
\* typing, and it tells of each what it came to, also of those that were forgotten.
THEOREM FinishedMeansOverHolds == Spec => []FinishedMeansOver
<1>1. Invariant => FinishedMeansOver
  <2>. SUFFICES ASSUME Invariant, run = "finished"
                PROVE  /\ driven = Len(NodeOrder)
                       /\ \A n \in Nodes : jobOf[n] # None =>
                            status[jobOf[n]] \in Final /\ entry[n] = status[jobOf[n]]
    BY DEF FinishedMeansOver
  <2>1. Folded /\ driven \in 0..Len(NodeOrder)
    BY DEF Invariant, Typed, RunTyped
  <2>2. driven = Len(NodeOrder)
    <3>. SUFFICES ASSUME driven < Len(NodeOrder) PROVE FALSE
      <4>1. Len(NodeOrder) \in Nat
        BY ConstantFacts
      <4>. QED BY <2>1, <4>1
    <3>1. driven + 1 \in DOMAIN NodeOrder /\ driven + 1 > driven /\ NodeOrder[driven + 1] \in Nodes
      <4>1. driven \in Nat /\ Len(NodeOrder) \in Nat
        BY <2>1, ConstantFacts
      <4>2. driven + 1 \in 1..Len(NodeOrder) /\ driven + 1 > driven
        BY <4>1
      <4>. QED BY <4>2, ConstantFacts
    <3>2. entry[NodeOrder[driven + 1]] = "queued"
      BY <2>1, <3>1 DEF Folded
    <3>. QED BY <2>1, <3>1, <3>2 DEF Folded, Unfinished
  <2>. QED BY <2>1, <2>2 DEF Folded, Unfinished
<1>. QED BY <1>1, InvariantHolds, PTL

=============================================================================
