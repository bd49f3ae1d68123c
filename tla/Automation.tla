----------------------------- MODULE Automation -----------------------------
(***************************************************************************)
(* The expect engine (expect.py), which waits for a node's serial output   *)
(* between the commands it dispatches, and the runbooks (runbook.py) that  *)
(* start one expect job per node of a group and fold the jobs' statuses    *)
(* into a run whenever the run is polled.                                  *)
(*                                                                         *)
(* A job is one asyncio task: what it does from one await to the next is   *)
(* one action.  Output is a number per chunk and whether it matches what   *)
(* the scripts wait for; a job's buffer is the chunks received since it    *)
(* was last cleared, the newest Window of them.  A drop of the connection  *)
(* loses the chunks under way.                                             *)
(*                                                                         *)
(* Left out: the regular expressions, the texts, step validation, the      *)
(* expect_progress events, and the REST layer's lookups.  A cancellation   *)
(* that Python 3.11's wait_for discards, because it finds the wait already *)
(* fed, is a step that changes nothing.                                    *)
(***************************************************************************)
EXTENDS Naturals, Sequences, FiniteSets

CONSTANTS
  Nodes,
  NodeOrder,      \* the targets of a run, in order, without duplicates
  DirectScript,   \* the steps of a job started through the expect endpoint
  RunbookScript,  \* the steps of a runbook
  Window,         \* MATCH_WINDOW, in chunks
  MaxDirect,      \* bound: jobs started through the expect endpoint
  MaxOutput,      \* bound: chunks of each node's target
  MaxFaults,      \* bound: connections lost, and jobs cancelled, over their wall time,
                  \* or ended long ago, and the run ended long ago
  Printing,       \* bound: the nodes whose targets print anything
  None

Jobs == 1..MaxDirect + Len(NodeOrder)
Steps == {"act", "delay", "await", "try"}   \* try: on_timeout is "continue"
Final == {"done", "failed", "timeout", "cancelled"}

ASSUME ScriptAssumption ==
  /\ DirectScript \in Seq(Steps) /\ RunbookScript \in Seq(Steps)
  /\ DirectScript # <<>> /\ RunbookScript # <<>> /\ DirectScript # RunbookScript
ASSUME BoundsAssumption ==
  /\ Window \in Nat \ {0} /\ MaxDirect \in Nat /\ MaxOutput \in Nat /\ MaxFaults \in Nat
  /\ Printing \subseteq Nodes
ASSUME NodesAssumption ==
  /\ NodeOrder \in Seq(Nodes) /\ NodeOrder # <<>>
  /\ \A p, q \in DOMAIN NodeOrder : NodeOrder[p] = NodeOrder[q] => p = q
ASSUME NoneAssumption == None \notin Jobs

VARIABLES
  \* nodes
  online,    \* nodes that are registered
  emitted,   \* chunks each node's target has put out
  received,  \* those the hub has received
  prompts,   \* those that match
  tailFrom,  \* state.tail holds the chunks received after this one
  \* expect jobs
  node,      \* the node of each job
  script,    \* its steps
  status,    \* its status, "none" before it is started
  at,        \* the await its task is in
  step,      \* step_index
  bufFrom,   \* _buf holds the chunks received after this one
  event,     \* _event is set
  cancelled, \* task.cancel() was called
  overdue,   \* MAX_JOB_WALL_MS has passed
  active,    \* _active: the job of each node, or None
  byJob,     \* _by_job
  old,       \* jobs that finished longer than FINISHED_TTL_MS ago
  \* the run
  entry,     \* its status for each node
  jobOf,     \* its job on each node, or None
  driven,    \* how many of its nodes _drive has dealt with
  run,       \* "none", "open", "finished", "gone"
  runOld,    \* it finished longer than RUN_TTL_MS ago
  drops,
  \* observed by a property only
  issued     \* chunks received when the job last issued a command, or None

output == <<emitted, received, prompts, tailFrom>>
task == <<status, at, step, bufFrom, event>>
job == <<node, script, task, cancelled, overdue, active, byJob, old>>
runbook == <<entry, jobOf, driven, run, runOld>>
vars == <<online, output, job, runbook, drops, issued>>

Init ==
  /\ online = Nodes
  /\ emitted = [n \in Nodes |-> 0] /\ received = emitted /\ tailFrom = emitted
  /\ prompts = [n \in Nodes |-> {}]
  /\ node = [j \in Jobs |-> None]
  /\ script = [j \in Jobs |-> <<>>]
  /\ status = [j \in Jobs |-> "none"] /\ at = status
  /\ step = [j \in Jobs |-> 0] /\ bufFrom = step
  /\ event = [j \in Jobs |-> FALSE] /\ cancelled = event /\ overdue = event /\ old = event
  /\ active = [n \in Nodes |-> None]
  /\ byJob = {}
  /\ entry = [n \in Nodes |-> "none"]
  /\ jobOf = [n \in Nodes |-> None]
  /\ driven = 0
  /\ run = "none" /\ runOld = FALSE
  /\ drops = 0
  /\ issued = [j \in Jobs |-> None]

Faults ==
  LET marked(f) == Cardinality({j \in Jobs : f[j]})
  IN  drops + marked(cancelled) + marked(overdue) + marked(old) + (IF runOld THEN 1 ELSE 0)

-----------------------------------------------------------------------------
(* Nodes and their output.                                                 *)

\* the target prints something
Emit(n) ==
  /\ n \in online \intersect Printing /\ emitted[n] < MaxOutput
  /\ emitted' = [emitted EXCEPT ![n] = @ + 1]
  /\ prompts' \in {prompts, [prompts EXCEPT ![n] = @ \union {emitted'[n]}]}
  /\ UNCHANGED <<online, received, tailFrom, job, runbook, drops, issued>>

\* handle_message, of an output frame: the tail grows, and the active job is fed
Receive(n) ==
  /\ n \in online /\ received[n] < emitted[n]
  /\ received' = [received EXCEPT ![n] = @ + 1]
  /\ event' = [j \in Jobs |-> IF active[n] = j /\ j \in byJob THEN TRUE ELSE event[j]]
  /\ UNCHANGED <<online, emitted, prompts, tailFrom, node, script, status, at, step, bufFrom,
                 cancelled, overdue, active, byJob, old, runbook, drops, issued>>

\* the connection is lost, with the chunks under way
Drop(n) ==
  /\ n \in online /\ Faults < MaxFaults
  /\ drops' = drops + 1
  /\ online' = online \ {n}
  /\ emitted' = [emitted EXCEPT ![n] = received[n]]
  /\ prompts' = [prompts EXCEPT ![n] = @ \intersect 1..received[n]]
  /\ UNCHANGED <<received, tailFrom, job, runbook, issued>>

\* the board is back; its new state has an empty tail
Return(n) ==
  /\ n \notin online
  /\ online' = online \union {n}
  /\ tailFrom' = [tailFrom EXCEPT ![n] = received[n]]
  /\ UNCHANGED <<emitted, received, prompts, job, runbook, drops, issued>>

-----------------------------------------------------------------------------
(* What a job does between two awaits.                                     *)

\* the chunks of job j's buffer that match
Matches(j) ==
  {i \in prompts[node[j]] : /\ i > bufFrom[j] /\ i <= received[node[j]]
                            /\ i + Window > received[node[j]]}

\* k is the first step from i on that job j has to wait at, or after all of them: a
\* wait that its buffer matches is none
StopsAt(j, i, k) ==
  LET passed(l) == script[j][l] \in {"await", "try"} /\ Matches(j) # {}
  IN  /\ \A l \in i..Len(script[j]) : l < k => passed(l)
      /\ k <= Len(script[j]) => ~passed(k)

Live == {j \in Jobs : at[j] \notin {"none", "ended"}}

\* finally: the job has ended; its node is free, and old jobs are forgotten. (Its
\* buffer and step are not looked at again, but for the step in its snapshot.)
Finish(j, s) ==
  /\ status' = [status EXCEPT ![j] = s]
  /\ at' = [at EXCEPT ![j] = "ended"]
  /\ active' = [active EXCEPT ![node[j]] = IF @ = j THEN None ELSE @]
  /\ byJob' = {k \in byJob : ~old[k]}
  /\ step' = [step EXCEPT ![j] = 0]
  /\ bufFrom' = [bufFrom EXCEPT ![j] = 0]
  /\ event' = [event EXCEPT ![j] = FALSE]
  /\ issued' = [issued EXCEPT ![j] = None]

Block(j, i, await) ==
  /\ status' = [status EXCEPT ![j] = "running"]
  /\ at' = [at EXCEPT ![j] = await]
  /\ step' = [step EXCEPT ![j] = i]
  /\ UNCHANGED <<active, byJob>>

\* a slip that FreshSinceIssue must notice: the buffer is not cleared
KeepBuffer(j) == UNCHANGED bufFrom
\* self._buf = ""
ClearBuffer(j) == bufFrom' = [bufFrom EXCEPT ![j] = received[node[j]]]

\* dispatch_command, of an online node: the commands row is being inserted
Issue(j, i) ==
  /\ node[j] \in online
  /\ Block(j, i, "insert")
  /\ ClearBuffer(j)
  /\ issued' = [issued EXCEPT ![j] = received[node[j]]]
  /\ UNCHANGED event

\* the loop over the steps goes on from step i
Advance(j, i) ==
  \/ /\ overdue[j] /\ i <= Len(script[j])
     /\ Finish(j, "timeout")
  \/ /\ ~overdue[j] \/ i > Len(script[j])
     /\ \E k \in i..Len(script[j]) + 1 :
          /\ StopsAt(j, i, k)
          /\ \/ k > Len(script[j]) /\ Finish(j, "done")
             \/ k <= Len(script[j]) /\ script[j][k] = "act" /\ Issue(j, k)
             \/ /\ k <= Len(script[j]) /\ script[j][k] = "act" /\ node[j] \notin online
                /\ Finish(j, "failed")
             \/ /\ k <= Len(script[j]) /\ script[j][k] = "delay"
                /\ Block(j, k, "delay") /\ UNCHANGED <<bufFrom, event, issued>>
             \/ /\ k <= Len(script[j]) /\ script[j][k] \in {"await", "try"}
                /\ Block(j, k, "wait") /\ event' = [event EXCEPT ![j] = FALSE]
                /\ UNCHANGED <<bufFrom, issued>>

rest == <<online, output, node, script, cancelled, overdue, old, runbook, drops>>

Resumes(j, await) == at[j] = await /\ ~cancelled[j]

-----------------------------------------------------------------------------
(* The steps of a job's task.                                              *)

\* run: the task's first step
Run(j) ==
  /\ Resumes(j, "start")
  /\ Advance(j, 1)
  /\ UNCHANGED rest

\* the row is inserted; the frame is written
Write(j) ==
  /\ Resumes(j, "insert")
  /\ at' = [at EXCEPT ![j] = "record"]
  /\ UNCHANGED <<rest, status, step, bufFrom, event, active, byJob, issued>>

\* the socket has died, before the write or in its drain
SendFails(j) ==
  /\ Resumes(j, "insert") \/ Resumes(j, "record")
  /\ node[j] \notin online
  /\ at' = [at EXCEPT ![j] = "fail"]
  /\ UNCHANGED <<rest, status, step, bufFrom, event, active, byJob, issued>>

\* the send and its audit are done
Recorded(j) ==
  /\ Resumes(j, "record")
  /\ Advance(j, step[j] + 1)
  /\ UNCHANGED rest

\* the failed send is recorded in the commands row, or the database has raised
ActionFailed(j) ==
  /\ Resumes(j, "fail") \/ Resumes(j, "insert") \/ Resumes(j, "record")
  /\ Finish(j, "failed")
  /\ UNCHANGED rest

DelayOver(j) ==
  /\ Resumes(j, "delay")
  /\ Advance(j, step[j] + 1)
  /\ UNCHANGED rest

\* a wait looks at the buffer again after it was fed
Woken(j) ==
  /\ Resumes(j, "wait") /\ event[j]
  /\ \/ Matches(j) # {} /\ Advance(j, step[j] + 1)
     \/ /\ Matches(j) = {}
        /\ event' = [event EXCEPT ![j] = FALSE]
        /\ UNCHANGED <<status, at, step, bufFrom, active, byJob, issued>>
  /\ UNCHANGED rest

\* a slip that JobsEnd must notice: a wait that is to continue waits again
TimerRetries(j) ==
  /\ Resumes(j, "wait")
  /\ \/ script[j][step[j]] = "await" /\ Finish(j, "timeout")
     \/ script[j][step[j]] = "try" /\ Advance(j, step[j])
  /\ UNCHANGED rest
\* a wait runs out of time, fed at that moment or not
TimerFires(j) ==
  /\ Resumes(j, "wait")
  /\ \/ script[j][step[j]] = "await" /\ Finish(j, "timeout")
     \/ script[j][step[j]] = "try" /\ Advance(j, step[j] + 1)
  /\ UNCHANGED rest

\* CancelledError is thrown into the await
Stopped(j) ==
  /\ cancelled[j] /\ j \in Live
  /\ Finish(j, "cancelled")
  /\ UNCHANGED rest

\* ExpectManager.cancel. The job's id is known only after start has returned, and
\* the task's first step comes before any later request.
Cancel(j) ==
  /\ j \in Live /\ at[j] # "start" /\ ~cancelled[j] /\ j \in byJob
  /\ Faults < MaxFaults
  /\ cancelled' = [cancelled EXCEPT ![j] = TRUE]
  /\ UNCHANGED <<online, output, node, script, task, overdue, active, byJob, old, runbook,
                 drops, issued>>

\* time passes: the job has run for too long, or has ended long ago
Overdue(j) ==
  /\ j \in Live /\ ~overdue[j] /\ Faults < MaxFaults
  /\ overdue' = [overdue EXCEPT ![j] = TRUE]
  /\ UNCHANGED <<online, output, node, script, task, cancelled, active, byJob, old, runbook,
                 drops, issued>>

Age(j) ==
  /\ at[j] = "ended" /\ ~old[j] /\ Faults < MaxFaults
  /\ old' = [old EXCEPT ![j] = TRUE]
  /\ UNCHANGED <<online, output, node, script, task, cancelled, overdue, active, byJob,
                 runbook, drops, issued>>

-----------------------------------------------------------------------------
(* Starting jobs, and the run.                                             *)

\* a slip that TypeOK must notice: is_busy is not asked
NeverBusy(n) == FALSE
Busy(n) == active[n] # None

\* ExpectManager.start: job j is created, its buffer seeded with the tail
StartJob(j, n, steps) ==
  /\ status[j] = "none" /\ \A k \in Jobs : k < j => status[k] # "none"
  /\ node' = [node EXCEPT ![j] = n]
  /\ script' = [script EXCEPT ![j] = steps]
  /\ status' = [status EXCEPT ![j] = "pending"]
  /\ at' = [at EXCEPT ![j] = "start"]
  /\ bufFrom' = [bufFrom EXCEPT ![j] = tailFrom[n]]
  /\ active' = [active EXCEPT ![n] = j]
  /\ byJob' = byJob \union {j}
  /\ UNCHANGED <<step, event>>

\* POST expect
PostExpect(j, n) ==
  /\ Cardinality({k \in Jobs : script[k] = DirectScript}) < MaxDirect
  /\ n \in online /\ ~Busy(n)
  /\ StartJob(j, n, DirectScript)
  /\ UNCHANGED <<online, output, cancelled, overdue, old, runbook, drops, issued>>

\* POST run: every target is queued, and the task that drives the run created
StartRun ==
  /\ run = "none"
  /\ run' = "open"
  /\ entry' = [n \in Nodes |-> IF \E p \in DOMAIN NodeOrder : NodeOrder[p] = n THEN "queued" ELSE "none"]
  /\ UNCHANGED <<online, output, job, jobOf, driven, runOld, drops, issued>>

Entered(n, s, j) ==
  /\ entry' = [entry EXCEPT ![n] = s]
  /\ jobOf' = [jobOf EXCEPT ![n] = j]
  /\ driven' = driven + 1
  /\ UNCHANGED <<run, runOld, online, output, cancelled, overdue, old, drops, issued>>

\* _drive: the next node, after the stagger
Drive ==
  /\ run # "none" /\ driven < Len(NodeOrder)
  /\ LET n == NodeOrder[driven + 1] IN
     \/ /\ n \notin online
        /\ Entered(n, "skipped", None)
        /\ UNCHANGED <<node, script, task, active, byJob>>
     \/ /\ n \in online /\ Busy(n)
        /\ Entered(n, "rejected", None)
        /\ UNCHANGED <<node, script, task, active, byJob>>
     \/ /\ n \in online /\ ~Busy(n)
        /\ \E j \in Jobs : StartJob(j, n, RunbookScript) /\ Entered(n, "running", j)

\* a slip that FinishedMeansOver must notice: "pending" is forgotten
WaitsForRunning(s) == s \in {"queued", "running"}
Unfinished(s) == s \in {"queued", "pending", "running"}

\* GET run: the statuses of the jobs that are still known are folded in; the run
\* is finished when none is unfinished, and forgotten when that is long ago
PollRun ==
  /\ run \in {"open", "finished"}
  /\ entry' = [n \in Nodes |-> IF jobOf[n] \in byJob THEN status[jobOf[n]] ELSE entry[n]]
  /\ run' = IF run = "finished" THEN (IF runOld THEN "gone" ELSE run)
            ELSE IF \E n \in Nodes : Unfinished(entry'[n]) THEN run ELSE "finished"
  /\ UNCHANGED <<online, output, job, jobOf, driven, runOld, drops, issued>>

\* RUN_TTL_MS passes
AgeRun ==
  /\ run = "finished" /\ ~runOld /\ Faults < MaxFaults
  /\ runOld' = TRUE
  /\ UNCHANGED <<online, output, job, entry, jobOf, driven, run, drops, issued>>

-----------------------------------------------------------------------------

Resume(j) ==
  \/ Run(j) \/ Write(j) \/ SendFails(j) \/ Recorded(j) \/ ActionFailed(j) \/ DelayOver(j) \/ Woken(j)
  \/ TimerFires(j) \/ Stopped(j)

Next ==
  \/ \E n \in Nodes : Emit(n) \/ Receive(n) \/ Drop(n) \/ Return(n)
  \/ \E j \in Jobs : Resume(j) \/ Cancel(j) \/ Overdue(j) \/ Age(j)
  \/ \E j \in Jobs, n \in Nodes : PostExpect(j, n)
  \/ StartRun \/ Drive \/ PollRun \/ AgeRun

Spec == Init /\ [][Next]_vars

\* A task's awaits return: the database answers, timers fire, and a send to a
\* dead board fails by keepalive or the sweep. A started run is driven.
Fairness ==
  /\ \A j \in Jobs : WF_vars(Resume(j))
  /\ WF_vars(Drive)

\* The operator keeps the run's page open: it polls.
FairSpec == Spec /\ Fairness /\ WF_vars(PollRun)

-----------------------------------------------------------------------------
(* Properties *)

\* Every variable has its type; and "one running job per node" (expect.py): however
\* requests and runs interleave with the ends of jobs, a node has one unfinished job at
\* most, and it is busy exactly while it has one.
TypeOK ==
  /\ \A j, k \in Live : node[j] = node[k] => j = k
  /\ \A n \in Nodes : active[n] # None <=> \E j \in Live : node[j] = n
  /\ online \subseteq Nodes
  /\ \A n \in Nodes : /\ received[n] \in 0..emitted[n] /\ emitted[n] \in 0..MaxOutput
                      /\ prompts[n] \subseteq 1..emitted[n] /\ tailFrom[n] \in 0..received[n]
  /\ node \in [Jobs -> Nodes \union {None}]
  /\ script \in [Jobs -> {<<>>, DirectScript, RunbookScript}]
  /\ status \in [Jobs -> {"none", "pending", "running"} \union Final]
  /\ at \in [Jobs -> {"none", "start", "insert", "record", "fail", "delay", "wait", "ended"}]
  /\ \A j \in Jobs : step[j] \in 0..Len(script[j])
  /\ \A j \in Jobs, n \in Nodes :
       node[j] = n => bufFrom[j] \in 0..received[n] /\ (issued[j] # None => issued[j] \in 0..received[n])
  /\ {event, cancelled, overdue, old} \subseteq [Jobs -> BOOLEAN]
  /\ active \in [Nodes -> Jobs \union {None}]
  /\ byJob \subseteq Jobs
  /\ entry \in [Nodes -> {"none", "queued", "skipped", "rejected", "pending", "running"}
                           \union Final]
  /\ jobOf \in [Nodes -> Jobs \union {None}]
  /\ driven \in 0..Len(NodeOrder)
  /\ run \in {"none", "open", "finished", "gone"} /\ runOld \in BOOLEAN
  /\ drops \in 0..MaxFaults

\* "The buffer is cleared just before each action dispatch, so a wait here already
\* sees only output produced since" (expect.py, _wait_for): once a job has issued a
\* command, no chunk that the hub had received before lets a wait pass.
FreshSinceIssue ==
  \A j \in Live : issued[j] # None => \A i \in Matches(j) : i > issued[j]

\* A run that is reported finished (runbook.py, _refresh) has no job left that
\* might still type on a target, and says of every node what its job came to.
FinishedMeansOver ==
  run = "finished" =>
    /\ driven = Len(NodeOrder)
    /\ \A n \in Nodes : jobOf[n] # None =>
         status[jobOf[n]] \in Final /\ entry[n] = status[jobOf[n]]

\* "Every wait ends on its timeout rather than hanging" (expect.py): a busy node
\* is free again, whatever its target prints and its connection does.
JobsEnd == \A n \in Nodes : active[n] # None ~> active[n] = None

=============================================================================
