------------------------------ MODULE OtaPush ------------------------------
(***************************************************************************)
(* The hub's side of a firmware update (hub/ota.py): pushes of a bundle to *)
(* boards, each a task that talks to its board through Hub.request, and    *)
(* the canary rollout over several boards; with links that drop, answers   *)
(* that come too late, boards that restart, and a bundle that is uploaded  *)
(* again under the same name.  OtaFlash has what the board does on disk.   *)
(*                                                                         *)
(* A request ends with the board's result, or with an error: timeout, send *)
(* failure, node offline.  The frame may still reach the board afterwards. *)
(*                                                                         *)
(* Left out: files of several chunks, scopes, and the progress events.     *)
(* That connected_at > pre_connected is the mark again, which a            *)
(* registration sets on the pushes of its node; a push sets pre_connected  *)
(* in the step that starts it.                                             *)
(***************************************************************************)
EXTENDS Naturals, Sequences, FiniteSets

CONSTANTS
  Order,       \* the nodes of the rollout, in its order, each once
  Files,       \* files of a bundle
  Tries,       \* PUSH_RETRIES
  Targets,     \* bound: the nodes also pushed to outside the rollout
  MaxJobs,     \* bound: pushes
  MaxFaults    \* bound: link drops, board restarts, replacements of the bundle, commits and
               \* pushes that raise

Nodes == {Order[i] : i \in DOMAIN Order}
Jobs == 1..MaxJobs
Versions == 1..(MaxFaults + 1)
Deployed == 0   \* the firmware a board had before
Mixed == MaxFaults + 2   \* files of several versions

ASSUME BoundsAssumption ==
  /\ Order \in Seq(Nodes) /\ Targets \subseteq Nodes /\ Files \in Nat \ {0} /\ Tries \in Nat \ {0}
  /\ MaxJobs \in Nat /\ MaxFaults \in Nat

VARIABLES
  store,    \* the version stored under the bundle's name
  \* each board, and its connection
  up,       \* the firmware runs; false from a reload until it does again
  firmware, prior, \* version installed, and the one in its .bak files
  staging,  \* [manifest, got]: what ota_begin announced, chunks appended since
  conn,     \* "on", "stale" (only the hub still believes in it), "off"
  line,     \* frames on their way to the board
  \* the hub
  jobs,     \* OTAManager._jobs, with the position of the task
  rollout,  \* the rollout task: "none", "running", "canary", "ended"
  place,    \* index in Order of the node it is at
  skipped,  \* nodes it could not start on
  faults,
  \* observed by properties only
  installed, \* pushes whose commit has changed the board's files
  erred      \* pushes whose commit raised on the board, or that raised at the hub

board == <<up, firmware, prior, staging>>
link == <<conn, line>>
rolling == <<rollout, place, skipped>>
vars == <<store, up, firmware, prior, staging, conn, line, jobs,
          rollout, place, skipped, faults, installed, erred>>

Final == {"healthy", "unconfirmed", "failed"}
NoJob == [node |-> Order[1], status |-> "unused", version |-> 0, try |-> 0, step |-> 0,
          asked |-> FALSE, again |-> FALSE, rank |-> 0]
Nothing == [manifest |-> 0, got |-> [i \in 1..Files |-> <<>>]]

\* A frame of step 0 is ota_begin, 1..Files are the chunks, one to a file,
\* Last the commit.
Last == Files + 1
Whole(v) == [manifest |-> v, got |-> [i \in 1..Files |-> <<v>>]]

\* it would verify, but files of it have been moved away
Gone == MaxFaults + 3
Spent(v) == [manifest |-> v, got |-> [i \in 1..Files |-> <<Gone>>]]

Running(n) == {j \in Jobs : jobs[j].node = n /\ jobs[j].status \notin {"unused"} \union Final}

Init ==
  /\ store = 1
  /\ up = [n \in Nodes |-> TRUE]
  /\ firmware = [n \in Nodes |-> Deployed] /\ prior = [n \in Nodes |-> Deployed]
  /\ staging = [n \in Nodes |-> Nothing]
  /\ conn = [n \in Nodes |-> "on"]
  /\ line = [n \in Nodes |-> <<>>]
  /\ jobs = [j \in Jobs |-> NoJob]
  /\ rollout = "none" /\ place = 1 /\ skipped = {}
  /\ faults = 0
  /\ installed = {} /\ erred = {}

-----------------------------------------------------------------------------
(* The bundle and the boards.                                              *)

Fault == faults < MaxFaults /\ faults' = faults + 1

\* create_bundle overwrites the blobs and the manifest of the name
CreateBundle ==
  /\ Fault
  /\ store' = store + 1
  /\ UNCHANGED <<board, link, jobs, rolling, installed, erred>>

\* the link drops; the board's process, and what it has staged, live on
Drop(n) ==
  /\ conn[n] = "on" /\ Fault
  /\ conn' = [conn EXCEPT ![n] = "stale"]
  /\ line' = [line EXCEPT ![n] = <<>>]
  /\ UNCHANGED <<store, board, jobs, rolling, installed, erred>>

\* what ends a process on the board: a new OTA object has nothing staged
Restarts(n) ==
  /\ up' = [up EXCEPT ![n] = FALSE]
  /\ staging' = [staging EXCEPT ![n] = Nothing]
  /\ conn' = [conn EXCEPT ![n] = IF @ = "on" THEN "stale" ELSE @]
  /\ line' = [line EXCEPT ![n] = <<>>]

Restart(n) ==
  /\ up[n] /\ Fault
  /\ Restarts(n)
  /\ UNCHANGED <<store, firmware, prior, jobs, rolling, installed, erred>>

\* the installed firmware comes up, and is finalized, or it hangs and the
\* watchdog reverts it, if there is something to revert to
Boot(n) ==
  /\ ~up[n]
  /\ up' = [up EXCEPT ![n] = TRUE]
  /\ \/ prior' = [prior EXCEPT ![n] = firmware[n]] /\ UNCHANGED firmware
     \/ firmware' = [firmware EXCEPT ![n] = prior[n]] /\ UNCHANGED prior
  /\ UNCHANGED <<store, staging, link, jobs, rolling, faults, installed, erred>>

\* mark_offline: the socket closed, or the sweep
Notice(n) ==
  /\ conn[n] = "stale"
  /\ conn' = [conn EXCEPT ![n] = "off"]
  /\ UNCHANGED <<store, board, line, jobs, rolling, faults, installed, erred>>

Register(n) ==
  /\ up[n] /\ conn[n] # "on"
  /\ conn' = [conn EXCEPT ![n] = "on"]
  /\ jobs' = [j \in Jobs |-> IF j \in Running(n) THEN [jobs[j] EXCEPT !.again = TRUE] ELSE jobs[j]]
  /\ UNCHANGED <<store, board, line, rolling, faults, installed, erred>>

-----------------------------------------------------------------------------
(* A push: _run_push with _transfer.                                       *)

Online(n) == conn[n] # "off"
Unused == {j \in Jobs : jobs[j].status = "unused"}

\* start_push creates a job, of rank r in the rollout; nothing looks whether
\* another push of the board is running
StartPush(n, r) ==
  /\ Online(n)
  /\ LET j == CHOOSE i \in Unused : TRUE IN
       jobs' = [jobs EXCEPT ![j] = [NoJob EXCEPT !.node = n, !.status = "running",
                                                 !.version = store, !.try = 1, !.rank = r]]

\* POST nodes/{id}/ota
Push(n) ==
  /\ Unused # {} /\ StartPush(n, 0)
  /\ UNCHANGED <<store, board, link, rolling, faults, installed, erred>>

\* the push is over; where its task was is forgotten
Done(r, s) == [r EXCEPT !.status = s, !.try = 0, !.step = 0, !.asked = FALSE,
                        !.again = FALSE]

\* the board carried the step out
Advance(r) ==
  IF r.step < Files THEN [r EXCEPT !.step = @ + 1, !.asked = FALSE]
                    ELSE [r EXCEPT !.step = Last, !.status = "committing", !.asked = FALSE]

\* slips that properties must notice: a chunk is tried again by itself
\* (TransferExact), and a retry is not counted (PushEnds)
RetryChunk(r) ==
  IF r.try < Tries THEN [r EXCEPT !.try = @ + 1, !.asked = FALSE] ELSE Done(r, "failed")
RetryUncounted(r) == [r EXCEPT !.step = 0, !.asked = FALSE]

\* it did not: the transfer begins anew, while there are tries
Retry(r) ==
  IF r.try < Tries THEN [r EXCEPT !.try = @ + 1, !.step = 0, !.asked = FALSE]
                   ELSE Done(r, "failed")

\* what the task makes of the outcome of its request: "ok" or "failed" as the
\* board answered, or "error".  Anything but an explicit refusal of the commit
\* counts as committed.
After(r, outcome) ==
  IF r.status = "running"
    THEN IF outcome = "ok" THEN Advance(r) ELSE Retry(r)
    ELSE IF outcome = "failed" THEN Done(r, "failed")
                               ELSE [r EXCEPT !.status = "committed", !.asked = FALSE]

Asking(j) == jobs[j].status \in {"running", "committing"}

\* the frame goes down the registered connection, if the board is at its end
Ask(j) ==
  /\ Asking(j) /\ ~jobs[j].asked /\ Online(jobs[j].node)
  /\ jobs' = [jobs EXCEPT ![j].asked = TRUE]
  /\ LET n == jobs[j].node
         frame == [job |-> j, try |-> jobs[j].try, step |-> jobs[j].step,
                   version |-> CASE jobs[j].step = 0 -> jobs[j].version
                                 [] jobs[j].step = Last -> 0
                                 [] OTHER -> store] IN
       line' = IF conn[n] = "on" THEN [line EXCEPT ![n] = Append(@, frame)] ELSE line
  /\ UNCHANGED <<store, board, conn, rolling, faults, installed, erred>>

\* no state to send to, a send that raises, a future that fails, or the timeout
RequestFails(j) ==
  /\ Asking(j) /\ (jobs[j].asked \/ ~Online(jobs[j].node))
  /\ jobs' = [jobs EXCEPT ![j] = After(@, "error")]
  /\ UNCHANGED <<store, board, link, rolling, faults, installed, erred>>

\* the board's result reaches the request that waits for it, or comes too late
Answer(f, outcome) ==
  LET r == jobs[f.job] IN
  \/ /\ r.asked /\ r.try = f.try /\ r.step = f.step
     /\ jobs' = [jobs EXCEPT ![f.job] = After(r, outcome)]
  \/ UNCHANGED jobs

\* ota_begin: wipe the staging area
HandleBegin(n) ==
  /\ line[n] # <<>> /\ Head(line[n]).step = 0
  /\ staging' = [staging EXCEPT ![n] = [manifest |-> Head(line[n]).version, got |-> [i \in 1..Files |-> <<>>]]]
  /\ line' = [line EXCEPT ![n] = Tail(@)]
  /\ Answer(Head(line[n]), "ok")
  /\ UNCHANGED <<store, up, firmware, prior, conn, rolling, faults,
                 installed, erred>>

\* ota_chunk: append, if the path is one that was announced
HandleChunk(n) ==
  /\ line[n] # <<>> /\ Head(line[n]).step \in 1..Files
  /\ LET f == Head(line[n]) IN
       IF staging[n].manifest = 0
         THEN Answer(f, "failed") /\ UNCHANGED staging
         ELSE /\ staging' = [staging EXCEPT ![n].got[f.step] = Append(@, f.version)]
              /\ Answer(f, "ok")
  /\ line' = [line EXCEPT ![n] = Tail(@)]
  /\ UNCHANGED <<store, up, firmware, prior, conn, rolling, faults,
                 installed, erred>>

\* reading a blob raises, which ends the push without another try
TransferRaises(j) ==
  /\ jobs[j].status = "running" /\ jobs[j].step \in 1..Files /\ ~jobs[j].asked /\ Fault
  /\ jobs' = [jobs EXCEPT ![j] = Done(@, "failed")]
  /\ erred' = erred \union {j}
  /\ UNCHANGED <<store, board, link, rolling, installed>>

\* a slip that FailedLeftAlone must notice: the board answers before it looks
RefusedAnyway(n) ==
  /\ line[n] # <<>> /\ Head(line[n]).step = Last /\ staging[n].manifest # 0
  /\ firmware' = [firmware EXCEPT ![n] = staging[n].manifest]
  /\ installed' = installed \union {Head(line[n]).job}
  /\ Answer(Head(line[n]), "failed")
  /\ line' = [line EXCEPT ![n] = Tail(@)]
  /\ UNCHANGED <<store, up, prior, staging, conn, rolling, faults, erred>>

\* what was received has the sizes and hashes that were announced
Verifies(n) ==
  staging[n].manifest # 0 /\ staging[n] \in {Whole(staging[n].manifest), Spent(staging[n].manifest)}

\* ota_commit of something that does not verify
RefuseCommit(n) ==
  /\ line[n] # <<>> /\ Head(line[n]).step = Last
  /\ ~Verifies(n)
  /\ Answer(Head(line[n]), "failed")
  /\ line' = [line EXCEPT ![n] = Tail(@)]
  /\ UNCHANGED <<store, board, conn, rolling, faults, installed, erred>>

\* ota_commit: swap, answer, reload
CarryOutCommit(n) ==
  /\ line[n] # <<>> /\ Head(line[n]).step = Last
  /\ staging[n].manifest # 0 /\ staging[n] = Whole(staging[n].manifest)
  /\ firmware' = [firmware EXCEPT ![n] = staging[n].manifest]
  /\ prior' = [prior EXCEPT ![n] = firmware[n]]
  /\ installed' = installed \union {Head(line[n]).job}
  /\ Answer(Head(line[n]), "ok")
  /\ Restarts(n)
  /\ UNCHANGED <<store, rolling, faults, erred>>

\* a rename raises, or writing the marker does: before the first file was swapped, or
\* after, when nothing marks the old ones; the answer is "failed", and the process goes on
CommitRaises(n) ==
  /\ line[n] # <<>> /\ Head(line[n]).step = Last
  /\ Verifies(n)
  /\ IF staging[n] = Whole(staging[n].manifest) THEN Fault ELSE UNCHANGED faults
  /\ \/ UNCHANGED <<firmware, prior, staging, installed>>
     \/ \E v \in {Mixed, staging[n].manifest} :
          /\ firmware' = [firmware EXCEPT ![n] = v] /\ prior' = [prior EXCEPT ![n] = v]
          /\ staging' = [staging EXCEPT ![n] = Spent(@.manifest)]
          /\ installed' = installed \union {Head(line[n]).job}
  /\ erred' = erred \union {Head(line[n]).job}
  /\ Answer(Head(line[n]), "failed")
  /\ line' = [line EXCEPT ![n] = Tail(@)]
  /\ UNCHANGED <<store, up, conn, rolling>>

\* the audit entry is not written, and the handler around it fails the push; otherwise
\* the wait for the audit is part of the wait for the board
AuditRaises(j) ==
  /\ jobs[j].status = "committed" /\ Fault
  /\ jobs' = [jobs EXCEPT ![j] = Done(@, "failed")]
  /\ erred' = erred \union {j}
  /\ UNCHANGED <<store, board, link, rolling, installed>>

\* _await_reconnect: the node is registered, by a later connection than before
Reconnected(j) ==
  /\ jobs[j].status = "committed"
  /\ Online(jobs[j].node) /\ jobs[j].again
  /\ jobs' = [jobs EXCEPT ![j] = Done(@, "healthy")]
  /\ UNCHANGED <<store, board, link, rolling, faults, installed, erred>>

\* ... or its deadline passes
NotReconnected(j) ==
  /\ jobs[j].status = "committed"
  /\ jobs' = [jobs EXCEPT ![j] = Done(@, "unconfirmed")]
  /\ UNCHANGED <<store, board, link, rolling, faults, installed, erred>>

-----------------------------------------------------------------------------
(* The rollout.                                                            *)

RolloutStart ==
  /\ rollout = "none"
  /\ rollout' = "running"
  /\ UNCHANGED <<store, board, link, jobs, place, skipped, faults, installed, erred>>

\* start on the next node; the first one is the canary
RolloutNext ==
  /\ rollout = "running" /\ place <= Len(Order) /\ Unused # {}
  /\ StartPush(Order[place], place)
  /\ IF place = 1 THEN rollout' = "canary" /\ UNCHANGED place
                  ELSE place' = place + 1 /\ UNCHANGED rollout
  /\ UNCHANGED <<store, board, link, skipped, faults, installed, erred>>

RolloutSkip ==
  /\ rollout = "running" /\ place <= Len(Order) /\ ~Online(Order[place])
  /\ skipped' = skipped \union {Order[place]}
  /\ place' = place + 1
  /\ UNCHANGED <<store, board, link, jobs, rollout, faults, installed, erred>>

Canary == CHOOSE j \in Jobs : jobs[j].rank = 1

\* a slip that CanaryGate must notice: only a failure stops the rollout
NotFailed(s) == s # "failed"
Passed(s) == s = "healthy"

CanaryPasses ==
  /\ rollout = "canary" /\ jobs[Canary].status \in Final /\ Passed(jobs[Canary].status)
  /\ rollout' = "running" /\ place' = 2
  /\ UNCHANGED <<store, board, link, jobs, skipped, faults, installed, erred>>

\* the canary ended otherwise, or the deadline passed, which may be before
CanaryAborts ==
  /\ rollout = "canary" /\ ~Passed(jobs[Canary].status)
  /\ rollout' = "ended"
  /\ UNCHANGED <<store, board, link, jobs, place, skipped, faults, installed, erred>>

RolloutDone ==
  /\ rollout = "running" /\ place > Len(Order)
  /\ rollout' = "ended"
  /\ UNCHANGED <<store, board, link, jobs, place, skipped, faults, installed, erred>>

-----------------------------------------------------------------------------

Working(j) == Ask(j) \/ RequestFails(j) \/ Reconnected(j) \/ NotReconnected(j)
Raising(j) == TransferRaises(j) \/ AuditRaises(j)
Handle(n) ==
  HandleBegin(n) \/ HandleChunk(n) \/ RefuseCommit(n) \/ CarryOutCommit(n) \/ CommitRaises(n)
Rolling == RolloutNext \/ RolloutSkip \/ CanaryPasses \/ CanaryAborts \/ RolloutDone

Next ==
  \/ CreateBundle \/ RolloutStart \/ Rolling
  \/ \E n \in Nodes :
       Drop(n) \/ Restart(n) \/ Boot(n) \/ Notice(n) \/ Register(n) \/ Handle(n)
  \/ \E n \in Targets : Push(n)
  \/ \E j \in Jobs : Working(j) \/ Raising(j)

Spec == Init /\ [][Next]_vars

\* the hub's tasks run, and its timeouts expire
FairSpec == Spec /\ WF_vars(Rolling) /\ \A j \in Jobs : WF_vars(Working(j))

-----------------------------------------------------------------------------
(* Properties *)

\* "Transfer (begin + chunks) is safe to retry" (ota.py): whatever was lost, came
\* late or was done twice, what the only push of a board is about to commit is the
\* bundle, exactly, unless the bundle was replaced or the board has restarted.
TransferExact ==
  \A j \in Jobs : LET n == jobs[j].node IN
    (/\ jobs[j].status = "committing" /\ j \notin installed
     /\ jobs[j].version = store
     /\ \A i \in Jobs \ {j} : jobs[i].node = n => jobs[i].status = "unused")
      => staging[n] \in {Whole(jobs[j].version), Nothing}

\* A push that is reported as failed has not changed the board's firmware, also
\* if an answer was late or another push was under way, unless its commit raised on the
\* board or its audit entry at the hub ("only an explicit failed result is a hard
\* failure", ota.py).
FailedLeftAlone ==
  \A j \in Jobs : jobs[j].status = "failed" => j \notin installed \/ j \in erred

\* "Update the first node, wait until it is healthy, then the rest" (ota.py,
\* rollout), unless the first node could not be started on.
CanaryGate ==
  \A j \in Jobs : jobs[j].rank > 1 =>
     \/ Order[1] \in skipped
     \/ \E c \in Jobs : jobs[c].rank = 1 /\ jobs[c].status = "healthy"

\* Every push comes to an end, however often its link drops and whatever the
\* board answers.
PushEnds ==
  \A j \in Jobs : jobs[j].status = "running" ~> jobs[j].status \in Final

\* "Confirm the node comes back (proof the new firmware booted)" (ota.py): a
\* push is reported healthy only when its board runs the version pushed.
HealthyRunsNew ==
  [][\A j \in Jobs : jobs[j].status # "healthy" /\ jobs'[j].status = "healthy"
       => firmware[jobs[j].node] = jobs[j].version]_vars

=============================================================================
