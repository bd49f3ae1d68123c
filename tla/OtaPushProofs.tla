--------------------------- MODULE OtaPushProofs ---------------------------
(***************************************************************************)
(* For any rollout, number of pushes, retries and faults: a push reported  *)
(* failed has left its board alone, no node is pushed to before the canary *)
(* is healthy, and what the only push of a board commits is the bundle.    *)
(*                                                                         *)
(* All three turn on what may still be on its way to a board when the hub  *)
(* has given up on it.  Of a push there is at most one commit frame ever   *)
(* (CommitOnce), and after it the push never says failed without the       *)
(* board's word; frames of an earlier try are older than the begin of the  *)
(* present one, which wipes what they did (Exact).                         *)
(***************************************************************************)
EXTENDS OtaPush, TLAPS

Asks == {"running", "committing"}
Carried == {"committed", "healthy", "unconfirmed"}
Statuses == {"unused"} \union Asks \union Carried \union Final

JobRecords == [node : Nodes \union {Order[1]}, status : Statuses, version : Nat, try : Nat,
               step : 0..Last, asked : BOOLEAN, again : BOOLEAN,
               rank : Nat]
Frames == [job : Jobs, try : Nat, step : 0..Last, version : Nat]
Stagings == [manifest : Nat, got : [1..Files -> Seq(Nat)]]

\* The types.
Typed ==
  /\ store \in Nat \ {0}
  /\ up \in [Nodes -> BOOLEAN]
  /\ firmware \in [Nodes -> Nat] /\ prior \in [Nodes -> Nat]
  /\ staging \in [Nodes -> Stagings]
  /\ conn \in [Nodes -> {"on", "stale", "off"}]
  /\ line \in [Nodes -> Seq(Frames)]
  /\ jobs \in [Jobs -> JobRecords]
  /\ rollout \in {"none", "running", "canary", "ended"}
  /\ place \in Nat \ {0}
  /\ skipped \subseteq Nodes
  /\ faults \in Nat
  /\ installed \subseteq Jobs /\ erred \subseteq Jobs

\* Where a push is, says what it is doing; s is the version in the store.
Sound(r, s) ==
  /\ r.asked => r.status \in Asks
  /\ r.status = "running" => r.step <= Files
  /\ r.status = "committing" => r.step = Last
  /\ r.status # "unused" => r.node \in Nodes /\ r.version \in 1..s
  /\ r.rank > 0 => r.status # "unused"

Shaped == \A j \in Jobs : Sound(jobs[j], store)

\* A frame on its way to a board belongs to a push of the board, and to no later
\* try than the present one.
Sent(n, p) ==
  LET f == line[n][p]
      r == jobs[f.job] IN
  /\ r.node = n /\ r.status # "unused"
  /\ r.status \in Asks => f.try <= r.try
AllSent == \A n \in Nodes : \A p \in 1..Len(line[n]) : Sent(n, p)

\* A commit is sent once, and from then on it is waited for, or the push is
\* committed, whether or not an answer came, or something raised.
Awaited(f) ==
  /\ f.job \notin installed
  /\ \/ jobs[f.job].status \in Carried
     \/ jobs[f.job].status = "committing" /\ jobs[f.job].asked /\ jobs[f.job].try = f.try
     \/ jobs[f.job].status = "failed" /\ f.job \in erred
CommitAt(n, p) ==
  line[n][p].step = Last =>
    /\ Awaited(line[n][p])
    /\ \A q \in 1..Len(line[n]) :
         line[n][q].step = Last /\ line[n][q].job = line[n][p].job => p = q
Settled(j) ==
  \/ jobs[j].status \in Carried
  \/ jobs[j].status = "committing" /\ jobs[j].asked
  \/ jobs[j].status = "failed" /\ j \in erred
CommitOnce ==
  /\ \A n \in Nodes : \A p \in 1..Len(line[n]) : CommitAt(n, p)
  /\ \A j \in installed : Settled(j)

\* The board has had the begin of version v and the chunks before step s.
Prefix(v, s) ==
  [manifest |-> v, got |-> [i \in 1..Files |-> IF i < s THEN <<v>> ELSE <<>>]]

\* j is the only push of its board, of a bundle that was not replaced.
Sole(j) ==
  /\ jobs[j].status # "unused" /\ jobs[j].version = store
  /\ \A i \in Jobs \ {j} : jobs[i].node = jobs[j].node => jobs[i].status = "unused"

\* The frame that j's request waits for the answer to.
Current(j, f) ==
  /\ f.job = j /\ f.try = jobs[j].try /\ f.step = jobs[j].step
  /\ f.step # Last => f.version = jobs[j].version

\* Frames of this try: while the begin is asked it is the last one, after that there is
\* none but the one whose answer is awaited.
OnlyCurrent(j) ==
  LET q == line[jobs[j].node] IN
  IF jobs[j].step = 0
    THEN \A p \in 1..Len(q) : q[p].try = jobs[j].try =>
           p = Len(q) /\ jobs[j].asked /\ Current(j, q[p])
    ELSE q = <<>> \/ (Len(q) = 1 /\ jobs[j].asked /\ Current(j, q[1]))

\* ... and unless an answer was lost, the board has what was sent so far, until it swaps
\* it in.
UpToDate(j) ==
  LET n == jobs[j].node IN
  (/\ jobs[j].step > 0 /\ (jobs[j].asked => line[n] # <<>> \/ jobs[j].step = Last)
   /\ jobs[j].step = Last => j \notin installed) =>
    staging[n] \in {Prefix(store, jobs[j].step), Nothing}

Exact == \A j \in Jobs : Sole(j) /\ jobs[j].status \in Asks => OnlyCurrent(j) /\ UpToDate(j)

\* The first node was skipped, or its push has been found healthy.
Opened == Order[1] \in skipped \/ \E c \in Jobs : jobs[c].rank = 1 /\ jobs[c].status = "healthy"

Gated ==
  /\ place > 1 => Opened
  /\ rollout = "canary" => \E c \in Jobs : jobs[c].rank = 1
  /\ \A j \in Jobs : jobs[j].rank > 1 => Opened

Invariant == Typed /\ Shaped /\ AllSent /\ CommitOnce /\ Exact /\ Gated

-----------------------------------------------------------------------------
(* A push's record, and a board's line.                                    *)

\* A record with some fields changed is a record.
LEMMA RecordFacts ==
  ASSUME NEW r \in JobRecords, NEW st \in Statuses, NEW t \in Nat, NEW p \in 0..Last,
         NEW g \in BOOLEAN
  PROVE  /\ [r EXCEPT !.step = p, !.asked = FALSE] \in JobRecords
         /\ [r EXCEPT !.step = p, !.status = st, !.asked = FALSE] \in JobRecords
         /\ [r EXCEPT !.try = t, !.step = p, !.asked = FALSE] \in JobRecords
         /\ [r EXCEPT !.status = st, !.asked = FALSE] \in JobRecords
         /\ [r EXCEPT !.status = st, !.try = t, !.step = p, !.asked = FALSE,
                      !.again = g] \in JobRecords
BY DEF JobRecords

\* What the task makes of an outcome: a running push goes on by one step, or tries
\* again from the begin; only the board's refusal makes a committing one fail.
LEMMA AfterFacts ==
  ASSUME NEW s \in Nat, NEW r \in JobRecords, r.status \in Asks, Sound(r, s),
         NEW o \in {"ok", "failed", "error"}
  PROVE  /\ After(r, o) \in JobRecords /\ Sound(After(r, o), s) /\ ~After(r, o).asked
         /\ After(r, o).node = r.node /\ After(r, o).version = r.version
         /\ After(r, o).rank = r.rank
         /\ r.status = "committing" =>
              /\ After(r, o).status \in {"committed", "failed"}
              /\ o # "failed" => After(r, o).status = "committed"
         /\ r.status = "running" =>
              \/ After(r, o).status = "failed"
              \/ /\ After(r, o).status \in Asks /\ o = "ok"
                 /\ After(r, o).try = r.try /\ After(r, o).step = r.step + 1
              \/ /\ After(r, o).status = "running" /\ o # "ok"
                 /\ After(r, o).try = r.try + 1 /\ After(r, o).step = 0
<1>. DEFINE a == After(r, o)
<1>. SUFFICES /\ a \in JobRecords /\ Sound(a, s) /\ ~a.asked
              /\ a.node = r.node /\ a.version = r.version /\ a.rank = r.rank
              /\ r.status = "committing" =>
                   a.status \in {"committed", "failed"} /\ (o # "failed" => a.status = "committed")
              /\ r.status = "running" =>
                   \/ a.status = "failed"
                   \/ a.status \in Asks /\ o = "ok" /\ a.try = r.try /\ a.step = r.step + 1
                   \/ a.status = "running" /\ o # "ok" /\ a.try = r.try + 1 /\ a.step = 0
  OBVIOUS
<1>. HIDE DEF a
<1>1. /\ Files \in Nat \ {0} /\ Last = Files + 1 /\ Last \in 0..Last
      /\ r.step \in 0..Last /\ r.step + 1 \in Nat /\ r.try + 1 \in Nat /\ 0 \in 0..Last /\ r.try \in Nat /\ r.node \in Nodes /\ r.version \in 1..s
      /\ DOMAIN r = {"node", "status", "version", "try", "step", "asked", "again",
                    "rank"}
      /\ {"running", "committing", "committed", "failed"} \subseteq Statuses
  BY BoundsAssumption DEF Last, JobRecords, Sound, Asks, Statuses, Final, Carried
<1>2. CASE r.status = "committing"
  <2>1. CASE o = "failed"
    <3>1. a = [r EXCEPT !.status = "failed", !.try = 0, !.step = 0, !.asked = FALSE,
                    !.again = FALSE]
      BY <1>2, <2>1 DEF a, After, Done
    <3>2. a \in JobRecords
      BY <1>1, <1>2, <2>1, <3>1, RecordFacts
    <3>3. /\ a.status = "failed"
          /\ a.node = r.node /\ a.version = r.version /\ a.rank = r.rank /\ a.asked = FALSE
      BY <1>1, <3>1
    <3>. QED BY <1>1, <1>2, <2>1, <3>2, <3>3 DEF Sound, Asks
  <2>2. CASE o # "failed"
    <3>1. a = [r EXCEPT !.status = "committed", !.asked = FALSE]
      BY <1>2, <2>2 DEF a, After
    <3>2. a \in JobRecords
      BY <1>1, <1>2, <2>2, <3>1, RecordFacts
    <3>3. /\ a.status = "committed"
          /\ a.node = r.node /\ a.version = r.version /\ a.rank = r.rank /\ a.asked = FALSE
      BY <1>1, <3>1
    <3>. QED BY <1>1, <1>2, <2>2, <3>2, <3>3 DEF Sound, Asks
  <2>. QED BY <2>1, <2>2
<1>3. CASE r.status = "running" /\ o = "ok"
  <2>1. CASE r.step < Files
    <3>1. a = [r EXCEPT !.step = r.step + 1, !.asked = FALSE]
      BY <1>3, <2>1 DEF a, After, Advance
    <3>2. a \in JobRecords
      <4>1. r.step + 1 \in 0..Last
        BY <1>1, <2>1
      <4>. QED BY <3>1, <4>1 DEF JobRecords
    <3>3. /\ a.status = "running" /\ a.step = r.step + 1 /\ a.try = r.try
          /\ a.node = r.node /\ a.version = r.version /\ a.rank = r.rank /\ a.asked = FALSE
      BY <1>1, <1>3, <3>1
    <3>. QED BY <1>1, <1>3, <2>1, <3>2, <3>3 DEF Sound, Asks
  <2>2. CASE r.step = Files
    <3>1. a = [r EXCEPT !.step = Last, !.status = "committing", !.asked = FALSE]
      BY <1>1, <1>3, <2>2 DEF a, After, Advance
    <3>2. a \in JobRecords
      BY <1>1, <1>3, <2>2, <3>1, RecordFacts
    <3>3. /\ a.status = "committing" /\ a.step = Last /\ a.try = r.try
          /\ a.node = r.node /\ a.version = r.version /\ a.rank = r.rank /\ a.asked = FALSE
      BY <1>1, <3>1
    <3>. QED BY <1>1, <1>3, <2>2, <3>2, <3>3 DEF Sound, Asks
  <2>. QED BY <1>1, <1>3, <2>1, <2>2 DEF Sound
<1>4. CASE r.status = "running" /\ o # "ok"
  <2>1. CASE r.try < Tries
    <3>1. a = [r EXCEPT !.try = r.try + 1, !.step = 0, !.asked = FALSE]
      BY <1>4, <2>1 DEF a, After, Retry
    <3>2. a \in JobRecords
      BY <1>1, <1>4, <2>1, <3>1, RecordFacts
    <3>3. /\ a.status = "running" /\ a.step = 0 /\ a.try = r.try + 1
          /\ a.node = r.node /\ a.version = r.version /\ a.rank = r.rank /\ a.asked = FALSE
      BY <1>1, <1>4, <3>1
    <3>. QED BY <1>1, <1>4, <2>1, <3>2, <3>3 DEF Sound, Asks
  <2>2. CASE ~(r.try < Tries)
    <3>1. a = [r EXCEPT !.status = "failed", !.try = 0, !.step = 0, !.asked = FALSE,
                    !.again = FALSE]
      BY <1>4, <2>2 DEF a, After, Retry, Done
    <3>2. a \in JobRecords
      BY <1>1, <1>4, <2>2, <3>1, RecordFacts
    <3>3. /\ a.status = "failed"
          /\ a.node = r.node /\ a.version = r.version /\ a.rank = r.rank /\ a.asked = FALSE
      BY <1>1, <3>1
    <3>. QED BY <1>1, <1>4, <2>2, <3>2, <3>3 DEF Sound, Asks
  <2>. QED BY <2>1, <2>2
<1>. QED BY <1>2, <1>3, <1>4 DEF Asks

\* A frame is appended, or the first one is taken.
LEMMA LineFacts ==
  ASSUME NEW q \in Seq(Frames)
  PROVE  /\ Len(q) \in Nat /\ \A p \in 1..Len(q) : q[p] \in Frames
         /\ \A f \in Frames : /\ Append(q, f) \in Seq(Frames) /\ Len(Append(q, f)) = Len(q) + 1
                              /\ \A p \in 1..Len(q) : Append(q, f)[p] = q[p]
                              /\ Append(q, f)[Len(q) + 1] = f
         /\ q # <<>> => /\ Head(q) = q[1] /\ Head(q) \in Frames /\ 1 \in 1..Len(q)
                        /\ Tail(q) \in Seq(Frames) /\ Len(Tail(q)) = Len(q) - 1
                        /\ \A p \in 1..Len(Tail(q)) : p + 1 \in 1..Len(q) /\ Tail(q)[p] = q[p + 1]
OBVIOUS

\* The board's answer changes at most the push that waits for it.
LEMMA AnswerFacts ==
  ASSUME Typed, Shaped, NEW f \in Frames, NEW o \in {"ok", "failed"}, Answer(f, o)
  PROVE  /\ jobs' \in [Jobs -> JobRecords] /\ \A i \in Jobs : Sound(jobs'[i], store)
         /\ \A i \in Jobs : jobs'[i] # jobs[i] =>
              /\ i = f.job /\ jobs[i].asked /\ jobs[i].status \in Asks
              /\ jobs[i].try = f.try /\ jobs[i].step = f.step
              /\ jobs'[i] = After(jobs[i], o)
<1>1. f.job \in Jobs /\ jobs[f.job] \in JobRecords /\ Sound(jobs[f.job], store) /\ store \in Nat
  BY DEF Typed, Shaped, Frames
<1>2. CASE UNCHANGED jobs
  BY <1>2 DEF Typed, Shaped
<1>3. CASE /\ jobs[f.job].asked /\ jobs[f.job].try = f.try /\ jobs[f.job].step = f.step
           /\ jobs' = [jobs EXCEPT ![f.job] = After(jobs[f.job], o)]
  <2>1. jobs[f.job].status \in Asks
    BY <1>1, <1>3 DEF Sound
  <2>2. After(jobs[f.job], o) \in JobRecords /\ Sound(After(jobs[f.job], o), store)
    BY <1>1, <2>1, AfterFacts
  <2>. QED BY <1>1, <1>3, <2>1, <2>2 DEF Typed, Shaped
<1>. QED BY <1>2, <1>3 DEF Answer

-----------------------------------------------------------------------------
(* Types, and how a push can move.                                         *)

\* A push never becomes another one: it is created once, tries upwards, and keeps
\* what it has reached, unless it raised, which e says.
Moves(r, m, e) ==
  /\ r.status # "unused" =>
       m.status # "unused" /\ m.node = r.node /\ m.version = r.version /\ m.rank = r.rank
  /\ m.status \in Asks => r.status = "unused" \/ (r.status \in Asks /\ r.try <= m.try)
  /\ r.status \in Carried => m.status \in Carried \/ (m.status = "failed" /\ e)
  /\ r.status = "failed" => m.status = "failed"
  /\ r.status = "healthy" => m.status = "healthy"
  /\ r.status = "unused" =>
       m = r \/ (m.status = "running" /\ m.step = 0 /\ ~m.asked /\ m.version = store)

AllMove == \A j \in Jobs : Moves(jobs[j], jobs'[j], j \in erred')

\* What was observed stays so.
LEMMA GrowFacts ==
  ASSUME [Next]_vars
  PROVE  installed \subseteq installed' /\ erred \subseteq erred'
<1>1. ASSUME NEW n \in Nodes, Handle(n)
      PROVE  installed \subseteq installed' /\ erred \subseteq erred'
  BY <1>1 DEF Handle, HandleBegin, HandleChunk, RefuseCommit, CarryOutCommit, CommitRaises
<1>2. ASSUME NEW n \in Nodes,
             Drop(n) \/ Restart(n) \/ Boot(n) \/ Notice(n) \/ Register(n) \/ Push(n)
      PROVE  UNCHANGED <<installed, erred>>
  BY <1>2 DEF Drop, Restart, Boot, Notice, Register, Push
<1>3. ASSUME NEW j \in Jobs, Working(j) \/ Raising(j)
      PROVE  installed \subseteq installed' /\ erred \subseteq erred'
  BY <1>3 DEF Working, Ask, RequestFails, Reconnected, NotReconnected, Raising,
     TransferRaises, AuditRaises
<1>4. CASE CreateBundle \/ RolloutStart \/ Rolling \/ UNCHANGED vars
  BY <1>4 DEF CreateBundle, RolloutStart, Rolling, RolloutNext, RolloutSkip, CanaryPasses,
     CanaryAborts, RolloutDone, vars
<1>. QED BY <1>1, <1>2, <1>3, <1>4, BoundsAssumption DEF Next

\* No push moves by itself.
LEMMA StandStill == ASSUME Typed, UNCHANGED jobs PROVE AllMove
BY DEF Typed, AllMove, Moves, JobRecords

\* The bundle is replaced: versions only grow.
LEMMA CreateBundleTyped ==
  ASSUME Typed, Shaped, CreateBundle
  PROVE  Typed' /\ Shaped' /\ AllMove
<1>1. store' = store + 1 /\ faults' = faults + 1
      /\ UNCHANGED <<board, link, jobs, rolling, installed, erred>>
  BY DEF CreateBundle, Fault
<1>2. Typed'
  BY <1>1 DEF Typed, board, link, rolling
<1>3. Shaped'
  BY <1>1 DEF Typed, Shaped, Sound, JobRecords
<1>. QED BY <1>1, <1>2, <1>3, StandStill

\* What a process that ends leaves: nothing staged, and no line.
LEMMA RestartsTyped ==
  ASSUME Typed, NEW n \in Nodes, Restarts(n)
  PROVE  /\ up' \in [Nodes -> BOOLEAN] /\ staging' \in [Nodes -> Stagings]
         /\ conn' \in [Nodes -> {"on", "stale", "off"}] /\ line' \in [Nodes -> Seq(Frames)]
<1>1. Nothing \in Stagings /\ <<>> \in Seq(Frames)
  BY DEF Nothing, Stagings
<1>. QED BY <1>1 DEF Typed, Restarts

\* A board and its link come and go.
LEMMA BoardTyped ==
  ASSUME Typed, Shaped, NEW n \in Nodes, Drop(n) \/ Restart(n) \/ Boot(n) \/ Notice(n)
  PROVE  Typed' /\ Shaped' /\ AllMove
<1>1. UNCHANGED <<store, jobs, rollout, place, skipped, installed, erred>>
  BY DEF Drop, Restart, Boot, Notice, board, link, rolling
<1>2. Shaped' /\ AllMove
  BY <1>1, StandStill DEF Shaped
<1>3. CASE Drop(n)
  <2>1. /\ conn' \in [Nodes -> {"on", "stale", "off"}] /\ line' \in [Nodes -> Seq(Frames)]
        /\ faults' \in Nat /\ UNCHANGED <<up, firmware, prior, staging>>
    BY <1>3 DEF Drop, Fault, Typed, board
  <2>. QED BY <1>1, <1>2, <2>1 DEF Typed
<1>4. CASE Restart(n)
  <2>1. faults' \in Nat /\ UNCHANGED <<firmware, prior>>
    BY <1>4 DEF Restart, Fault, Typed
  <2>2. /\ up' \in [Nodes -> BOOLEAN] /\ staging' \in [Nodes -> Stagings]
        /\ conn' \in [Nodes -> {"on", "stale", "off"}] /\ line' \in [Nodes -> Seq(Frames)]
    BY <1>4, RestartsTyped DEF Restart
  <2>. QED BY <1>1, <1>2, <2>1, <2>2 DEF Typed
<1>5. CASE Boot(n)
  <2>1. up' \in [Nodes -> BOOLEAN]
    BY <1>5 DEF Boot, Typed
  <2>2. firmware' \in [Nodes -> Nat] /\ prior' \in [Nodes -> Nat]
    BY <1>5 DEF Boot, Typed
  <2>3. UNCHANGED <<staging, conn, line, faults>>
    BY <1>5 DEF Boot, link
  <2>. QED BY <1>1, <1>2, <2>1, <2>2, <2>3 DEF Typed
<1>6. CASE Notice(n)
  <2>1. conn' \in [Nodes -> {"on", "stale", "off"}]
    BY <1>6 DEF Notice, Typed
  <2>2. UNCHANGED <<up, firmware, prior, staging, line, faults>>
    BY <1>6 DEF Notice, board
  <2>. QED BY <1>1, <1>2, <2>1, <2>2 DEF Typed
<1>. QED BY <1>3, <1>4, <1>5, <1>6

\* A board registers: its pushes learn that it is there again.
LEMMA RegisterTyped ==
  ASSUME Typed, Shaped, NEW n \in Nodes, Register(n)
  PROVE  Typed' /\ Shaped' /\ AllMove
<1>1. ASSUME NEW j \in Jobs
      PROVE  /\ jobs'[j] \in JobRecords /\ Sound(jobs'[j], store) /\ Moves(jobs[j], jobs'[j], j \in erred')
  <2>1. CASE jobs'[j] = jobs[j]
    BY <2>1 DEF Typed, Shaped, Moves, JobRecords
  <2>2. CASE jobs[j].status # "unused" /\ jobs'[j] = [jobs[j] EXCEPT !.again = TRUE]
    <3>. DEFINE b == jobs'[j]
    <3>1. jobs[j] \in JobRecords /\ Sound(jobs[j], store)
      BY DEF Typed, Shaped
    <3>2. /\ b \in JobRecords /\ b.status = jobs[j].status /\ b.node = jobs[j].node
          /\ b.version = jobs[j].version /\ b.try = jobs[j].try /\ b.step = jobs[j].step
          /\ b.asked = jobs[j].asked /\ b.rank = jobs[j].rank
      BY <2>2, <3>1 DEF JobRecords
    <3>3. jobs[j].try \in Nat
      BY <3>1 DEF JobRecords
    <3>. HIDE DEF b
    <3>4. Sound(b, store) /\ Moves(jobs[j], b, j \in erred')
      BY <2>2, <3>1, <3>2, <3>3 DEF Sound, Moves
    <3>. QED BY <3>2, <3>4 DEF b
  <2>. QED BY <2>1, <2>2 DEF Register, Running
<1>2. jobs' \in [Jobs -> JobRecords]
  <2>1. jobs' = [j \in Jobs |-> jobs'[j]]
    BY DEF Register
  <2>. QED BY <1>1, <2>1
<1>3. Typed'
  BY <1>2 DEF Register, Typed, board, rolling
<1>4. UNCHANGED store
  BY DEF Register
<1>. QED BY <1>1, <1>3, <1>4 DEF Shaped, AllMove

\* A push is created.
LEMMA StartPushMoves ==
  ASSUME Typed, Shaped, NEW n \in Nodes, NEW r \in Nat, Unused # {}, StartPush(n, r)
  PROVE  /\ jobs' \in [Jobs -> JobRecords]
         /\ \A j \in Jobs : Sound(jobs'[j], store) /\ Moves(jobs[j], jobs'[j], j \in erred')
         /\ \E j \in Jobs : /\ jobs[j].status = "unused" /\ jobs'[j].rank = r
                            /\ \A i \in Jobs \ {j} : jobs'[i] = jobs[i]
<1>. DEFINE new == [NoJob EXCEPT !.node = n, !.status = "running", !.version = store,
                                 !.try = 1, !.rank = r]
<1>1. PICK j \in Unused : jobs' = [jobs EXCEPT ![j] = new]
  BY DEF StartPush
<1>2. /\ new \in JobRecords /\ Sound(new, store) /\ new.rank = r
      /\ new.status = "running" /\ new.step = 0 /\ new.asked = FALSE /\ new.version = store
  <2>1. store \in Nat \ {0} /\ 0 \in 0..Last /\ 0 <= Files /\ "running" \in Statuses
    BY BoundsAssumption DEF Typed, Last, Statuses, Asks
  <2>2. NoJob \in JobRecords /\ NoJob.step = 0 /\ NoJob.asked = FALSE
    BY <2>1 DEF NoJob, JobRecords, Statuses
  <2>3. /\ new \in JobRecords
        /\ new.node = n /\ new.status = "running" /\ new.version = store /\ new.try = 1
        /\ new.rank = r /\ new.step = 0 /\ new.asked = FALSE
    BY <2>1, <2>2 DEF JobRecords
  <2>. HIDE DEF new
  <2>. QED BY <2>1, <2>3 DEF Sound, Asks
<1>. HIDE DEF new
<1>3. j \in Jobs /\ jobs[j].status = "unused"
  BY DEF Unused
<1>4. jobs' \in [Jobs -> JobRecords] /\ jobs'[j] = new /\ \A i \in Jobs \ {j} : jobs'[i] = jobs[i]
  BY <1>1, <1>2, <1>3 DEF Typed
<1>5. ASSUME NEW i \in Jobs PROVE Sound(jobs'[i], store) /\ Moves(jobs[i], jobs'[i], i \in erred')
  <2>1. CASE i = j
    BY <1>2, <1>3, <1>4, <2>1 DEF Moves, Carried
  <2>2. CASE i # j
    BY <1>4, <2>2 DEF Typed, Shaped, Moves, JobRecords
  <2>. QED BY <2>1, <2>2
<1>. QED BY <1>2, <1>3, <1>4, <1>5

\* By hand, or as the next one of the rollout.
LEMMA PushTyped ==
  ASSUME Typed, Shaped, NEW n \in Nodes, Push(n) \/ (RolloutNext /\ n = Order[place])
  PROVE  Typed' /\ Shaped' /\ AllMove
<1>1. CASE Push(n)
  <2>1. UNCHANGED <<store, up, firmware, prior, staging, conn, line, rollout, place, skipped,
                    faults, installed, erred>>
    BY <1>1 DEF Push, board, link, rolling
  <2>2. jobs' \in [Jobs -> JobRecords] /\ Shaped' /\ AllMove
    BY <1>1, <2>1, StartPushMoves DEF Push, Shaped, AllMove
  <2>. QED BY <2>1, <2>2 DEF Typed
<1>2. CASE RolloutNext /\ n = Order[place]
  <2>1. /\ UNCHANGED <<store, up, firmware, prior, staging, conn, line, skipped, faults,
                       installed, erred>>
        /\ rollout' \in {"canary", "running"} /\ place' \in Nat \ {0}
    BY <1>2 DEF RolloutNext, board, link, Typed
  <2>2. jobs' \in [Jobs -> JobRecords] /\ Shaped' /\ AllMove
    BY <1>2, <2>1, StartPushMoves DEF RolloutNext, Shaped, AllMove, Typed
  <2>. QED BY <2>1, <2>2 DEF Typed
<1>. QED BY <1>1, <1>2

\* The rest of the rollout moves no push.
LEMMA RolloutTyped ==
  ASSUME Typed, Shaped, RolloutStart \/ RolloutSkip \/ CanaryPasses \/ CanaryAborts \/ RolloutDone
  PROVE  Typed' /\ Shaped' /\ AllMove
<1>1. /\ UNCHANGED <<store, up, firmware, prior, staging, conn, line, jobs, faults, installed, erred>>
      /\ rollout' \in {"none", "running", "canary", "ended"}
  BY DEF RolloutStart, RolloutSkip, CanaryPasses, CanaryAborts, RolloutDone, board, link, Typed
<1>2. place' \in Nat \ {0}
  BY DEF RolloutStart, RolloutSkip, CanaryPasses, CanaryAborts, RolloutDone, Typed
<1>3. skipped' \subseteq Nodes
  <2>1. CASE RolloutSkip
    <3>1. Order[place] \in Nodes
      BY <2>1, BoundsAssumption DEF RolloutSkip, Typed, Nodes
    <3>. QED BY <2>1, <3>1 DEF RolloutSkip, Typed
  <2>2. CASE ~RolloutSkip
    BY <2>2 DEF RolloutStart, CanaryPasses, CanaryAborts, RolloutDone, Typed
  <2>. QED BY <2>1, <2>2
<1>4. Typed'
  BY <1>1, <1>2, <1>3 DEF Typed
<1>. QED BY <1>1, <1>4, StandStill DEF Shaped

\* A frame is on its way, and its answer awaited.
LEMMA AskTyped ==
  ASSUME Typed, Shaped, NEW j \in Jobs, Ask(j)
  PROVE  Typed' /\ Shaped' /\ AllMove
<1>1. /\ jobs[j] \in JobRecords /\ jobs[j].status \in Asks /\ Sound(jobs[j], store)
      /\ jobs' = [jobs EXCEPT ![j] = [jobs[j] EXCEPT !.asked = TRUE]]
  BY DEF Ask, Asking, Asks, Typed, Shaped
<1>2. /\ [jobs[j] EXCEPT !.asked = TRUE] \in JobRecords
      /\ Sound([jobs[j] EXCEPT !.asked = TRUE], store)
      /\ Moves(jobs[j], [jobs[j] EXCEPT !.asked = TRUE], j \in erred')
  <2>. DEFINE b == [jobs[j] EXCEPT !.asked = TRUE]
  <2>1. /\ b \in JobRecords /\ b.status = jobs[j].status /\ b.node = jobs[j].node
        /\ b.version = jobs[j].version /\ b.try = jobs[j].try /\ b.step = jobs[j].step
        /\ b.rank = jobs[j].rank /\ jobs[j].try \in Nat
    BY <1>1 DEF JobRecords
  <2>. HIDE DEF b
  <2>2. Sound(b, store) /\ Moves(jobs[j], b, j \in erred')
    BY <1>1, <2>1 DEF Sound, Moves, Asks, Carried
  <2>. QED BY <2>1, <2>2 DEF b
<1>3. jobs' \in [Jobs -> JobRecords] /\ \A i \in Jobs : Sound(jobs'[i], store)
  BY <1>1, <1>2 DEF Typed, Shaped
<1>4. \A i \in Jobs : Moves(jobs[i], jobs'[i], i \in erred')
  <2>1. \A i \in Jobs : Moves(jobs[i], jobs[i], i \in erred')
    BY DEF Typed, Moves, JobRecords
  <2>. QED BY <1>1, <1>2, <2>1 DEF Typed
<1>5. line' \in [Nodes -> Seq(Frames)]
  <2>. DEFINE n == jobs[j].node
              v == CASE jobs[j].step = 0 -> jobs[j].version
                     [] jobs[j].step = Last -> 0
                     [] OTHER -> store
              f == [job |-> j, try |-> jobs[j].try, step |-> jobs[j].step, version |-> v]
  <2>1. line' = line \/ line' = [line EXCEPT ![n] = Append(line[n], f)]
    BY DEF Ask
  <2>2. v \in Nat
    BY <1>1 DEF JobRecords, Typed
  <2>. HIDE DEF v
  <2>3. f \in Frames
    BY <1>1, <2>2 DEF JobRecords, Frames
  <2>. HIDE DEF f
  <2>4. n \in Nodes => Append(line[n], f) \in Seq(Frames)
    BY <2>3 DEF Typed
  <2>. QED BY <2>1, <2>4 DEF Typed
<1>6. UNCHANGED <<store, up, firmware, prior, staging, conn, rollout, place, skipped, faults,
                  installed, erred>>
  BY DEF Ask, board, rolling
<1>. QED BY <1>3, <1>4, <1>5, <1>6 DEF Typed, Shaped, AllMove

\* A request fails.
LEMMA RequestFailsTyped ==
  ASSUME Typed, Shaped, NEW j \in Jobs, RequestFails(j)
  PROVE  Typed' /\ Shaped' /\ AllMove
<1>1. /\ jobs[j] \in JobRecords /\ jobs[j].status \in Asks /\ Sound(jobs[j], store)
      /\ jobs' = [jobs EXCEPT ![j] = After(jobs[j], "error")] /\ store \in Nat
  BY DEF RequestFails, Asking, Asks, Typed, Shaped
<1>. DEFINE a == After(jobs[j], "error")
<1>2. a \in JobRecords /\ Sound(a, store) /\ Moves(jobs[j], a, j \in erred')
  BY <1>1, AfterFacts DEF Moves, Asks, Carried, JobRecords
<1>. HIDE DEF a
<1>3. jobs' \in [Jobs -> JobRecords] /\ \A i \in Jobs : Sound(jobs'[i], store)
  BY <1>1, <1>2 DEF Typed, Shaped, a
<1>4. \A i \in Jobs : Moves(jobs[i], jobs'[i], i \in erred')
  BY <1>1, <1>2 DEF Typed, Moves, JobRecords, a
<1>5. UNCHANGED <<store, up, firmware, prior, staging, conn, line, rollout, place, skipped,
                  faults, installed, erred>>
  BY DEF RequestFails, board, link, rolling
<1>. QED BY <1>3, <1>4, <1>5 DEF Typed, Shaped, AllMove

\* A push ends: committed, it comes back, or not; or something raises.
LEMMA EndTyped ==
  ASSUME Typed, Shaped, NEW j \in Jobs, Reconnected(j) \/ NotReconnected(j) \/ Raising(j)
  PROVE  Typed' /\ Shaped' /\ AllMove
<1>1. PICK st \in {"healthy", "unconfirmed", "failed"} :
        /\ jobs' = [jobs EXCEPT ![j] = Done(jobs[j], st)]
        /\ st = "failed" => j \in erred'
        /\ st # "failed" => jobs[j].status = "committed"
  BY DEF Reconnected, NotReconnected, Raising, TransferRaises, AuditRaises
<1>2. /\ jobs[j] \in JobRecords /\ jobs[j].status \in {"running", "committed"}
      /\ Sound(jobs[j], store)
  BY DEF Reconnected, NotReconnected, Raising, TransferRaises, AuditRaises, Typed, Shaped
<1>. DEFINE a == Done(jobs[j], st)
<1>3. a \in JobRecords /\ Sound(a, store) /\ Moves(jobs[j], a, j \in erred')
  <2>1. 0 \in 0..Last /\ st \in Statuses
    BY BoundsAssumption DEF Last, Statuses, Carried, Final
  <2>2. a = [jobs[j] EXCEPT !.status = st, !.try = 0, !.step = 0, !.asked = FALSE,
                            !.again = FALSE]
    BY DEF Done
  <2>. HIDE DEF a
  <2>3. a \in JobRecords
    BY <1>2, <2>1, <2>2, RecordFacts
  <2>4. /\ a.status = st /\ a.node = jobs[j].node /\ a.version = jobs[j].version
        /\ a.rank = jobs[j].rank /\ a.asked = FALSE
    BY <1>2, <2>2 DEF JobRecords
  <2>. QED BY <1>1, <1>2, <2>3, <2>4 DEF Sound, Moves, Asks, Carried
<1>. HIDE DEF a
<1>4. jobs' \in [Jobs -> JobRecords] /\ \A i \in Jobs : Sound(jobs'[i], store)
  BY <1>1, <1>3 DEF Typed, Shaped, a
<1>5. \A i \in Jobs : Moves(jobs[i], jobs'[i], i \in erred')
  BY <1>1, <1>3 DEF Typed, Moves, JobRecords, a
<1>6. /\ UNCHANGED <<store, up, firmware, prior, staging, conn, line, rollout, place, skipped,
                     installed>>
      /\ faults' \in Nat /\ erred' \subseteq Jobs
  BY DEF Reconnected, NotReconnected, Raising, TransferRaises, AuditRaises, Fault, board, link,
     rolling, Typed
<1>. QED BY <1>4, <1>5, <1>6 DEF Typed, Shaped, AllMove

\* The push that an answer reaches moves on, the others stay.
LEMMA AnswerMoves ==
  ASSUME Typed, Shaped, NEW f \in Frames, NEW o \in {"ok", "failed"}, Answer(f, o), UNCHANGED store
  PROVE  jobs' \in [Jobs -> JobRecords] /\ Shaped' /\ AllMove
<1>1. /\ jobs' \in [Jobs -> JobRecords] /\ \A i \in Jobs : Sound(jobs'[i], store)
      /\ \A i \in Jobs : jobs'[i] # jobs[i] =>
           jobs[i].status \in Asks /\ jobs'[i] = After(jobs[i], o)
  BY AnswerFacts
<1>2. ASSUME NEW i \in Jobs PROVE Moves(jobs[i], jobs'[i], i \in erred')
  <2>1. jobs[i] \in JobRecords /\ Sound(jobs[i], store) /\ store \in Nat
    BY DEF Typed, Shaped
  <2>2. CASE jobs'[i] = jobs[i]
    BY <2>1, <2>2 DEF Moves, JobRecords
  <2>3. CASE jobs[i].status \in Asks /\ jobs'[i] = After(jobs[i], o)
    BY <2>1, <2>3, AfterFacts DEF Moves, Asks, Carried, JobRecords
  <2>. QED BY <1>1, <2>2, <2>3
<1>. QED BY <1>1, <1>2 DEF Shaped, AllMove

\* The board handles the first frame of its line.
LEMMA HandleTyped ==
  ASSUME Typed, Shaped, NEW n \in Nodes, Handle(n)
  PROVE  Typed' /\ Shaped' /\ AllMove
<1>. DEFINE f == Head(line[n])
<1>1. /\ line[n] \in Seq(Frames) /\ line[n] # <<>> /\ f \in Frames
      /\ Tail(line[n]) \in Seq(Frames) /\ <<>> \in Seq(Frames)
      /\ staging[n] \in Stagings
  <2>1. line[n] \in Seq(Frames) /\ line[n] # <<>> /\ staging[n] \in Stagings
    BY DEF Typed, Handle, HandleBegin, HandleChunk, RefuseCommit, CarryOutCommit, CommitRaises
  <2>. QED BY <2>1, LineFacts
<1>2. PICK o \in {"ok", "failed"} : Answer(f, o)
  BY DEF Handle, HandleBegin, HandleChunk, RefuseCommit, CarryOutCommit, CommitRaises
<1>3. /\ UNCHANGED <<store, rollout, place, skipped>>
      /\ installed' = installed \/ installed' = installed \union {f.job}
      /\ erred' = erred \/ erred' = erred \union {f.job}
  BY DEF Handle, HandleBegin, HandleChunk, RefuseCommit, CarryOutCommit, CommitRaises, rolling
<1>4. /\ installed' \subseteq Jobs /\ erred' \subseteq Jobs
      /\ faults' \in Nat
  <2>1. faults' = faults \/ faults' = faults + 1
    BY DEF Handle, HandleBegin, HandleChunk, RefuseCommit, CarryOutCommit, CommitRaises, Fault
  <2>. QED BY <1>1, <1>3, <2>1 DEF Typed, Frames
<1>5. jobs' \in [Jobs -> JobRecords] /\ Shaped' /\ AllMove
  BY <1>1, <1>2, <1>3, AnswerMoves
<1>6. CASE HandleBegin(n)
  <2>1. [manifest |-> f.version, got |-> [i \in 1..Files |-> <<>>]] \in Stagings
    BY <1>1 DEF Stagings, Frames
  <2>2. staging' \in [Nodes -> Stagings] /\ line' \in [Nodes -> Seq(Frames)]
    BY <1>1, <1>6, <2>1 DEF HandleBegin, Typed
  <2>. QED BY <1>3, <1>4, <1>5, <1>6, <2>2 DEF HandleBegin, Typed
<1>7. CASE HandleChunk(n)
  <2>1. staging' \in [Nodes -> Stagings]
    <3>1. CASE UNCHANGED staging
      BY <3>1 DEF Typed
    <3>2. CASE staging' = [staging EXCEPT ![n].got[f.step] = Append(@, f.version)]
      <4>1. /\ staging[n].got \in [1..Files -> Seq(Nat)] /\ staging[n].manifest \in Nat
            /\ f.step \in 1..Files /\ f.version \in Nat
        BY <1>1, <1>7 DEF Stagings, HandleChunk, Frames
      <4>2. Append(staging[n].got[f.step], f.version) \in Seq(Nat)
        <5>. DEFINE g == staging[n].got[f.step]
        <5>1. g \in Seq(Nat)
          BY <4>1
        <5>. HIDE DEF g
        <5>2. Append(g, f.version) \in Seq(Nat)
          BY <4>1, <5>1
        <5>. QED BY <5>2 DEF g
      <4>3. [staging[n].got EXCEPT ![f.step] = Append(@, f.version)] \in [1..Files -> Seq(Nat)]
        BY <4>1, <4>2
      <4>4. [staging[n] EXCEPT !.got[f.step] = Append(@, f.version)] \in Stagings
        BY <1>1, <4>3 DEF Stagings
      <4>5. staging' = [staging EXCEPT ![n] = [staging[n] EXCEPT !.got[f.step] = Append(@, f.version)]]
        BY <3>2
      <4>. QED BY <4>4, <4>5 DEF Typed
    <3>. QED BY <1>7, <3>1, <3>2 DEF HandleChunk
  <2>2. line' \in [Nodes -> Seq(Frames)]
    BY <1>1, <1>7 DEF HandleChunk, Typed
  <2>. QED BY <1>3, <1>4, <1>5, <1>7, <2>1, <2>2 DEF HandleChunk, Typed
<1>8. CASE RefuseCommit(n)
  <2>1. line' \in [Nodes -> Seq(Frames)]
    BY <1>1, <1>8 DEF RefuseCommit, Typed
  <2>. QED BY <1>3, <1>4, <1>5, <1>8, <2>1 DEF RefuseCommit, Typed, board
<1>9. CASE CarryOutCommit(n)
  <2>1. /\ up' \in [Nodes -> BOOLEAN] /\ staging' \in [Nodes -> Stagings]
        /\ conn' \in [Nodes -> {"on", "stale", "off"}] /\ line' \in [Nodes -> Seq(Frames)]
    BY <1>9, RestartsTyped DEF CarryOutCommit
  <2>2. firmware' \in [Nodes -> Nat] /\ prior' \in [Nodes -> Nat]
    BY <1>1, <1>9 DEF CarryOutCommit, Typed, Stagings
  <2>. QED BY <1>3, <1>4, <1>5, <2>1, <2>2 DEF Typed
<1>10. CASE CommitRaises(n)
  <2>1. /\ Mixed \in Nat /\ staging[n].manifest \in Nat
        /\ Spent(staging[n].manifest) \in Stagings
    BY <1>1, BoundsAssumption DEF Mixed, Gone, Spent, Stagings
  <2>2. firmware' \in [Nodes -> Nat] /\ prior' \in [Nodes -> Nat]
    <3>1. \/ firmware' = firmware /\ prior' = prior
          \/ \E v \in {Mixed, staging[n].manifest} :
               firmware' = [firmware EXCEPT ![n] = v] /\ prior' = [prior EXCEPT ![n] = v]
      BY <1>10 DEF CommitRaises
    <3>2. firmware \in [Nodes -> Nat] /\ prior \in [Nodes -> Nat]
      BY DEF Typed
    <3>3. ASSUME NEW v \in {Mixed, staging[n].manifest},
                 firmware' = [firmware EXCEPT ![n] = v] /\ prior' = [prior EXCEPT ![n] = v]
          PROVE  firmware' \in [Nodes -> Nat] /\ prior' \in [Nodes -> Nat]
      <4>1. v \in Nat
        BY <2>1
      <4>. QED BY <3>2, <3>3, <4>1
    <3>. QED BY <3>1, <3>2, <3>3
  <2>3. staging' \in [Nodes -> Stagings]
    <3>1. staging' = staging \/ staging' = [staging EXCEPT ![n] = Spent(staging[n].manifest)]
      BY <1>10 DEF CommitRaises
    <3>. QED BY <2>1, <3>1 DEF Typed
  <2>4. line' \in [Nodes -> Seq(Frames)] /\ UNCHANGED <<up, conn>>
    BY <1>1, <1>10 DEF CommitRaises, Typed
  <2>. QED BY <1>3, <1>4, <1>5, <2>2, <2>3, <2>4 DEF Typed
<1>. QED BY <1>5, <1>6, <1>7, <1>8, <1>9, <1>10 DEF Handle

\* Every step has the types, and moves the pushes as said.
LEMMA TypedStep ==
  ASSUME Typed, Shaped, [Next]_vars
  PROVE  Typed' /\ Shaped' /\ AllMove
<1>1. CASE CreateBundle
  BY <1>1, CreateBundleTyped
<1>2. CASE RolloutNext
  <2>1. Order[place] \in Nodes
    BY <1>2, BoundsAssumption DEF RolloutNext, Typed, Nodes
  <2>. QED BY <1>2, <2>1, PushTyped
<1>3. CASE RolloutStart \/ RolloutSkip \/ CanaryPasses \/ CanaryAborts \/ RolloutDone
  BY <1>3, RolloutTyped
<1>4. ASSUME NEW n \in Nodes,
             Drop(n) \/ Restart(n) \/ Boot(n) \/ Notice(n) \/ Register(n) \/ Handle(n)
      PROVE  Typed' /\ Shaped' /\ AllMove
  BY <1>4, BoardTyped, RegisterTyped, HandleTyped
<1>5. ASSUME NEW n \in Targets, Push(n)
      PROVE  Typed' /\ Shaped' /\ AllMove
  BY <1>5, PushTyped, BoundsAssumption
<1>6. ASSUME NEW j \in Jobs, Working(j) \/ Raising(j)
      PROVE  Typed' /\ Shaped' /\ AllMove
  BY <1>6, AskTyped, RequestFailsTyped, EndTyped DEF Working
<1>7. CASE UNCHANGED vars
  BY <1>7, StandStill DEF vars, Typed, Shaped
<1>. QED BY <1>1, <1>2, <1>3, <1>4, <1>5, <1>6, <1>7 DEF Next, Rolling

-----------------------------------------------------------------------------
(* What is on its way to the boards.                                       *)

\* Some frames of the line of n are gone from its front, and nothing is new.
Shrunk(n) ==
  \E k \in 0..1 : \A p \in 1..Len(line'[n]) :
    p + k \in 1..Len(line[n]) /\ line'[n][p] = line[n][p + k]

\* Lines stay, are taken from, or are lost.
LEMMA ShrinkFacts ==
  ASSUME Typed, NEW n \in Nodes,
         \/ line'[n] = line[n] \/ line'[n] = <<>>
         \/ line[n] # <<>> /\ line'[n] = Tail(line[n])
  PROVE  Shrunk(n)
<1>1. line[n] \in Seq(Frames)
  BY DEF Typed
<1>2. CASE line'[n] = line[n]
  <2>1. \A p \in 1..Len(line'[n]) : p + 0 \in 1..Len(line[n]) /\ line'[n][p] = line[n][p + 0]
    BY <1>1, <1>2
  <2>. QED BY <2>1 DEF Shrunk
<1>3. CASE line'[n] = <<>>
  BY <1>3 DEF Shrunk
<1>4. CASE line[n] # <<>> /\ line'[n] = Tail(line[n])
  <2>1. \A p \in 1..Len(line'[n]) : p + 1 \in 1..Len(line[n]) /\ line'[n][p] = line[n][p + 1]
    BY <1>1, <1>4, LineFacts
  <2>. QED BY <2>1 DEF Shrunk
<1>. QED BY <1>2, <1>3, <1>4

\* Only a request puts a frame on its way.
LEMMA OthersShrink ==
  ASSUME Typed, [Next]_vars, \A j \in Jobs : ~Ask(j), NEW n \in Nodes
  PROVE  Shrunk(n)
<1>. SUFFICES \/ line'[n] = line[n] \/ line'[n] = <<>>
              \/ line[n] # <<>> /\ line'[n] = Tail(line[n])
  BY ShrinkFacts
<1>1. ASSUME NEW m \in Nodes, Drop(m) \/ Restart(m) \/ CarryOutCommit(m)
      PROVE  line'[n] = line[n] \/ line'[n] = <<>>
  BY <1>1 DEF Drop, Restart, CarryOutCommit, Restarts, Typed
<1>2. ASSUME NEW m \in Nodes,
             HandleBegin(m) \/ HandleChunk(m) \/ RefuseCommit(m) \/ CommitRaises(m)
      PROVE  line'[n] = line[n] \/ (line[n] # <<>> /\ line'[n] = Tail(line[n]))
  <2>1. line[m] # <<>> /\ line' = [line EXCEPT ![m] = Tail(line[m])]
    <3>1. CASE HandleBegin(m)
      BY <3>1 DEF HandleBegin
    <3>2. CASE HandleChunk(m)
      BY <3>2 DEF HandleChunk
    <3>3. CASE RefuseCommit(m)
      BY <3>3 DEF RefuseCommit
    <3>4. CASE CommitRaises(m)
      BY <3>4 DEF CommitRaises
    <3>. QED BY <1>2, <3>1, <3>2, <3>3, <3>4
  <2>2. line \in [Nodes -> Seq(Frames)]
    BY DEF Typed
  <2>. QED BY <2>1, <2>2
<1>3. ASSUME NEW m \in Nodes, Boot(m) \/ Notice(m) \/ Register(m) \/ Push(m)
      PROVE  UNCHANGED line
  BY <1>3 DEF Boot, Notice, Register, Push, link
<1>4. ASSUME NEW j \in Jobs, RequestFails(j) \/ Reconnected(j)
                              \/ NotReconnected(j) \/ Raising(j)
      PROVE  UNCHANGED line
  BY <1>4 DEF RequestFails, Reconnected, NotReconnected, Raising, TransferRaises,
     AuditRaises, link
<1>5. CASE CreateBundle \/ RolloutStart \/ Rolling
  BY <1>5 DEF CreateBundle, RolloutStart, Rolling, RolloutNext, RolloutSkip, CanaryPasses,
              CanaryAborts, RolloutDone, link
<1>6. CASE UNCHANGED vars
  BY <1>6 DEF vars
<1>. QED BY <1>1, <1>2, <1>3, <1>4, <1>5, <1>6, BoundsAssumption DEF Next, Working, Handle

\* A frame that was sent stays sent, however its push moves.
LEMMA SentMoves ==
  ASSUME AllMove, NEW n \in Nodes, NEW f \in Frames,
         jobs[f.job].node = n, jobs[f.job].status # "unused",
         jobs[f.job].status \in Asks => f.try <= jobs[f.job].try,
         jobs[f.job].try \in Nat, jobs'[f.job].try \in Nat
  PROVE  /\ jobs'[f.job].node = n /\ jobs'[f.job].status # "unused"
         /\ jobs'[f.job].status \in Asks => f.try <= jobs'[f.job].try
<1>1. f.job \in Jobs /\ f.try \in Nat
  BY DEF Frames
<1>. QED BY <1>1 DEF AllMove, Moves

\* The frame that a request sends is the last one of the line.
LEMMA AskedFrame ==
  ASSUME Typed, Shaped, NEW j \in Jobs, Ask(j), NEW n \in Nodes
  PROVE  \/ line'[n] = line[n]
         \/ /\ n = jobs[j].node /\ Len(line'[n]) = Len(line[n]) + 1
            /\ \A p \in 1..Len(line[n]) : line'[n][p] = line[n][p]
            /\ LET f == line'[n][Len(line'[n])] IN
                 /\ f.job = j /\ f.try = jobs[j].try /\ f.step = jobs[j].step
                 /\ f.step = 0 => f.version = jobs[j].version
                 /\ f.step \in 1..Files => f.version = store
<1>. DEFINE v == CASE jobs[j].step = 0 -> jobs[j].version
                   [] jobs[j].step = Last -> 0
                   [] OTHER -> store
            f == [job |-> j, try |-> jobs[j].try, step |-> jobs[j].step, version |-> v]
<1>1. \/ line' = line
      \/ line' = [line EXCEPT ![jobs[j].node] = Append(line[jobs[j].node], f)]
  BY DEF Ask
<1>2. /\ v \in Nat /\ jobs[j].step \in 0..Last /\ Last = Files + 1 /\ Files \in Nat \ {0}
      /\ jobs[j].step = 0 => v = jobs[j].version
      /\ jobs[j].step \in 1..Files => v = store
  BY BoundsAssumption DEF JobRecords, Typed, Last
<1>. HIDE DEF v
<1>3. /\ f \in Frames /\ f.job = j /\ f.try = jobs[j].try /\ f.step = jobs[j].step
      /\ f.version = v
  BY <1>2 DEF JobRecords, Frames, Typed
<1>. HIDE DEF f
<1>4. CASE n = jobs[j].node /\ line'[n] = Append(line[n], f)
  <2>1. line[n] \in Seq(Frames)
    BY DEF Typed
  <2>2. /\ Len(line'[n]) = Len(line[n]) + 1 /\ line'[n][Len(line[n]) + 1] = f
        /\ \A p \in 1..Len(line[n]) : line'[n][p] = line[n][p]
    BY <1>3, <1>4, <2>1, LineFacts
  <2>. QED BY <1>2, <1>3, <1>4, <2>2
<1>. QED BY <1>1, <1>4 DEF Typed

\* Every frame belongs to a push of the board, and to no later try.
LEMMA SentStep ==
  ASSUME Typed, Shaped, AllSent, [Next]_vars
  PROVE  AllSent'
<1>1. Typed' /\ Shaped' /\ AllMove
  BY TypedStep
<1>. SUFFICES ASSUME NEW n \in Nodes, NEW p \in 1..Len(line'[n])
              PROVE  Sent(n, p)'
  BY DEF AllSent
<1>. DEFINE f == line'[n][p]
<1>2. f \in Frames /\ f.job \in Jobs /\ jobs[f.job].try \in Nat /\ jobs'[f.job].try \in Nat
  <2>1. line'[n] \in Seq(Frames)
    BY <1>1 DEF Typed
  <2>2. f \in Frames
    BY <2>1
  <2>3. f.job \in Jobs
    BY <2>2 DEF Frames
  <2>. QED BY <1>1, <2>2, <2>3 DEF Typed, JobRecords
<1>3. ASSUME NEW q \in 1..Len(line[n]), f = line[n][q]
      PROVE  Sent(n, p)'
  BY <1>1, <1>2, <1>3, SentMoves DEF Sent, AllSent
<1>4. ASSUME NEW j \in Jobs, Ask(j)
      PROVE  Sent(n, p)'
  <2>1. \/ p \in 1..Len(line[n]) /\ f = line[n][p]
        \/ f.job = j /\ f.try = jobs[j].try /\ n = jobs[j].node
    BY <1>4, LineFacts, AskedFrame
  <2>2. CASE f.job = j /\ f.try = jobs[j].try /\ n = jobs[j].node
    <3>1. jobs' = [jobs EXCEPT ![j].asked = TRUE] /\ jobs[j].status \in Asks
      BY <1>4 DEF Ask, Asking, Asks
    <3>. QED BY <1>2, <2>2, <3>1 DEF Sent, Typed, JobRecords, Asks
  <2>. QED BY <1>3, <2>1, <2>2
<1>5. CASE \A j \in Jobs : ~Ask(j)
  BY <1>3, <1>5, OthersShrink DEF Shrunk
<1>. QED BY <1>4, <1>5
\* A commit that is waited for stays so, or its push is committed.
CommitsStay ==
  \A j \in Jobs : jobs[j].status = "committing" /\ jobs[j].asked =>
    \/ jobs'[j].status \in Carried
    \/ jobs'[j].status = "committing" /\ jobs'[j].asked /\ jobs'[j].try = jobs[j].try

\* Where commits stay and no board carries one out, nothing changes for them.
LEMMA QuietCommits ==
  ASSUME Typed, CommitOnce, AllMove, CommitsStay, UNCHANGED installed, erred \subseteq erred',
         \A n \in Nodes : Shrunk(n)
  PROVE  CommitOnce'
<1>1. ASSUME NEW n \in Nodes, NEW p \in 1..Len(line'[n])
      PROVE  CommitAt(n, p)'
  <2>1. line[n] \in Seq(Frames)
    BY DEF Typed
  <2>2. PICK k \in 0..1 : \A q \in 1..Len(line'[n]) :
          q + k \in 1..Len(line[n]) /\ line'[n][q] = line[n][q + k]
    BY DEF Shrunk
  <2>. DEFINE f == line[n][p + k]
  <2>3. f \in Frames /\ f = line'[n][p] /\ f.job \in Jobs /\ CommitAt(n, p + k)
    <3>1. p + k \in 1..Len(line[n]) /\ f = line'[n][p]
      BY <2>2
    <3>2. f \in Frames
      BY <2>1, <3>1
    <3>. QED BY <3>1, <3>2 DEF CommitOnce, Frames
  <2>. SUFFICES ASSUME f.step = Last
                PROVE  /\ /\ f.job \notin installed'
                          /\ \/ jobs'[f.job].status \in Carried
                             \/ jobs'[f.job].status = "committing" /\ jobs'[f.job].asked
                                /\ jobs'[f.job].try = f.try
                             \/ jobs'[f.job].status = "failed" /\ f.job \in erred'
                       /\ \A q \in 1..Len(line'[n]) :
                            line'[n][q].step = Last /\ line'[n][q].job = f.job => p = q
    BY <2>3 DEF CommitAt, Awaited
  <2>4. /\ Awaited(f)
        /\ \A q \in 1..Len(line[n]) : line[n][q].step = Last /\ line[n][q].job = f.job => p + k = q
    BY <2>3 DEF CommitAt
  <2>5. /\ f.job \notin installed'
        /\ \/ jobs'[f.job].status \in Carried
           \/ jobs'[f.job].status = "committing" /\ jobs'[f.job].asked
              /\ jobs'[f.job].try = f.try
           \/ jobs'[f.job].status = "failed" /\ f.job \in erred'
    BY <2>3, <2>4 DEF Awaited, CommitsStay, AllMove, Moves
  <2>6. ASSUME NEW q \in 1..Len(line'[n]), line'[n][q].step = Last, line'[n][q].job = f.job
        PROVE  p = q
    <3>1. q + k \in 1..Len(line[n]) /\ line[n][q + k] = line'[n][q]
      BY <2>2
    <3>2. p + k = q + k
      BY <2>4, <2>6, <3>1
    <3>. QED BY <3>2
  <2>. QED BY <2>5, <2>6
<1>2. \A j \in installed' : Settled(j)'
  BY DEF Typed, CommitOnce, Settled, CommitsStay, AllMove, Moves
<1>. QED BY <1>1, <1>2 DEF CommitOnce

\* Every step but a commit that fails lets the others wait on.
LEMMA CommitsStayHolds ==
  ASSUME Typed, Shaped, [Next]_vars, \A n \in Nodes : ~RefuseCommit(n) /\ ~CommitRaises(n)
  PROVE  CommitsStay
<1>. SUFFICES ASSUME NEW i \in Jobs, jobs[i].status = "committing", jobs[i].asked
              PROVE  \/ jobs'[i].status \in Carried
                     \/ /\ jobs'[i].status = "committing" /\ jobs'[i].asked
                        /\ jobs'[i].try = jobs[i].try
  BY DEF CommitsStay
<1>0. /\ jobs[i] \in JobRecords /\ Sound(jobs[i], store) /\ jobs[i].step = Last
      /\ store \in Nat /\ Last = Files + 1 /\ Files \in Nat
  BY BoundsAssumption DEF Typed, Shaped, Sound, Last
<1>1. CASE jobs'[i] = jobs[i]
  BY <1>1
<1>2. ASSUME NEW n \in Nodes, Register(n)
      PROVE  jobs'[i] = jobs[i] \/ jobs'[i] = [jobs[i] EXCEPT !.again = TRUE]
  BY <1>2 DEF Register
<1>3. ASSUME NEW n \in Nodes, NEW r, StartPush(n, r), Unused # {}
      PROVE  jobs'[i] = jobs[i]
  <2>1. PICK j \in Unused : jobs' = [jobs EXCEPT ![j] = jobs'[j]]
    BY <1>3 DEF StartPush, Typed
  <2>. QED BY <2>1 DEF Unused, Typed
<1>4. ASSUME NEW j \in Jobs, RequestFails(j)
      PROVE  jobs'[i] = jobs[i] \/ jobs'[i].status \in Carried
  <2>1. CASE j = i
    <3>1. jobs'[i] = After(jobs[i], "error")
      BY <1>4, <2>1 DEF RequestFails, Typed
    <3>2. After(jobs[i], "error").status = "committed"
      BY <1>0, AfterFacts DEF Asks
    <3>. QED BY <3>1, <3>2 DEF Carried
  <2>2. CASE j # i
    BY <1>4, <2>2 DEF RequestFails, Typed
  <2>. QED BY <2>1, <2>2
<1>5. ASSUME NEW j \in Jobs,
             Ask(j) \/ Reconnected(j) \/ NotReconnected(j) \/ Raising(j)
      PROVE  jobs'[i] = jobs[i]
  <2>1. i # j
    BY <1>5 DEF Ask, Reconnected, NotReconnected, Raising, TransferRaises, AuditRaises
  <2>. QED BY <1>5, <2>1 DEF Ask, Reconnected, NotReconnected, Raising, TransferRaises,
                             AuditRaises, Typed
<1>6. ASSUME NEW n \in Nodes, HandleBegin(n) \/ HandleChunk(n)
      PROVE  jobs'[i] = jobs[i]
  <2>1. PICK o \in {"ok", "failed"} : Answer(Head(line[n]), o)
    BY <1>6 DEF HandleBegin, HandleChunk
  <2>2. Head(line[n]) \in Frames
    <3>1. line[n] \in Seq(Frames) /\ line[n] # <<>>
      BY <1>6 DEF HandleBegin, HandleChunk, Typed
    <3>. QED BY <3>1, LineFacts
  <2>3. Head(line[n]).step # Last
    <3>1. Head(line[n]).step = 0 \/ Head(line[n]).step \in 1..Files
      BY <1>6 DEF HandleBegin, HandleChunk
    <3>. QED BY <1>0, <3>1
  <2>. QED BY <1>0, <2>1, <2>2, <2>3, AnswerFacts
<1>7. ASSUME NEW n \in Nodes, CarryOutCommit(n)
      PROVE  jobs'[i] = jobs[i] \/ jobs'[i].status \in Carried
  <2>1. Head(line[n]) \in Frames
    <3>1. line[n] \in Seq(Frames) /\ line[n] # <<>>
      BY <1>7 DEF CarryOutCommit, Typed
    <3>. QED BY <3>1, LineFacts
  <2>2. Answer(Head(line[n]), "ok")
    BY <1>7 DEF CarryOutCommit
  <2>3. jobs'[i] = jobs[i] \/ jobs'[i] = After(jobs[i], "ok")
    BY <2>1, <2>2, AnswerFacts
  <2>4. After(jobs[i], "ok").status = "committed"
    BY <1>0, AfterFacts DEF Asks
  <2>. QED BY <2>3, <2>4 DEF Carried
<1>8. ASSUME NEW n \in Nodes, Drop(n) \/ Restart(n) \/ Boot(n) \/ Notice(n)
      PROVE  jobs'[i] = jobs[i]
  BY <1>8 DEF Drop, Restart, Boot, Notice
<1>9. CASE CreateBundle \/ RolloutStart \/ RolloutSkip \/ CanaryPasses \/ CanaryAborts \/ RolloutDone
           \/ UNCHANGED vars
  BY <1>9 DEF CreateBundle, RolloutStart, RolloutSkip, CanaryPasses, CanaryAborts, RolloutDone, vars
<1>10. CASE RolloutNext
  <2>1. Order[place] \in Nodes
    BY <1>10, BoundsAssumption DEF RolloutNext, Typed, Nodes
  <2>. QED BY <1>1, <1>3, <1>10, <2>1 DEF RolloutNext
<1>11. ASSUME NEW n \in Targets, Push(n)
       PROVE  jobs'[i] = jobs[i]
  BY <1>3, <1>11, BoundsAssumption DEF Push
<1>12. ASSUME NEW n \in Nodes, Register(n)
       PROVE  jobs'[i].status = "committing" /\ jobs'[i].asked /\ jobs'[i].try = jobs[i].try
  BY <1>0, <1>2, <1>12 DEF JobRecords
<1>. QED BY <1>1, <1>4, <1>5, <1>6, <1>7, <1>8, <1>9, <1>10, <1>11, <1>12
     DEF Next, Rolling, Handle, Working

\* A push sends one commit, and is committed unless the board itself refuses.
LEMMA CommitOnceStep ==
  ASSUME Typed, Shaped, AllSent, CommitOnce, [Next]_vars
  PROVE  CommitOnce'
<1>0. Typed' /\ Shaped' /\ AllMove
  BY TypedStep
<1>1. ASSUME NEW j \in Jobs, Ask(j)
      PROVE  CommitOnce'
  <2>1. /\ jobs[j] \in JobRecords /\ jobs[j].status \in Asks /\ ~jobs[j].asked
        /\ UNCHANGED installed /\ jobs' = [jobs EXCEPT ![j].asked = TRUE]
        /\ \A i \in Jobs : i # j => jobs'[i] = jobs[i]
        /\ jobs'[j].status = jobs[j].status /\ jobs'[j].asked /\ jobs'[j].try = jobs[j].try
    BY <1>1 DEF Ask, Asking, Asks, Typed, JobRecords
  <2>2. j \notin installed
    BY <2>1 DEF CommitOnce, Settled, Asks, Carried
  <2>3. \A n \in Nodes : \A p \in 1..Len(line[n]) : line[n][p].step = Last => line[n][p].job # j
    BY <2>1 DEF CommitOnce, CommitAt, Awaited, Asks, Carried
  <2>4. ASSUME NEW f \in Frames, f.job # j, Awaited(f)
        PROVE  f.job \notin installed'
               /\ \/ jobs'[f.job].status \in Carried
                  \/ jobs'[f.job].status = "committing" /\ jobs'[f.job].asked
                     /\ jobs'[f.job].try = f.try
                  \/ jobs'[f.job].status = "failed" /\ f.job \in erred'
    BY <2>1, <2>4, GrowFacts DEF Awaited, Frames
  <2>5. ASSUME NEW n \in Nodes, NEW p \in 1..Len(line'[n])
        PROVE  CommitAt(n, p)'
    <3>1. line[n] \in Seq(Frames)
      BY DEF Typed
    <3>2. ASSUME NEW q \in 1..Len(line[n]), line'[n][p] = line[n][q], line[n][q].step = Last
          PROVE  /\ Awaited(line[n][p])'
                 /\ \A o \in 1..Len(line[n]) :
                      line[n][o].step = Last /\ line[n][o].job = line'[n][p].job => q = o
      <4>1. /\ line[n][q] \in Frames /\ line[n][q].job # j /\ Awaited(line[n][q])
            /\ \A o \in 1..Len(line[n]) :
                 line[n][o].step = Last /\ line[n][o].job = line[n][q].job => q = o
        BY <2>3, <3>1, <3>2 DEF CommitOnce, CommitAt
      <4>. QED BY <2>4, <3>2, <4>1 DEF Awaited
    <3>3. CASE line'[n] = line[n]
      BY <3>2, <3>3 DEF CommitAt
    <3>4. CASE /\ n = jobs[j].node /\ Len(line'[n]) = Len(line[n]) + 1
               /\ \A q \in 1..Len(line[n]) : line'[n][q] = line[n][q]
               /\ LET f == line'[n][Len(line'[n])] IN
                    f.job = j /\ f.try = jobs[j].try /\ f.step = jobs[j].step
      <4>. SUFFICES ASSUME line'[n][p].step = Last PROVE CommitAt(n, p)'
        BY DEF CommitAt
      <4>1. \A q \in 1..Len(line'[n]) : q \in 1..Len(line[n]) \/ (q = Len(line'[n]) /\ line'[n][q].job = j)
        BY <3>1, <3>4
      <4>2. CASE p \in 1..Len(line[n])
        <5>1. line'[n][p] = line[n][p] /\ line[n][p].job # j
          BY <2>3, <3>4, <4>2
        <5>. QED BY <3>2, <3>4, <4>1, <4>2, <5>1 DEF CommitAt
      <4>3. CASE p = Len(line'[n]) /\ p \notin 1..Len(line[n])
        <5>1. line'[n][p].job = j /\ line'[n][p].try = jobs[j].try /\ jobs[j].step = Last
          BY <3>4, <4>3
        <5>2. jobs[j].status = "committing"
          BY <2>1, <5>1, BoundsAssumption DEF Shaped, Sound, Asks, Last
        <5>3. j \notin installed'
          BY <2>1, <2>2
        <5>4. Awaited(line[n][p])'
          BY <2>1, <5>1, <5>2, <5>3 DEF Awaited
        <5>5. \A q \in 1..Len(line[n]) : line'[n][q].step = Last => line'[n][q].job # j
          BY <2>3, <3>4
        <5>. QED BY <4>1, <4>3, <5>1, <5>4, <5>5 DEF CommitAt
      <4>. QED BY <4>1, <4>2, <4>3
    <3>. QED BY <1>1, <3>3, <3>4, AskedFrame
  <2>6. \A i \in installed' : Settled(i)'
    BY <2>1, <2>2, GrowFacts DEF CommitOnce, Settled, Typed
  <2>. QED BY <2>5, <2>6 DEF CommitOnce
<1>2. ASSUME NEW n \in Nodes, RefuseCommit(n) \/ CarryOutCommit(n) \/ CommitRaises(n)
      PROVE  CommitOnce'
  <2>. DEFINE f == Head(line[n])
  <2>1. /\ line[n] \in Seq(Frames) /\ line[n] # <<>> /\ f = line[n][1] /\ 1 \in 1..Len(line[n])
        /\ f \in Frames /\ f.step = Last
    <3>1. line[n] \in Seq(Frames) /\ line[n] # <<>> /\ f.step = Last
      BY <1>2 DEF RefuseCommit, CarryOutCommit, CommitRaises, Typed
    <3>. QED BY <3>1, LineFacts
  <2>2. /\ f.job \in Jobs /\ f.job \notin installed /\ Awaited(f) /\ jobs[f.job].node = n
        /\ \A q \in 1..Len(line[n]) : line[n][q].step = Last /\ line[n][q].job = f.job => 1 = q
    <3>1. CommitAt(n, 1) /\ Sent(n, 1)
      BY <2>1 DEF CommitOnce, AllSent
    <3>. QED BY <2>1, <3>1 DEF CommitAt, Sent, Awaited, Frames
  <2>3. /\ \A i \in Jobs : i # f.job => jobs'[i] = jobs[i]
        /\ line'[n] = <<>> \/ line'[n] = Tail(line[n])
        /\ \A m \in Nodes : m # n => line'[m] = line[m]
        /\ installed' \subseteq installed \union {f.job}
    BY <1>2, <2>1, AnswerFacts DEF RefuseCommit, CarryOutCommit, CommitRaises, Restarts, Typed
  <2>4. ASSUME NEW m \in Nodes, NEW p \in 1..Len(line'[m])
        PROVE  CommitAt(m, p)'
    <3>. DEFINE g == line'[m][p]
    <3>0. line[m] \in Seq(Frames)
      BY DEF Typed
    <3>1. PICK k \in 0..1 : /\ m = n => k = 1
                            /\ \A q \in 1..Len(line'[m]) :
                                 q + k \in 1..Len(line[m]) /\ line'[m][q] = line[m][q + k]
      <4>1. CASE m = n
        <5>1. \A q \in 1..Len(line'[n]) : q + 1 \in 1..Len(line[n]) /\ line'[n][q] = line[n][q + 1]
          <6>1. CASE line'[n] = <<>>
            BY <6>1
          <6>2. CASE line'[n] = Tail(line[n])
            BY <2>1, <6>2, LineFacts
          <6>. QED BY <2>3, <6>1, <6>2
        <5>. QED BY <4>1, <5>1
      <4>2. CASE m # n
        <5>1. line'[m] = line[m] /\ line[m] \in Seq(Frames)
          BY <2>3, <4>2 DEF Typed
        <5>2. \A q \in 1..Len(line'[m]) : q + 0 \in 1..Len(line[m]) /\ line'[m][q] = line[m][q + 0]
          BY <5>1
        <5>. QED BY <4>2, <5>2
      <4>. QED BY <4>1, <4>2
    <3>2. g = line[m][p + k] /\ p + k \in 1..Len(line[m]) /\ g \in Frames /\ g.job \in Jobs
      <4>1. g = line[m][p + k] /\ p + k \in 1..Len(line[m])
        BY <3>1
      <4>2. line[m][p + k] \in Frames
        BY <3>0, <4>1
      <4>3. line[m][p + k].job \in Jobs
        BY <4>2 DEF Frames
      <4>. QED BY <4>1, <4>2, <4>3
    <3>. SUFFICES ASSUME g.step = Last PROVE CommitAt(m, p)'
      BY DEF CommitAt
    <3>3. /\ Awaited(g) /\ jobs[g.job].node = m
          /\ \A q \in 1..Len(line[m]) : line[m][q].step = Last /\ line[m][q].job = g.job => p + k = q
      <4>1. CommitAt(m, p + k) /\ Sent(m, p + k)
        BY <3>2 DEF CommitOnce, AllSent
      <4>. QED BY <3>2, <4>1 DEF CommitAt, Sent
    <3>4. g.job # f.job
      <4>1. CASE m = n
        <5>1. p + k # 1
          BY <3>1, <4>1
        <5>. QED BY <2>2, <3>2, <4>1, <5>1
      <4>2. CASE m # n
        BY <2>2, <3>3, <4>2
      <4>. QED BY <4>1, <4>2
    <3>5. jobs'[g.job] = jobs[g.job] /\ g.job \notin installed'
      BY <2>3, <3>2, <3>3, <3>4 DEF Awaited
    <3>6. Awaited(line[m][p])'
      BY <3>3, <3>5, GrowFacts DEF Awaited
    <3>7. ASSUME NEW q \in 1..Len(line'[m]), line'[m][q].step = Last, line'[m][q].job = g.job
          PROVE  p = q
      <4>1. q + k \in 1..Len(line[m]) /\ line[m][q + k] = line'[m][q]
        BY <3>1
      <4>2. p + k = q + k
        BY <3>3, <3>7, <4>1
      <4>. QED BY <4>2
    <3>. QED BY <3>6, <3>7 DEF CommitAt
  <2>5. ASSUME NEW i \in installed'
        PROVE  Settled(i)'
    <3>1. CASE i # f.job
      BY <2>3, <2>5, <3>1, GrowFacts DEF CommitOnce, Settled, Typed
    <3>2. CASE i = f.job /\ CommitRaises(n)
      <4>1. i \in erred' /\ Answer(f, "failed")
        BY <3>2 DEF CommitRaises
      <4>2. jobs'[i] = jobs[i] \/ (jobs[i].status \in Asks /\ jobs'[i] = After(jobs[i], "failed"))
        BY <2>1, <2>2, <3>2, <4>1, AnswerFacts
      <4>3. jobs[i].status = "committing" => After(jobs[i], "failed").status = "failed"
        BY <2>2, <3>2 DEF After, Done, Typed, JobRecords
      <4>. QED BY <2>2, <3>2, <4>1, <4>2, <4>3 DEF Awaited, Settled, Asks, Carried
    <3>3. CASE i = f.job /\ ~CommitRaises(n)
      <4>1. CarryOutCommit(n)
        BY <1>2, <2>2, <2>5, <3>3 DEF RefuseCommit
      <4>2. \A m \in Nodes : ~RefuseCommit(m)
        BY <1>0, <2>2, <2>5, <3>3 DEF RefuseCommit
      <4>3. Answer(f, "ok")
        BY <4>1 DEF CarryOutCommit
      <4>4. jobs'[i] = jobs[i] \/ (jobs[i].status \in Asks /\ jobs'[i] = After(jobs[i], "ok"))
        BY <2>1, <2>2, <3>3, <4>3, AnswerFacts
      <4>5. jobs[i].status = "committing" => After(jobs[i], "ok").status = "committed"
        BY <2>2, <3>3 DEF After, Typed, JobRecords
      <4>. QED BY <2>2, <3>3, <4>4, <4>5, GrowFacts DEF Awaited, Settled, Asks, Carried
    <3>. QED BY <3>1, <3>2, <3>3
  <2>. QED BY <2>4, <2>5 DEF CommitOnce
<1>3. CASE /\ \A j \in Jobs : ~Ask(j)
           /\ \A n \in Nodes : ~RefuseCommit(n) /\ ~CarryOutCommit(n) /\ ~CommitRaises(n)
  <2>1. UNCHANGED installed
    BY <1>3 DEF Next, Rolling, Working, Handle, CreateBundle, RolloutStart, RolloutNext,
       RolloutSkip, CanaryPasses, CanaryAborts, RolloutDone, Drop, Restart, Boot, Notice,
       Register, HandleBegin, HandleChunk, Push, RequestFails, Reconnected,
       NotReconnected, Raising, TransferRaises, AuditRaises, vars
  <2>. QED BY <1>0, <1>3, <2>1, GrowFacts, CommitsStayHolds, OthersShrink, QuietCommits
<1>. QED BY <1>1, <1>2, <1>3

-----------------------------------------------------------------------------
(* What the only push of a board has staged.                               *)

\* A push that is the only one of its board after a step was so before it, of the
\* same bundle, and all that is on its way to the board is its own.
LEMMA SoleBefore ==
  ASSUME Typed, Shaped, AllSent, AllMove, store' \in {store, store + 1},
         NEW j \in Jobs, jobs[j].status # "unused", Sole(j)'
  PROVE  /\ Sole(j) /\ store' = store /\ jobs[j].node \in Nodes
         /\ jobs'[j].node = jobs[j].node /\ jobs'[j].version = jobs[j].version
         /\ LET q == line[jobs[j].node] IN
              q \in Seq(Frames) /\ \A p \in 1..Len(q) : q[p].job = j
<1>1. /\ jobs'[j].node = jobs[j].node /\ jobs'[j].version = jobs[j].version
      /\ jobs[j].version \in 1..store /\ store \in Nat /\ jobs[j].node \in Nodes
  BY DEF AllMove, Moves, Shaped, Sound, Typed
<1>2. store' = store
  BY <1>1 DEF Sole
<1>3. ASSUME NEW i \in Jobs \ {j}, jobs[i].node = jobs[j].node
      PROVE  jobs[i].status = "unused"
  BY <1>1, <1>3 DEF Sole, AllMove, Moves
<1>. DEFINE q == line[jobs[j].node]
<1>4. q \in Seq(Frames)
  BY <1>1 DEF Typed
<1>5. ASSUME NEW p \in 1..Len(q) PROVE q[p].job = j
  <2>1. q[p] \in Frames
    BY <1>4
  <2>2. q[p].job \in Jobs
    BY <2>1 DEF Frames
  <2>3. Sent(jobs[j].node, p)
    BY <1>1 DEF AllSent
  <2>. QED BY <1>3, <2>2, <2>3 DEF Sent
<1>. QED BY <1>1, <1>2, <1>3, <1>4, <1>5 DEF Sole

\* The same request, at the same point.
SameRequest(j) ==
  /\ jobs'[j].node = jobs[j].node /\ jobs'[j].version = jobs[j].version
  /\ jobs'[j].try = jobs[j].try /\ jobs'[j].step = jobs[j].step
  /\ jobs'[j].asked = jobs[j].asked

\* Where a push does not move, its line and what is staged stay, or are lost.
LEMMA ExactStays ==
  ASSUME Typed, NEW j \in Jobs, jobs[j].node \in Nodes, OnlyCurrent(j), UpToDate(j),
         store' = store, SameRequest(j), installed \subseteq installed',
         LET n == jobs[j].node IN
           \/ line'[n] = line[n] /\ staging'[n] = staging[n]
           \/ line'[n] = <<>> /\ staging'[n] \in {staging[n], Nothing}
  PROVE  OnlyCurrent(j)' /\ UpToDate(j)'
<1>. DEFINE n == jobs[j].node
<1>1. OnlyCurrent(j)'
  <2>1. CASE line'[n] = line[n]
    BY <2>1 DEF OnlyCurrent, Current, SameRequest
  <2>2. CASE line'[n] = <<>>
    BY <2>2 DEF OnlyCurrent, SameRequest
  <2>. QED BY <2>1, <2>2
<1>2. UpToDate(j)'
  BY DEF UpToDate, SameRequest
<1>. QED BY <1>1, <1>2

\* A request: what is sent is what is awaited.
LEMMA ExactAsk ==
  ASSUME Typed, Shaped, NEW j \in Jobs, Ask(j), Sole(j), OnlyCurrent(j), UpToDate(j),
         installed \subseteq installed',
         jobs[j].node \in Nodes
  PROVE  OnlyCurrent(j)' /\ UpToDate(j)'
<1>. DEFINE n == jobs[j].node
            q == line[n]
<1>1. /\ jobs[j] \in JobRecords /\ ~jobs[j].asked /\ jobs[j].version = store
      /\ jobs' = [jobs EXCEPT ![j].asked = TRUE] /\ store' = store /\ staging' = staging
      /\ q \in Seq(Frames)
  BY DEF Ask, Typed, Sole, board
<1>2. /\ jobs'[j].node = n /\ jobs'[j].version = jobs[j].version /\ jobs'[j].try = jobs[j].try
      /\ jobs'[j].step = jobs[j].step /\ jobs'[j].asked
  BY <1>1 DEF Typed, JobRecords
<1>3. UpToDate(j)'
  BY <1>1, <1>2 DEF UpToDate
<1>4. OnlyCurrent(j)'
  <2>1. CASE line'[n] = line[n]
    BY <1>1, <1>2, <2>1 DEF OnlyCurrent
  <2>2. CASE /\ Len(line'[n]) = Len(line[n]) + 1
             /\ \A p \in 1..Len(line[n]) : line'[n][p] = line[n][p]
             /\ LET f == line'[n][Len(line'[n])] IN
                  /\ f.job = j /\ f.try = jobs[j].try /\ f.step = jobs[j].step
                  /\ f.step = 0 => f.version = jobs[j].version
                  /\ f.step \in 1..Files => f.version = store
    <3>. DEFINE f == line'[n][Len(line'[n])]
    <3>1. /\ f.job = j /\ f.try = jobs'[j].try /\ f.step = jobs'[j].step
          /\ f.step # Last => f.version = jobs'[j].version
      <4>1. jobs[j].step \in 0..Last /\ Last = Files + 1 /\ Files \in Nat
        BY <1>1, BoundsAssumption DEF JobRecords, Last
      <4>. QED BY <1>1, <1>2, <2>2, <4>1
    <3>2. Len(line[n]) \in Nat
      BY <1>1
    <3>3. CASE jobs[j].step = 0
      <4>1. \A p \in 1..Len(line[n]) : line'[n][p].try # jobs[j].try
        BY <1>1, <2>2, <3>3 DEF OnlyCurrent
      <4>2. \A p \in 1..Len(line'[n]) : p \in 1..Len(line[n]) \/ p = Len(line'[n])
        BY <2>2, <3>2
      <4>3. ASSUME NEW p \in 1..Len(line'[n]), line'[n][p].try = jobs'[j].try
            PROVE  /\ p = Len(line'[n]) /\ line'[n][p].job = j
                   /\ line'[n][p].step = jobs'[j].step
                   /\ line'[n][p].step # Last => line'[n][p].version = jobs'[j].version
        <5>1. p = Len(line'[n])
          BY <1>2, <4>1, <4>2, <4>3
        <5>. QED BY <3>1, <5>1
      <4>. QED BY <1>2, <3>3, <4>3 DEF OnlyCurrent, Current
    <3>4. CASE jobs[j].step # 0
      <4>1. Len(line'[n]) = 1
        BY <1>1, <2>2, <3>4 DEF OnlyCurrent
      <4>. QED BY <1>2, <3>1, <3>4, <4>1 DEF OnlyCurrent, Current
    <3>. QED BY <3>3, <3>4
  <2>. QED BY <2>1, <2>2, AskedFrame
<1>. QED BY <1>3, <1>4

\* A request fails: the transfer begins anew, and no frame is of the new try.
LEMMA ExactFails ==
  ASSUME Typed, Shaped, AllSent, NEW j \in Jobs, RequestFails(j), jobs'[j].status \in Asks,
         jobs[j].node \in Nodes, \A p \in 1..Len(line[jobs[j].node]) : line[jobs[j].node][p].job = j
  PROVE  OnlyCurrent(j)' /\ UpToDate(j)'
<1>. DEFINE n == jobs[j].node
<1>1. /\ jobs[j] \in JobRecords /\ jobs[j].status \in Asks /\ Sound(jobs[j], store)
      /\ jobs'[j] = After(jobs[j], "error") /\ store \in Nat /\ line' = line
      /\ line[n] \in Seq(Frames)
  BY DEF RequestFails, Asking, Asks, Typed, Shaped, link
<1>2. /\ jobs'[j].step = 0 /\ jobs'[j].try = jobs[j].try + 1 /\ jobs'[j].node = n
      /\ jobs[j].try \in Nat
  <2>1. jobs[j].status = "running"
    BY <1>1, AfterFacts DEF Asks
  <2>2. jobs[j].try \in Nat
    BY <1>1 DEF JobRecords
  <2>3. jobs'[j].status # "failed" /\ "error" \in {"ok", "failed", "error"} /\ "error" # "ok"
    BY DEF Asks
  <2>. QED BY <1>1, <2>1, <2>2, <2>3, AfterFacts
<1>3. ASSUME NEW p \in 1..Len(line[n]) PROVE line[n][p].try # jobs'[j].try
  <2>1. line[n][p] \in Frames
    BY <1>1
  <2>2. line[n][p].try \in Nat
    BY <2>1 DEF Frames
  <2>3. Sent(n, p)
    BY DEF AllSent
  <2>. QED BY <1>1, <1>2, <2>2, <2>3 DEF Sent
<1>. QED BY <1>1, <1>2, <1>3 DEF OnlyCurrent, UpToDate

\* The board handles a frame of the push it is to: a late begin or chunk is followed by
\* the begin of the present try, and what is awaited brings the board up to it.
LEMMA ExactHandle ==
  ASSUME Typed, Shaped, NEW j \in Jobs, Sole(j), jobs[j].node \in Nodes, Handle(jobs[j].node),
         jobs[j].status \in Asks, OnlyCurrent(j), UpToDate(j), jobs'[j].status \in Asks,
         installed \subseteq installed',
         \A p \in 1..Len(line[jobs[j].node]) : line[jobs[j].node][p].job = j
  PROVE  OnlyCurrent(j)' /\ UpToDate(j)'
<1>. DEFINE n == jobs[j].node
            q == line[n]
            f == Head(q)
            r == jobs[j]
            s == jobs[j].step
            Begun(v) == staging' = [staging EXCEPT ![n] = [manifest |-> v,
                                                          got |-> [i \in 1..Files |-> <<>>]]]
            Grown(i, v) == /\ staging' = [staging EXCEPT ![n].got[i] = Append(@, v)]
                           /\ staging[n].manifest # 0
<1>1. /\ q \in Seq(Frames) /\ q # <<>> /\ f = q[1] /\ f \in Frames /\ f.job = j /\ Len(q) \in Nat
      /\ 1 \in 1..Len(q) /\ Tail(q) \in Seq(Frames) /\ Len(Tail(q)) = Len(q) - 1
      /\ \A p \in 1..Len(Tail(q)) : p + 1 \in 1..Len(q) /\ Tail(q)[p] = q[p + 1]
  <2>1. q \in Seq(Frames) /\ q # <<>>
    BY DEF Typed, Handle, HandleBegin, HandleChunk, RefuseCommit, CarryOutCommit, CommitRaises
  <2>. QED BY <2>1, LineFacts
<1>2. /\ r \in JobRecords /\ Sound(r, store) /\ store \in Nat \ {0} /\ r.version = store
      /\ s \in 0..Last /\ r.try \in Nat /\ Last = Files + 1 /\ Files \in Nat \ {0}
      /\ store' = store
  BY BoundsAssumption DEF Typed, Shaped, Sole, JobRecords, Last, Handle, HandleBegin,
     HandleChunk, RefuseCommit, CarryOutCommit, CommitRaises
<1>3. PICK o \in {"ok", "failed"} :
         /\ Answer(f, o)
         /\ \/ f.step = 0 /\ o = "ok" /\ Begun(f.version)
            \/ f.step \in 1..Files /\ o = "failed"
            \/ f.step \in 1..Files /\ o = "ok" /\ Grown(f.step, f.version)
            \/ f.step = Last /\ (staging'[n] \in {staging[n], Nothing} \/ f.job \in installed')
  <2>1. CASE HandleBegin(n)
    BY <2>1 DEF HandleBegin
  <2>2. CASE HandleChunk(n)
    BY <2>2 DEF HandleChunk
  <2>3. CASE RefuseCommit(n)
    BY <2>3 DEF RefuseCommit, board
  <2>4. CASE CarryOutCommit(n)
    BY <2>4 DEF CarryOutCommit, Restarts, Typed
  <2>5. CASE CommitRaises(n)
    BY <2>5 DEF CommitRaises
  <2>. QED BY <2>1, <2>2, <2>3, <2>4, <2>5 DEF Handle
<1>. HIDE DEF Begun, Grown
<1>4. jobs'[j] = r \/ (r.asked /\ r.try = f.try /\ s = f.step /\ jobs'[j] = After(r, o))
  BY <1>1, <1>3, AnswerFacts
<1>5. line'[n] = Tail(q) \/ line'[n] = <<>>
  BY DEF Handle, HandleBegin, HandleChunk, RefuseCommit, CarryOutCommit, CommitRaises, Restarts, Typed
<1>6. CASE s = 0 /\ f.try # r.try
  <2>1. jobs'[j] = r
    BY <1>4, <1>6
  <2>2. ASSUME NEW p \in 1..Len(Tail(q)), Tail(q)[p].try = r.try
        PROVE  p = Len(Tail(q)) /\ r.asked /\ Current(j, Tail(q)[p])
    <3>1. p + 1 \in 1..Len(q) /\ Tail(q)[p] = q[p + 1]
      BY <1>1
    <3>2. p + 1 = Len(q) /\ r.asked /\ Current(j, q[p + 1])
      BY <1>6, <2>2, <3>1 DEF OnlyCurrent
    <3>. QED BY <1>1, <3>1, <3>2
  <2>3. CASE line'[n] = Tail(q)
    BY <1>6, <2>1, <2>2, <2>3 DEF OnlyCurrent, Current, UpToDate
  <2>4. CASE line'[n] = <<>>
    BY <1>6, <2>1, <2>4 DEF OnlyCurrent, UpToDate
  <2>. QED BY <1>5, <2>3, <2>4
<1>7. CASE ~(s = 0 /\ f.try # r.try)
  <2>1. Len(q) = 1 /\ r.asked /\ Current(j, f)
    <3>1. \/ jobs[j].step = 0 /\ line[n][1].try # jobs[j].try
          \/ 1 = Len(line[n]) /\ jobs[j].asked /\ Current(j, line[n][1])
      BY <1>1 DEF OnlyCurrent
    <3>. QED BY <1>1, <1>7, <3>1
  <2>2. line'[n] = <<>> /\ f.step = s /\ (s # Last => f.version = store)
    <3>1. Tail(q) = <<>>
      BY <1>1, <2>1
    <3>. QED BY <1>2, <1>5, <2>1, <3>1 DEF Current
  <2>3. jobs'[j].node = n
    BY <1>2, <1>4, AfterFacts DEF Asks
  <2>4. OnlyCurrent(j)'
    BY <2>2, <2>3 DEF OnlyCurrent
  <2>5. CASE s = 0
    <3>1. Begun(store) /\ o = "ok"
      BY <1>2, <1>3, <2>2, <2>5
    <3>2. staging'[n] = Prefix(store, 1)
      <4>1. \A i \in 1..Files : ~(i < 1)
        BY <1>2
      <4>. QED BY <3>1, <4>1 DEF Begun, Prefix, Typed
    <3>3. CASE jobs'[j] = r
      BY <2>5, <3>3, <2>4 DEF UpToDate
    <3>4. CASE jobs'[j] = After(r, o)
      <4>1. r.status = "running"
        BY <1>2, <2>5 DEF Sound, Asks
      <4>2. jobs'[j].step = 1
        BY <1>2, <2>5, <3>1, <3>4, <4>1, AfterFacts DEF Asks
      <4>. QED BY <1>2, <2>3, <2>4, <3>2, <4>2 DEF UpToDate
    <3>. QED BY <1>4, <3>3, <3>4
  <2>6. CASE s \in 1..Files
    <3>1. r.status = "running"
      BY <1>2, <2>6 DEF Sound, Asks
    <3>6. o = "ok" => Grown(s, store)
      BY <1>2, <1>3, <2>2, <2>6
    <3>2. staging[n] \in {Prefix(store, s), Nothing} /\ staging[n] \in Stagings
      BY <1>1, <1>2, <2>6 DEF UpToDate, Typed
    <3>3. CASE jobs'[j] = r
      BY <1>2, <2>1, <2>2, <2>3, <2>4, <2>6, <3>3 DEF UpToDate
    <3>4. CASE jobs'[j] = After(r, o) /\ o = "failed"
      <4>1. jobs'[j].step = 0
        BY <1>2, <3>1, <3>4, AfterFacts DEF Asks
      <4>. QED BY <2>4, <4>1 DEF UpToDate
    <3>5. CASE jobs'[j] = After(r, o) /\ o = "ok"
      <4>1. jobs'[j].step = s + 1
        BY <1>2, <3>1, <3>5, AfterFacts DEF Asks
      <4>2. staging[n].manifest # 0 /\ staging[n] = Prefix(store, s)
        BY <3>2, <3>5, <3>6 DEF Nothing, Grown
      <4>3. staging' = [staging EXCEPT ![n].got[s] = Append(@, store)]
        BY <3>5, <3>6 DEF Grown
      <4>4. staging'[n] = Prefix(store, s + 1)
        <5>. DEFINE g == [i \in 1..Files |-> IF i < s THEN <<store>> ELSE <<>>]
                    h == [i \in 1..Files |-> IF i < s + 1 THEN <<store>> ELSE <<>>]
        <5>1. g[s] = <<>> /\ Append(g[s], store) = <<store>>
          <6>1. s \in Nat /\ ~(s < s)
            BY <1>2
          <6>2. g[s] = <<>>
            BY <2>6, <6>1
          <6>. HIDE DEF g
          <6>. QED BY <6>2
        <5>2. [g EXCEPT ![s] = Append(@, store)] = h
          <6>1. [g EXCEPT ![s] = Append(@, store)] = [i \in 1..Files |-> IF i = s THEN <<store>> ELSE g[i]]
            BY <5>1
          <6>2. \A i \in 1..Files : (i < s + 1) <=> (i < s \/ i = s)
            BY <1>2
          <6>. QED BY <6>1, <6>2
        <5>3. staging[n] = [manifest |-> store, got |-> g] /\ Prefix(store, s + 1) = [manifest |-> store, got |-> h]
          BY <4>2 DEF Prefix
        <5>. HIDE DEF g, h
        <5>4. staging'[n] = [staging[n] EXCEPT !.got[s] = Append(@, store)]
          BY <4>3 DEF Typed
        <5>5. staging'[n] = [manifest |-> store, got |-> [g EXCEPT ![s] = Append(@, store)]]
          <6>1. staging[n].got = g /\ [staging[n] EXCEPT !.got[s] = Append(@, store)]
                  = [staging[n] EXCEPT !.got = [g EXCEPT ![s] = Append(@, store)]]
            BY <5>3
          <6>2. \A x : [staging[n] EXCEPT !.got = x] = [manifest |-> store, got |-> x]
            BY <5>3
          <6>. QED BY <5>4, <6>1, <6>2
        <5>. QED BY <5>2, <5>3, <5>5
      <4>. QED BY <1>2, <2>3, <4>1, <2>4, <4>4 DEF UpToDate
    <3>. QED BY <1>4, <3>3, <3>4, <3>5
  <2>7. CASE s = Last
    <3>1. r.status = "committing"
      BY <1>2, <2>7 DEF Sound, Asks
    <3>2. jobs'[j] = r
      BY <1>2, <1>4, <3>1, AfterFacts DEF Asks
    <3>3. j \notin installed => staging[n] \in {Prefix(store, s), Nothing}
      BY <1>1, <1>2, <2>7 DEF UpToDate
    <3>4. staging'[n] \in {staging[n], Nothing} \/ j \in installed'
      BY <1>1, <1>2, <1>3, <2>2, <2>7
    <3>5. jobs'[j].step = Last /\ jobs'[j].node = n
      BY <2>7, <3>2
    <3>6. j \notin installed' => staging'[n] \in {Prefix(store', s), Nothing}
      BY <1>2, <3>3, <3>4
    <3>7. UpToDate(j)'
      BY <2>7, <3>5, <3>6 DEF UpToDate, Prefix
    <3>. QED BY <2>4, <3>7
  <2>. QED BY <1>2, <2>5, <2>6, <2>7
<1>. QED BY <1>6, <1>7

\* A new push has nothing on its way yet, if it is the only one of its board.
LEMMA ExactNew ==
  ASSUME Typed, Typed', Shaped, AllSent, AllSent', AllMove, [Next]_vars,
         NEW j \in Jobs, jobs[j].status = "unused", jobs'[j].status \in Asks, Sole(j)', Shaped'
  PROVE  OnlyCurrent(j)' /\ UpToDate(j)'
<1>. DEFINE n == jobs'[j].node
<1>1. jobs'[j].step = 0 /\ ~jobs'[j].asked /\ n \in Nodes
  BY DEF AllMove, Moves, Asks, Shaped, Sound
<1>2. \A i \in Jobs : ~Ask(i)
  <2>. SUFFICES ASSUME NEW i \in Jobs, Ask(i) PROVE FALSE
    OBVIOUS
  <2>1. jobs' = [jobs EXCEPT ![i].asked = TRUE] /\ jobs[i].status \in Asks
    BY DEF Ask, Asking, Asks
  <2>. QED BY <2>1 DEF Typed, Asks
<1>3. Shrunk(n)
  BY <1>1, <1>2, OthersShrink
<1>4. ASSUME NEW m \in Nodes, m = n, NEW p \in 1..Len(line'[m]) PROVE FALSE
  <2>1. PICK k \in 0..1 : p + k \in 1..Len(line[m]) /\ line'[m][p] = line[m][p + k]
    BY <1>3, <1>4 DEF Shrunk
  <2>2. line[m] \in Seq(Frames)
    BY DEF Typed
  <2>3. line[m][p + k] \in Frames
    BY <2>1, <2>2
  <2>4. line[m][p + k].job \in Jobs
    BY <2>3 DEF Frames
  <2>5. Sent(m, p + k) /\ Sent(m, p)'
    BY <2>1 DEF AllSent
  <2>. QED BY <1>4, <2>1, <2>4, <2>5 DEF Sent, Sole
<1>. QED BY <1>1, <1>4 DEF OnlyCurrent, UpToDate

\* Every step keeps the only push of a board exact.
LEMMA ExactStep ==
  ASSUME Typed, Shaped, AllSent, Exact, [Next]_vars
  PROVE  Exact'
<1>1. Typed' /\ Shaped' /\ AllMove /\ AllSent' /\ installed \subseteq installed'
  BY TypedStep, SentStep, GrowFacts
<1>. SUFFICES ASSUME NEW j \in Jobs, Sole(j)', jobs'[j].status \in Asks
              PROVE  OnlyCurrent(j)' /\ UpToDate(j)'
  BY DEF Exact
<1>2. CASE jobs[j].status = "unused"
  BY <1>1, <1>2, ExactNew
<1>3. CASE jobs[j].status # "unused"
  <2>. DEFINE n == jobs[j].node
  <2>1. store' \in {store, store + 1}
    <3>1. ASSUME NEW m \in Nodes, Drop(m) \/ Restart(m) \/ Boot(m) \/ Notice(m) \/ Register(m)
                                  \/ Handle(m) \/ Push(m)
          PROVE  store' = store
      BY <3>1 DEF Drop, Restart, Boot, Notice, Register, Handle, HandleBegin, HandleChunk,
         RefuseCommit, CarryOutCommit, CommitRaises, Push
    <3>2. ASSUME NEW i \in Jobs, Working(i) \/ Raising(i)
          PROVE  store' = store
      BY <3>2 DEF Working, Ask, RequestFails, Reconnected, NotReconnected, Raising,
         TransferRaises, AuditRaises
    <3>3. CASE CreateBundle \/ RolloutStart \/ Rolling \/ UNCHANGED vars
      BY <3>3 DEF CreateBundle, RolloutStart, Rolling, RolloutNext, RolloutSkip, CanaryPasses,
         CanaryAborts, RolloutDone, vars
    <3>. QED BY <3>1, <3>2, <3>3, BoundsAssumption DEF Next
  <2>2. /\ Sole(j) /\ store' = store /\ n \in Nodes
        /\ jobs'[j].node = n /\ jobs'[j].version = jobs[j].version
        /\ line[n] \in Seq(Frames) /\ \A p \in 1..Len(line[n]) : line[n][p].job = j
    BY <1>1, <1>3, <2>1, SoleBefore
  <2>3. jobs[j].status \in Asks /\ OnlyCurrent(j) /\ UpToDate(j)
    BY <1>1, <1>3, <2>2 DEF AllMove, Moves, Exact
  <2>4. ASSUME (\/ line'[n] = line[n] /\ staging'[n] = staging[n]
                \/ line'[n] = <<>> /\ staging'[n] \in {staging[n], Nothing}),
               jobs'[j] = jobs[j] \/ jobs'[j] = [jobs[j] EXCEPT !.again = TRUE]
        PROVE  OnlyCurrent(j)' /\ UpToDate(j)'
    <3>1. SameRequest(j)
      <4>1. jobs[j] \in JobRecords
        BY DEF Typed
      <4>. QED BY <2>4, <4>1 DEF SameRequest, JobRecords
    <3>. QED BY <1>1, <2>2, <2>3, <2>4, <3>1, ExactStays
  <2>5. ASSUME NEW m \in Nodes, Drop(m) \/ Restart(m) \/ Boot(m) \/ Notice(m) \/ Register(m)
        PROVE  OnlyCurrent(j)' /\ UpToDate(j)'
    <3>1. \/ line'[n] = line[n] /\ staging'[n] = staging[n]
          \/ line'[n] = <<>> /\ staging'[n] \in {staging[n], Nothing}
      BY <2>2, <2>5 DEF Drop, Restart, Restarts, Boot, Notice, Register, board, link, Typed
    <3>2. jobs'[j] = jobs[j] \/ jobs'[j] = [jobs[j] EXCEPT !.again = TRUE]
      BY <2>5 DEF Drop, Restart, Boot, Notice, Register
    <3>. QED BY <2>4, <3>1, <3>2
  <2>6. ASSUME NEW m \in Nodes, Handle(m)
        PROVE  OnlyCurrent(j)' /\ UpToDate(j)'
    <3>1. CASE m = n
      BY <1>1, <2>2, <2>3, <2>6, <3>1, ExactHandle
    <3>2. CASE m # n
      <4>1. line'[n] = line[n] /\ staging'[n] = staging[n]
        BY <2>2, <2>6, <3>2 DEF Handle, HandleBegin, HandleChunk, RefuseCommit, CarryOutCommit, CommitRaises,
           Restarts, board, Typed
      <4>2. line[m] \in Seq(Frames) /\ line[m] # <<>>
        BY <2>6 DEF Typed, Handle, HandleBegin, HandleChunk, RefuseCommit, CarryOutCommit, CommitRaises
      <4>3. Head(line[m]) \in Frames /\ Head(line[m]) = line[m][1] /\ 1 \in 1..Len(line[m])
        BY <4>2, LineFacts
      <4>4. Head(line[m]).job # j
        BY <3>2, <4>3 DEF AllSent, Sent
      <4>5. PICK o \in {"ok", "failed"} : Answer(Head(line[m]), o)
        BY <2>6 DEF Handle, HandleBegin, HandleChunk, RefuseCommit, CarryOutCommit, CommitRaises
      <4>6. jobs'[j] = jobs[j]
        BY <4>3, <4>4, <4>5, AnswerFacts
      <4>. QED BY <2>4, <4>1, <4>6
    <3>. QED BY <3>1, <3>2
  <2>7. ASSUME NEW m \in Nodes, NEW r, Unused # {}, StartPush(m, r), UNCHANGED <<line, staging>>
        PROVE  OnlyCurrent(j)' /\ UpToDate(j)'
    <3>. DEFINE i == CHOOSE i \in Unused : TRUE
    <3>1. i \in Unused
      BY <2>7
    <3>2. jobs'[j] = jobs[j]
      BY <1>3, <2>7, <3>1 DEF StartPush, Unused, Typed
    <3>. QED BY <2>4, <2>7, <3>2
  <2>8. ASSUME NEW i \in Jobs, Ask(i)
        PROVE  OnlyCurrent(j)' /\ UpToDate(j)'
    <3>1. CASE i = j
      BY <1>1, <2>2, <2>3, <2>8, <3>1, ExactAsk
    <3>2. CASE i # j
      <4>1. jobs[i].node # n
        BY <2>2, <2>8, <3>2 DEF Sole, Ask, Asking
      <4>2. jobs'[j] = jobs[j] /\ staging'[n] = staging[n] /\ line'[n] = line[n]
        BY <2>2, <2>8, <3>2, <4>1 DEF Ask, Typed, board
      <4>. QED BY <2>4, <4>2
    <3>. QED BY <3>1, <3>2
  <2>9. ASSUME NEW i \in Jobs, RequestFails(i)
        PROVE  OnlyCurrent(j)' /\ UpToDate(j)'
    <3>1. CASE i = j
      BY <2>2, <2>9, <3>1, ExactFails
    <3>2. CASE i # j
      <4>1. jobs'[j] = jobs[j] /\ staging' = staging /\ line' = line
        BY <2>9, <3>2 DEF RequestFails, Typed, board, link
      <4>. QED BY <2>4, <4>1
    <3>. QED BY <3>1, <3>2
  <2>10. ASSUME NEW i \in Jobs, Reconnected(i) \/ NotReconnected(i) \/ Raising(i)
         PROVE  OnlyCurrent(j)' /\ UpToDate(j)'
    <3>1. i # j
      <4>1. CASE TransferRaises(i)
        <5>1. jobs'[i].status = "failed"
          BY <4>1 DEF TransferRaises, Done, Typed, JobRecords
        <5>. QED BY <5>1 DEF Asks
      <4>. QED BY <2>3, <2>10, <4>1 DEF Reconnected, NotReconnected, Raising, AuditRaises, Asks
    <3>2. jobs'[j] = jobs[j] /\ staging' = staging /\ line' = line
      BY <2>10, <3>1 DEF Reconnected, NotReconnected, Raising, TransferRaises,
         AuditRaises, Typed, board, link
    <3>. QED BY <2>4, <3>2
  <2>11. CASE CreateBundle \/ RolloutStart \/ RolloutSkip \/ CanaryPasses \/ CanaryAborts
              \/ RolloutDone \/ UNCHANGED vars
    <3>1. UNCHANGED <<jobs, staging, line>>
      BY <2>11 DEF CreateBundle, RolloutStart, RolloutSkip, CanaryPasses, CanaryAborts,
         RolloutDone, vars, board, link
    <3>. QED BY <2>4, <3>1
  <2>12. CASE RolloutNext
    <3>1. Order[place] \in Nodes
      BY <2>12, BoundsAssumption DEF RolloutNext, Typed, Nodes
    <3>. QED BY <2>7, <2>12, <3>1 DEF RolloutNext, board, link
  <2>13. ASSUME NEW m \in Targets, Push(m)
         PROVE  OnlyCurrent(j)' /\ UpToDate(j)'
    BY <2>7, <2>13, BoundsAssumption DEF Push, board, link
  <2>. QED BY <2>5, <2>6, <2>8, <2>9, <2>10, <2>11, <2>12, <2>13 DEF Next, Rolling, Working
<1>. QED BY <1>2, <1>3

-----------------------------------------------------------------------------
(* The rollout.                                                            *)

\* No node but the first is pushed to before the canary was found healthy.
LEMMA GatedStep ==
  ASSUME Typed, Shaped, Gated, [Next]_vars
  PROVE  Gated'
<1>1. Typed' /\ Shaped' /\ AllMove
  BY TypedStep
<1>2. Opened => \/ Order[1] \in skipped
                \/ \E c \in Jobs : jobs'[c].rank = 1 /\ jobs'[c].status = "healthy"
  BY <1>1 DEF Opened, AllMove, Moves
<1>3. ASSUME NEW c \in Jobs, jobs[c].rank = 1
      PROVE  jobs'[c].rank = 1
  BY <1>1, <1>3 DEF AllMove, Moves, Shaped, Sound
<1>4. ASSUME UNCHANGED rolling, \A j \in Jobs : jobs'[j].rank > 1 => jobs[j].rank > 1
      PROVE  Gated'
  BY <1>2, <1>3, <1>4 DEF Gated, Opened, rolling
<1>5. ASSUME UNCHANGED rolling, \A j \in Jobs : jobs[j].status = "unused" => jobs'[j] = jobs[j]
      PROVE  Gated'
  <2>1. \A j \in Jobs : jobs'[j].rank = jobs[j].rank
    BY <1>1, <1>5 DEF AllMove, Moves
  <2>. QED BY <1>4, <1>5, <2>1
<1>6. ASSUME NEW n \in Nodes, Drop(n) \/ Restart(n) \/ Boot(n) \/ Notice(n) \/ Register(n)
      PROVE  Gated'
  BY <1>5, <1>6 DEF Drop, Restart, Boot, Notice, Register, Running
<1>7. ASSUME NEW n \in Nodes, Handle(n)
      PROVE  Gated'
  <2>1. UNCHANGED rolling
    BY <1>7 DEF Handle, HandleBegin, HandleChunk, RefuseCommit, CarryOutCommit, CommitRaises, rolling
  <2>2. PICK o \in {"ok", "failed"} : Answer(Head(line[n]), o)
    BY <1>7 DEF Handle, HandleBegin, HandleChunk, RefuseCommit, CarryOutCommit, CommitRaises
  <2>3. line[n] \in Seq(Frames) /\ line[n] # <<>>
    BY <1>7 DEF Typed, Handle, HandleBegin, HandleChunk, RefuseCommit, CarryOutCommit, CommitRaises
  <2>4. Head(line[n]) \in Frames
    BY <2>3, LineFacts
  <2>. QED BY <1>5, <2>1, <2>2, <2>4, AnswerFacts DEF Asks
<1>8. ASSUME NEW j \in Jobs, Working(j) \/ Raising(j)
      PROVE  Gated'
  <2>1. UNCHANGED rolling
    BY <1>8 DEF Working, Ask, RequestFails, Reconnected, NotReconnected, Raising,
       TransferRaises, AuditRaises
  <2>2. jobs[j].status # "unused" /\ \A i \in Jobs \ {j} : jobs'[i] = jobs[i]
    BY <1>8 DEF Working, Ask, RequestFails, Reconnected, NotReconnected, Raising,
       TransferRaises, AuditRaises, Asking, Typed
  <2>. QED BY <1>5, <2>1, <2>2
<1>9. ASSUME NEW n \in Nodes, Push(n)
      PROVE  Gated'
  <2>1. PICK j \in Jobs : jobs'[j].rank = 0 /\ \A i \in Jobs \ {j} : jobs'[i] = jobs[i]
    BY <1>9, StartPushMoves DEF Push
  <2>. QED BY <1>4, <1>9, <2>1 DEF Push
<1>10. CASE RolloutNext
  <2>1. Order[place] \in Nodes /\ place \in Nat \ {0}
    BY <1>10, BoundsAssumption DEF RolloutNext, Typed, Nodes
  <2>2. PICK j \in Jobs : jobs'[j].rank = place /\ \A i \in Jobs \ {j} : jobs'[i] = jobs[i]
    BY <1>10, <2>1, StartPushMoves DEF RolloutNext
  <2>3. skipped' = skipped
    BY <1>10 DEF RolloutNext
  <2>4. CASE place = 1
    <3>1. rollout' = "canary" /\ place' = 1
      BY <1>10, <2>4 DEF RolloutNext
    <3>2. \A i \in Jobs : jobs'[i].rank > 1 => jobs[i].rank > 1
      BY <2>2, <2>4
    <3>. QED BY <1>2, <2>2, <2>3, <2>4, <3>1, <3>2 DEF Gated, Opened
  <2>5. CASE place > 1
    <3>1. rollout' = "running"
      BY <1>10, <2>5 DEF RolloutNext
    <3>. QED BY <1>2, <2>3, <2>5, <3>1 DEF Gated, Opened
  <2>. QED BY <2>1, <2>4, <2>5
<1>11. CASE RolloutSkip
  <2>1. place \in Nat \ {0} /\ UNCHANGED <<jobs, rollout>> /\ rollout = "running"
        /\ skipped' = skipped \union {Order[place]}
    BY <1>11 DEF RolloutSkip, Typed
  <2>2. Order[1] \in skipped' \/ \E c \in Jobs : jobs'[c].rank = 1 /\ jobs'[c].status = "healthy"
    <3>1. CASE place = 1
      BY <2>1, <3>1
    <3>2. CASE place > 1
      BY <1>2, <2>1, <3>2 DEF Gated
    <3>. QED BY <2>1, <3>1, <3>2
  <2>. QED BY <2>1, <2>2 DEF Gated, Opened
<1>12. CASE CanaryPasses
  <2>1. jobs' = jobs /\ skipped' = skipped /\ rollout' = "running" /\ rollout = "canary"
        /\ jobs[Canary].status = "healthy"
    BY <1>12 DEF CanaryPasses, Passed
  <2>2. Canary \in Jobs /\ jobs[Canary].rank = 1
    BY <2>1 DEF Gated, Canary
  <2>. QED BY <2>1, <2>2 DEF Gated, Opened
<1>13. CASE RolloutStart \/ CanaryAborts \/ RolloutDone
  BY <1>13 DEF RolloutStart, CanaryAborts, RolloutDone, Gated, Opened
<1>14. CASE CreateBundle \/ UNCHANGED vars
  BY <1>5, <1>14 DEF CreateBundle, vars, rolling
<1>. QED BY <1>6, <1>7, <1>8, <1>9, <1>10, <1>11, <1>12, <1>13, <1>14, BoundsAssumption
     DEF Next, Rolling

-----------------------------------------------------------------------------
(* The theorems.                                                           *)

LEMMA InitHolds ==
  ASSUME Init
  PROVE  Invariant
<1>1. Typed
  <2>1. Nothing \in Stagings /\ <<>> \in Seq(Frames) /\ 0 \in 0..Last /\ Deployed \in Nat
    BY BoundsAssumption DEF Nothing, Stagings, Last, Deployed
  <2>2. NoJob \in JobRecords
    BY <2>1 DEF NoJob, JobRecords, Statuses
  <2>. QED BY <2>1, <2>2 DEF Init, Typed
<1>2. \A j \in Jobs : jobs[j].status = "unused" /\ ~jobs[j].asked /\ jobs[j].rank = 0
  BY DEF Init, NoJob
<1>3. \A n \in Nodes : Len(line[n]) = 0
  BY DEF Init
<1>4. Shaped /\ AllSent /\ CommitOnce
  BY <1>2, <1>3 DEF Shaped, Sound, AllSent, CommitOnce, Init
<1>5. Exact /\ Gated
  BY <1>2 DEF Exact, Asks, Gated, Init
<1>. QED BY <1>1, <1>4, <1>5 DEF Invariant

LEMMA NextHolds ==
  ASSUME Invariant, [Next]_vars
  PROVE  Invariant'
BY TypedStep, SentStep, CommitOnceStep, ExactStep, GatedStep DEF Invariant

\* The invariant holds always.
THEOREM InvariantHolds == Spec => []Invariant
BY InitHolds, NextHolds, PTL DEF Spec

\* A push that is reported as failed has left its board's firmware as it was (ota.py),
\* however late the answers came and whatever else was pushed, unless its commit raised
\* on the board or something did at the hub.
THEOREM FailedLeftAloneHolds == Spec => []FailedLeftAlone
<1>1. Invariant => FailedLeftAlone
  BY DEF Invariant, CommitOnce, Settled, Carried, FailedLeftAlone
<1>. QED BY <1>1, InvariantHolds, PTL

\* In a rollout of any length, no node is pushed to before the push of the first was
\* found healthy, unless the first could not be started on.
THEOREM CanaryGateHolds == Spec => []CanaryGate
<1>1. Invariant => CanaryGate
  BY DEF Invariant, Gated, Opened, CanaryGate
<1>. QED BY <1>1, InvariantHolds, PTL

\* What the only push of a board commits is the bundle, exactly, through any number of
\* tries, late frames and lost answers.
THEOREM TransferExactHolds == Spec => []TransferExact
<1>1. Invariant => TransferExact
  <2>. SUFFICES ASSUME Invariant, NEW j \in Jobs, jobs[j].status = "committing", Sole(j),
                       j \notin installed
                PROVE  staging[jobs[j].node] \in {Whole(jobs[j].version), Nothing}
    BY DEF TransferExact, Sole
  <2>1. /\ jobs[j].step = Last /\ UpToDate(j) /\ jobs[j].version = store
        /\ Last = Files + 1 /\ Files \in Nat \ {0}
    BY BoundsAssumption DEF Invariant, Shaped, Sound, Exact, Asks, Sole, Last
  <2>2. staging[jobs[j].node] \in {Prefix(store, Last), Nothing}
    BY <2>1 DEF UpToDate
  <2>3. Prefix(store, Last) = Whole(store)
    <3>1. \A i \in 1..Files : i < Last
      BY <2>1
    <3>. QED BY <3>1 DEF Prefix, Whole
  <2>. QED BY <2>1, <2>2, <2>3
<1>. QED BY <1>1, InvariantHolds, PTL

=============================================================================
