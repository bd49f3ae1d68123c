------------------------ MODULE NodeLifecycleProofs ------------------------
(***************************************************************************)
(* For any number of connections and nodes, and any number of database     *)
(* errors: the types (so no ghosts), the one fate of every connection, and *)
(* the roster that browsers see.                                           *)
(*                                                                         *)
(* The roster is the hard one.  Its node_up and node_down are broadcast by *)
(* two coroutines that wait for the database at the same time.  Overtaken  *)
(* says why the node_down of an old connection cannot come after the       *)
(* node_up of the new one: it has fewer round trips left, or as many and   *)
(* is ahead in the queue, and a queue that is served in turns keeps it so. *)
(***************************************************************************)
EXTENDS NodeLifecycle, TLAPS, FiniteSetTheorems

\* k waits in the queue q; j waits ahead of k; nobody waits twice.
In(k, q) == \E p \in 1..Len(q) : q[p] = k
Ahead(j, k, q) == \E p, r \in 1..Len(q) : p < r /\ q[p] = j /\ q[r] = k
Once(q) == \A p, r \in 1..Len(q) : q[p] = q[r] => p = r

\* Where a handler waits for the database, and where it has no state yet.
Waiting == {"auth", "refuse", "upsert", "announce", "fetch", "erring"}
Early == {"none", "hello", "auth", "refuse", "upsert"}
Leaving == {"touch", "audit"}

\* A coroutine is in the queue exactly while its position says so, and has a
\* round trip to do there.
Queued ==
  /\ \A c \in Conns : In(Handler(c), dbq) <=> pc[c] \in Waiting
  /\ \A c \in Conns : In(Offliner(c), dbq) <=> off[c] \in Leaving
  /\ In(Sweeper, dbq) <=> sweeper = "erring"
  /\ \A k \in Coroutines : In(k, dbq) => trips[k] > 0

\* A connection has no fate before it has a state; then it holds its id, or was
\* replaced, or was taken offline, one of the three.
Fated ==
  \A c \in Conns :
    /\ peer[c] = "idle" => pc[c] = "none"
    /\ registry[Owner[c]] = c => off[c] = "no" /\ ~replaced[c]
    /\ off[c] # "no" => ~replaced[c]
    /\ pc[c] \in Early => off[c] = "no" /\ ~replaced[c]
    /\ pc[c] \in Serving => registry[Owner[c]] = c \/ replaced[c] \/ off[c] # "no"
    /\ pc[c] = "ending" => off[c] \in Leaving
    /\ off[c] \in {"audit", "done"} => ~pending[c]

\* The sweep awaits one mark_offline at a time, and none while it is not alive.
Swept(c) == off[c] \in Leaving /\ pc[c] # "ending"
OneSweep ==
  /\ \A c, d \in Conns : Swept(c) /\ Swept(d) => c = d
  /\ \A c \in Conns : Swept(c) => sweeper = "alive"
  /\ sweeper # "alive" => snapshot = {}

\* Round trips left until c's node_down, and until d's node_up.
UntilDown(c) == trips[Offliner(c)] + (IF off[c] = "touch" THEN WriteTrips ELSE 0)
UntilUp(d) == trips[Handler(d)] + (IF pc[d] = "announce" THEN ReadTrips ELSE 0)

DownFirst(c, d) ==
  \/ UntilDown(c) < UntilUp(d)
  \/ UntilDown(c) = UntilUp(d) /\ Ahead(Offliner(c), Handler(d), dbq)

\* As long as no database call has raised, the node_down of a connection comes before
\* the node_up of the one that holds its id by now.
Overtaken ==
  dbErrors = 0 =>
    \A c, d \in Conns : off[c] \in Leaving /\ registry[Owner[c]] = d =>
      pc[d] \in {"announce", "fetch"} /\ DownFirst(c, d)

Invariant == TypeOK /\ Queued /\ Fated /\ OneSweep /\ Overtaken /\ RosterAgrees

-----------------------------------------------------------------------------
(* The coroutines, and the queue they wait in.                             *)

\* Coroutines have different names.
LEMMA CoroutineFacts ==
  /\ \A c \in Conns : Handler(c) \in Coroutines /\ Offliner(c) \in Coroutines
  /\ Sweeper \in Coroutines
  /\ \A c, d \in Conns : /\ Handler(c) = Handler(d) => c = d
                         /\ Offliner(c) = Offliner(d) => c = d
                         /\ Handler(c) # Offliner(d)
  /\ \A c \in Conns : Handler(c) # Sweeper /\ Offliner(c) # Sweeper
BY DEF Coroutines, Handler, Offliner, Sweeper

\* Who joins the queue waits behind the others.
LEMMA AppendFacts ==
  ASSUME NEW q \in Seq(Coroutines), Once(q), NEW k \in Coroutines, ~In(k, q)
  PROVE  /\ Append(q, k) \in Seq(Coroutines) /\ Once(Append(q, k))
         /\ \A j : In(j, Append(q, k)) <=> In(j, q) \/ j = k
         /\ \A i, j : Ahead(i, j, q) => Ahead(i, j, Append(q, k))
         /\ \A j : In(j, q) => Ahead(j, k, Append(q, k))
<1>1. /\ Append(q, k) \in Seq(Coroutines) /\ Len(Append(q, k)) = Len(q) + 1 /\ Len(q) \in Nat
      /\ \A p \in 1..Len(q) : Append(q, k)[p] = q[p]
      /\ Append(q, k)[Len(q) + 1] = k
  OBVIOUS
<1>2. Once(Append(q, k))
  BY <1>1 DEF Once, In
<1>3. ASSUME NEW j PROVE In(j, Append(q, k)) <=> In(j, q) \/ j = k
  BY <1>1 DEF In
<1>4. ASSUME NEW i, NEW j, Ahead(i, j, q) PROVE Ahead(i, j, Append(q, k))
  BY <1>1, <1>4 DEF Ahead
<1>5. ASSUME NEW j, In(j, q) PROVE Ahead(j, k, Append(q, k))
  BY <1>1, <1>5 DEF Ahead, In
<1>. QED BY <1>1, <1>2, <1>3, <1>4, <1>5

\* Who is served leaves the queue from its front.
LEMMA TailFacts ==
  ASSUME NEW q \in Seq(Coroutines), Once(q), q # <<>>
  PROVE  /\ Head(q) \in Coroutines /\ In(Head(q), q)
         /\ Tail(q) \in Seq(Coroutines) /\ Once(Tail(q))
         /\ \A j : In(j, Tail(q)) <=> In(j, q) /\ j # Head(q)
         /\ \A i, j : Ahead(i, j, q) /\ i # Head(q) => Ahead(i, j, Tail(q))
         /\ \A i : ~Ahead(i, Head(q), q)
<1>1. /\ Tail(q) \in Seq(Coroutines) /\ Len(Tail(q)) = Len(q) - 1 /\ Len(q) \in Nat \ {0}
      /\ \A p \in 1..Len(Tail(q)) : Tail(q)[p] = q[p + 1]
      /\ Head(q) = q[1] /\ Head(q) \in Coroutines
  OBVIOUS
<1>2. In(Head(q), q)
  BY <1>1 DEF In
<1>3. Once(Tail(q))
  <2>. SUFFICES ASSUME NEW p \in 1..Len(Tail(q)), NEW r \in 1..Len(Tail(q)),
                       Tail(q)[p] = Tail(q)[r]
                PROVE  p = r
    BY DEF Once
  <2>1. p + 1 \in 1..Len(q) /\ r + 1 \in 1..Len(q) /\ q[p + 1] = q[r + 1]
    BY <1>1
  <2>. QED BY <2>1 DEF Once
<1>4. ASSUME NEW j PROVE In(j, Tail(q)) <=> In(j, q) /\ j # Head(q)
  <2>1. ASSUME In(j, Tail(q)) PROVE In(j, q) /\ j # Head(q)
    <3>1. PICK p \in 1..Len(Tail(q)) : Tail(q)[p] = j
      BY <2>1 DEF In
    <3>2. p + 1 \in 1..Len(q) /\ p + 1 # 1 /\ q[p + 1] = j
      BY <1>1, <3>1
    <3>. QED BY <1>1, <3>2 DEF In, Once
  <2>2. ASSUME In(j, q), j # Head(q) PROVE In(j, Tail(q))
    <3>1. PICK p \in 1..Len(q) : q[p] = j
      BY <2>2 DEF In
    <3>2. p # 1 /\ p - 1 \in 1..Len(Tail(q)) /\ Tail(q)[p - 1] = j
      BY <1>1, <2>2, <3>1
    <3>. QED BY <3>2 DEF In
  <2>. QED BY <2>1, <2>2
<1>5. ASSUME NEW i, NEW j, Ahead(i, j, q), i # Head(q) PROVE Ahead(i, j, Tail(q))
  <2>1. PICK p \in 1..Len(q), r \in 1..Len(q) : p < r /\ q[p] = i /\ q[r] = j
    BY <1>5 DEF Ahead
  <2>2. /\ p - 1 \in 1..Len(Tail(q)) /\ r - 1 \in 1..Len(Tail(q)) /\ p - 1 < r - 1
        /\ Tail(q)[p - 1] = i /\ Tail(q)[r - 1] = j
    BY <1>1, <1>5, <2>1
  <2>. QED BY <2>2 DEF Ahead
<1>6. ASSUME NEW i PROVE ~Ahead(i, Head(q), q)
  BY <1>1 DEF Ahead, Once
<1>. QED BY <1>1, <1>2, <1>3, <1>4, <1>5, <1>6
-----------------------------------------------------------------------------
(* What the queue's operators do to it.                                    *)

\* What is known of the queue and of the round trips.
QueueOK ==
  /\ dbq \in Seq(Coroutines) /\ Once(dbq)
  /\ trips \in [Coroutines -> 0..ReadTrips]
  /\ \A k \in Coroutines : In(k, dbq) => trips[k] > 0

\* The type invariant says of the queue what QueueOK does.
LEMMA QueueTyped == TypeOK /\ Queued => QueueOK
BY DEF TypeOK, Queued, QueueOK, Once

\* Only k's round trips are counted anew.
Counted(k, n) ==
  /\ trips'[k] = n
  /\ \A j \in Coroutines : j # k => trips'[j] = trips[j]

\* The order of all but the head is kept.
OrderKept == \A i, j \in Coroutines : Ahead(i, j, dbq) /\ i # Head(dbq) => Ahead(i, j, dbq')

\* A coroutine that does not wait begins to.
LEMMA Joins ==
  ASSUME QueueOK, NEW k \in Coroutines, ~In(k, dbq), NEW n \in 1..ReadTrips, AwaitFrom(dbq, k, n)
  PROVE  /\ QueueOK' /\ Counted(k, n)
         /\ \A j \in Coroutines : In(j, dbq') <=> In(j, dbq) \/ j = k
         /\ \A i, j \in Coroutines : Ahead(i, j, dbq) => Ahead(i, j, dbq')
<1>1. /\ dbq' \in Seq(Coroutines) /\ Once(dbq')
      /\ \A j : In(j, dbq') <=> In(j, dbq) \/ j = k
      /\ \A i, j : Ahead(i, j, dbq) => Ahead(i, j, dbq')
  BY AppendFacts DEF AwaitFrom, QueueOK
<1>2. trips' \in [Coroutines -> 0..ReadTrips] /\ Counted(k, n)
  BY DEF AwaitFrom, QueueOK, Counted, ReadTrips
<1>3. \A j \in Coroutines : In(j, dbq') => trips'[j] > 0
  BY <1>1, <1>2 DEF Counted, QueueOK, ReadTrips
<1>4. QueueOK'
  BY <1>1, <1>2, <1>3 DEF QueueOK
<1>. QED BY <1>1, <1>2, <1>4

\* The head is served and has nothing more to ask.
LEMMA Exits ==
  ASSUME QueueOK, dbq # <<>>, ThenNothing(Head(dbq)) \/ (dbq' = Tail(dbq) /\ trips' = trips)
  PROVE  /\ QueueOK'
         /\ \A j \in Coroutines : j # Head(dbq) => trips'[j] = trips[j]
         /\ \A j \in Coroutines : In(j, dbq') <=> In(j, dbq) /\ j # Head(dbq)
         /\ OrderKept
<1>1. /\ dbq' \in Seq(Coroutines) /\ Once(dbq') /\ Head(dbq) \in Coroutines
      /\ \A j : In(j, dbq') <=> In(j, dbq) /\ j # Head(dbq)
      /\ \A i, j : Ahead(i, j, dbq) /\ i # Head(dbq) => Ahead(i, j, dbq')
  <2>1. dbq' = Tail(dbq)
    BY DEF ThenNothing
  <2>. QED BY <2>1, TailFacts DEF QueueOK
<1>2. /\ trips' \in [Coroutines -> 0..ReadTrips]
      /\ \A j \in Coroutines : j # Head(dbq) => trips'[j] = trips[j]
  BY <1>1 DEF ThenNothing, QueueOK, ReadTrips
<1>3. \A j \in Coroutines : In(j, dbq') => trips'[j] > 0
  BY <1>1, <1>2 DEF QueueOK
<1>4. QueueOK'
  BY <1>1, <1>2, <1>3 DEF QueueOK
<1>. QED BY <1>1, <1>2, <1>4 DEF OrderKept

\* The head is served, and k begins to wait: the head itself, or another one.
LEMMA Turns ==
  ASSUME QueueOK, dbq # <<>>, NEW k \in Coroutines, k = Head(dbq) \/ ~In(k, dbq),
         NEW n \in 1..ReadTrips, AwaitFrom(Tail(dbq), k, n)
  PROVE  /\ QueueOK' /\ Counted(k, n)
         /\ \A j \in Coroutines : In(j, dbq') <=> j = k \/ (In(j, dbq) /\ j # Head(dbq))
         /\ OrderKept
         /\ \A j \in Coroutines : In(j, dbq) /\ j # Head(dbq) => Ahead(j, k, dbq')
         /\ In(Head(dbq), dbq)
<1>1. /\ Tail(dbq) \in Seq(Coroutines) /\ Once(Tail(dbq)) /\ In(Head(dbq), dbq)
      /\ \A j : In(j, Tail(dbq)) <=> In(j, dbq) /\ j # Head(dbq)
      /\ \A i, j : Ahead(i, j, dbq) /\ i # Head(dbq) => Ahead(i, j, Tail(dbq))
  BY TailFacts DEF QueueOK
<1>2. ~In(k, Tail(dbq))
  BY <1>1
<1>3. /\ dbq' \in Seq(Coroutines) /\ Once(dbq')
      /\ \A j : In(j, dbq') <=> In(j, Tail(dbq)) \/ j = k
      /\ \A i, j : Ahead(i, j, Tail(dbq)) => Ahead(i, j, dbq')
      /\ \A j : In(j, Tail(dbq)) => Ahead(j, k, dbq')
  BY <1>1, <1>2, AppendFacts DEF AwaitFrom
<1>4. trips' \in [Coroutines -> 0..ReadTrips] /\ Counted(k, n)
  BY DEF AwaitFrom, QueueOK, Counted, ReadTrips
<1>5. \A j \in Coroutines : In(j, dbq') => trips'[j] > 0
  BY <1>1, <1>3, <1>4 DEF Counted, QueueOK, ReadTrips
<1>6. QueueOK'
  BY <1>3, <1>4, <1>5 DEF QueueOK
<1>7. \A j \in Coroutines : In(j, dbq') <=> j = k \/ (In(j, dbq) /\ j # Head(dbq))
  BY <1>1, <1>3
<1>8. OrderKept /\ \A j \in Coroutines : In(j, dbq) /\ j # Head(dbq) => Ahead(j, k, dbq')
  BY <1>1, <1>3 DEF OrderKept
<1>. QED BY <1>1, <1>4, <1>6, <1>7, <1>8

\* The one that is served now is the first in the queue, and nobody is ahead of it.
LEMMA HeadFacts ==
  ASSUME QueueOK, dbq # <<>>
  PROVE  Head(dbq) \in Coroutines /\ In(Head(dbq), dbq) /\ \A i : ~Ahead(i, Head(dbq), dbq)
BY TailFacts DEF QueueOK

\* A connection that holds its id has a state behind its handler.
LEMMA HolderServes ==
  ASSUME TypeOK, NEW c \in Conns, registry[Owner[c]] = c
  PROVE  pc[c] \in Serving
<1>1. Owner[c] \in Nodes /\ registry[Owner[c]] # None
  BY OwnerAssumption, NoneAssumption
<1>. QED BY <1>1 DEF TypeOK
-----------------------------------------------------------------------------
(* The race of a node_down with a node_up.                                 *)

\* A pair of which neither has a turn keeps its order.
LEMMA OthersKept ==
  ASSUME Overtaken, QueueOK, QueueOK', NEW h \in Coroutines, NEW k \in Coroutines,
         dbErrors' = dbErrors,
         \A j \in Coroutines : j \notin {h, k} => trips'[j] = trips[j],
         \A i, j \in Coroutines : Ahead(i, j, dbq) /\ i # h => Ahead(i, j, dbq'),
         \A c, d \in Conns : off'[c] \in Leaving /\ registry'[Owner[c]] = d =>
           off'[c] = off[c] /\ registry[Owner[c]] = d /\ Offliner(c) \notin {h, k},
         \A d \in Conns : pc[d] \in {"announce", "fetch"} =>
           pc'[d] = pc[d] /\ Handler(d) \notin {h, k}
  PROVE  Overtaken'
<1>. SUFFICES ASSUME dbErrors = 0, NEW c \in Conns, NEW d \in Conns,
                     off'[c] \in Leaving, registry'[Owner[c]] = d
              PROVE  pc'[d] \in {"announce", "fetch"} /\ DownFirst(c, d)'
  BY DEF Overtaken
<1>1. off'[c] = off[c] /\ registry[Owner[c]] = d /\ Offliner(c) \notin {h, k}
  OBVIOUS
<1>2. pc[d] \in {"announce", "fetch"} /\ DownFirst(c, d)
  BY <1>1 DEF Overtaken
<1>3. pc'[d] = pc[d] /\ Handler(d) \notin {h, k}
  BY <1>2
<1>4. trips'[Offliner(c)] = trips[Offliner(c)] /\ trips'[Handler(d)] = trips[Handler(d)]
  BY <1>1, <1>3, CoroutineFacts
<1>5. UntilDown(c)' = UntilDown(c) /\ UntilUp(d)' = UntilUp(d)
  BY <1>1, <1>3, <1>4 DEF UntilDown, UntilUp
<1>6. Ahead(Offliner(c), Handler(d), dbq) => Ahead(Offliner(c), Handler(d), dbq')
  BY <1>1, CoroutineFacts
<1>. QED BY <1>2, <1>3, <1>5, <1>6 DEF DownFirst

\* The head of the queue has a turn: it is served once, and one of the two
\* numbers of the pairs that it is in goes down by one.
LEMMA TurnKeeps ==
  ASSUME Invariant, dbq # <<>>, NEW n \in 1..ReadTrips, AwaitFrom(Tail(dbq), Head(dbq), n),
         dbErrors' = dbErrors, registry' = registry,
         \A c \in Conns : /\ off'[c] \in Leaving => off[c] \in Leaving
                          /\ Offliner(c) # Head(dbq) => off'[c] = off[c]
                          /\ Offliner(c) = Head(dbq) => UntilDown(c)' = UntilDown(c) - 1,
         \A d \in Conns : pc[d] \in {"announce", "fetch"} =>
           /\ pc'[d] \in {"announce", "fetch"}
           /\ Handler(d) # Head(dbq) => pc'[d] = pc[d]
           /\ Handler(d) = Head(dbq) => UntilUp(d)' = UntilUp(d) - 1
  PROVE  Overtaken'
<1>1. QueueOK
  BY QueueTyped DEF Invariant
<1>2. /\ QueueOK' /\ Counted(Head(dbq), n) /\ OrderKept
      /\ \A j \in Coroutines : In(j, dbq) /\ j # Head(dbq) => Ahead(j, Head(dbq), dbq')
      /\ Head(dbq) \in Coroutines /\ \A i : ~Ahead(i, Head(dbq), dbq)
  BY <1>1, HeadFacts, Turns
<1>. SUFFICES ASSUME dbErrors = 0, NEW c \in Conns, NEW d \in Conns,
                     off'[c] \in Leaving, registry[Owner[c]] = d
              PROVE  pc'[d] \in {"announce", "fetch"} /\ DownFirst(c, d)'
  BY DEF Overtaken
<1>3. off[c] \in Leaving /\ pc[d] \in {"announce", "fetch"} /\ DownFirst(c, d)
  BY DEF Overtaken, Invariant
<1>4. pc'[d] \in {"announce", "fetch"}
  BY <1>3
<1>5. /\ Offliner(c) \in Coroutines /\ Handler(d) \in Coroutines /\ Offliner(c) # Handler(d)
      /\ trips[Offliner(c)] \in Nat /\ trips[Handler(d)] \in Nat
  BY <1>1, CoroutineFacts DEF QueueOK, ReadTrips
<1>6. UntilDown(c) \in Nat /\ UntilUp(d) \in Nat
  BY <1>5 DEF UntilDown, UntilUp, WriteTrips, ReadTrips
<1>7. CASE Head(dbq) = Offliner(c)
  <2>1. UntilDown(c)' = UntilDown(c) - 1
    BY <1>7
  <2>2. UntilUp(d)' = UntilUp(d)
    BY <1>2, <1>3, <1>5, <1>7 DEF UntilUp, Counted
  <2>. QED BY <1>3, <1>4, <1>6, <2>1, <2>2 DEF DownFirst
<1>8. CASE Head(dbq) = Handler(d)
  <2>1. UntilUp(d)' = UntilUp(d) - 1
    BY <1>3, <1>8
  <2>2. UntilDown(c)' = UntilDown(c)
    BY <1>2, <1>5, <1>8 DEF UntilDown, Counted
  <2>3. UntilDown(c) < UntilUp(d)
    BY <1>2, <1>3, <1>8 DEF DownFirst
  <2>4. Ahead(Offliner(c), Handler(d), dbq')
    BY <1>2, <1>3, <1>5, <1>8 DEF Invariant, Queued
  <2>. QED BY <1>4, <1>6, <2>1, <2>2, <2>3, <2>4 DEF DownFirst
<1>9. CASE Head(dbq) \notin {Offliner(c), Handler(d)}
  <2>1. UntilUp(d)' = UntilUp(d) /\ UntilDown(c)' = UntilDown(c)
    BY <1>2, <1>3, <1>5, <1>9 DEF UntilUp, UntilDown, Counted
  <2>2. Ahead(Offliner(c), Handler(d), dbq) => Ahead(Offliner(c), Handler(d), dbq')
    BY <1>2, <1>5, <1>9 DEF OrderKept
  <2>. QED BY <1>3, <1>4, <2>1, <2>2 DEF DownFirst
<1>. QED BY <1>7, <1>8, <1>9
-----------------------------------------------------------------------------
(* The steps                                                              *)

\* A board dials: its connection had no handler, so no pair of announcements is touched.
LEMMA DialPreserves ==
  ASSUME Invariant, NEW c \in Conns, Dial(c)
  PROVE  Invariant'
<1>0. QueueOK
  BY QueueTyped DEF Invariant
<1>1. UNCHANGED <<dbq, trips>>
  BY DEF Dial, sweep
<1>2. QueueOK'
  BY <1>0, <1>1 DEF QueueOK
<1>3. TypeOK'
  BY <1>2, OwnerAssumption, NoneAssumption
  DEF Invariant, TypeOK, QueueOK, Once, Fated, Serving, Positions, Dial, sweep
<1>4. Queued'
  <2>1. pc[c] = "none"
    BY DEF Invariant, Fated, Dial
  <2>. QED BY <1>1, <2>1, CoroutineFacts
       DEF Invariant, TypeOK, Queued, Waiting, Leaving, Dial, sweep
<1>5. Fated' /\ OneSweep'
  BY OwnerAssumption, NoneAssumption
  DEF Invariant, TypeOK, Fated, OneSweep, Swept, Serving, Positions, Early, Leaving, Dial,
      sweep
<1>6. Overtaken'
  <2>1. pc[c] = "none"
    BY DEF Invariant, Fated, Dial
  <2>2. \A e \in Conns : pc[e] \in {"announce", "fetch"} => pc'[e] = pc[e] /\ Handler(e) # Sweeper
    BY <2>1, CoroutineFacts DEF Invariant, TypeOK, Dial
  <2>3. /\ \A e \in Conns : Offliner(e) # Sweeper
        /\ UNCHANGED <<off, registry, dbq, trips, dbErrors>>
        /\ Sweeper \in Coroutines
    BY CoroutineFacts DEF Dial
  <2>. QED BY <1>0, <1>2, <2>2, <2>3, OthersKept DEF Invariant
<1>7. RosterAgrees'
  BY OwnerAssumption, NoneAssumption
  DEF Invariant, TypeOK, RosterAgrees, Announcing, MergeNode, Fated, Leaving, Overtaken,
      Dial, sweep
<1>. QED BY <1>3, <1>4, <1>5, <1>6, <1>7 DEF Invariant

\* A board leaves: only its own end of the connection changes.
LEMMA LeavePreserves ==
  ASSUME Invariant, NEW c \in Conns, Leave(c)
  PROVE  Invariant'
<1>0. QueueOK
  BY QueueTyped DEF Invariant
<1>1. UNCHANGED <<dbq, trips>>
  BY DEF Leave, sweep
<1>2. QueueOK'
  BY <1>0, <1>1 DEF QueueOK
<1>3. TypeOK'
  BY <1>2, OwnerAssumption, NoneAssumption
  DEF Invariant, TypeOK, QueueOK, Once, Fated, Serving, Positions, Leave, sweep
<1>4. Queued'
  BY <1>1, <1>2, CoroutineFacts
  DEF Invariant, TypeOK, Queued, QueueOK, Waiting, Leaving, Leave, sweep
<1>5. Fated' /\ OneSweep'
  BY OwnerAssumption, NoneAssumption
  DEF Invariant, TypeOK, Fated, OneSweep, Swept, Serving, Positions, Early, Leaving,
      Leave, sweep
<1>6. Overtaken'
  <2>1. /\ \A e \in Conns : off'[e] \in Leaving /\ registry'[Owner[e]] \in Conns =>
             /\ off'[e] = off[e] /\ Offliner(e) # Sweeper
             /\ registry'[Owner[e]] = registry[Owner[e]]
        /\ \A e \in Conns : pc[e] \in {"announce", "fetch"} =>
             pc'[e] = pc[e] /\ Handler(e) # Sweeper
    BY CoroutineFacts, OwnerAssumption, NoneAssumption
    DEF Invariant, TypeOK, Leaving, Leave, sweep
  <2>2. \A j \in Coroutines : j # Sweeper => trips'[j] = trips[j]
    BY <1>1, <1>2 DEF Counted
  <2>3. \A i, j \in Coroutines : Ahead(i, j, dbq) /\ i # Sweeper => Ahead(i, j, dbq')
    BY <1>1, <1>2 DEF OrderKept
  <2>4. dbErrors' = dbErrors
    BY DEF Leave, sweep
  <2>5. Sweeper \in Coroutines
    BY <1>1, CoroutineFacts
  <2>. QED BY <1>0, <1>2, <2>1, <2>2, <2>3, <2>4, <2>5, OthersKept DEF Invariant
<1>7. RosterAgrees'
  BY OwnerAssumption, NoneAssumption
  DEF Invariant, TypeOK, RosterAgrees, Announcing, MergeNode, Fated, Leaving, Overtaken,
      Leave, sweep
<1>. QED BY <1>3, <1>4, <1>5, <1>6, <1>7 DEF Invariant

\* A handler that never saw a hello ends; it had no state and no place in the queue.
LEMMA NoHelloPreserves ==
  ASSUME Invariant, NEW c \in Conns, NoHello(c)
  PROVE  Invariant'
<1>0. QueueOK
  BY QueueTyped DEF Invariant
<1>1. UNCHANGED <<dbq, trips>>
  BY DEF NoHello, sweep
<1>2. QueueOK'
  BY <1>0, <1>1 DEF QueueOK
<1>3. TypeOK'
  BY <1>2, OwnerAssumption, NoneAssumption
  DEF Invariant, TypeOK, QueueOK, Once, Fated, Serving, Positions, NoHello, sweep
<1>4. Queued'
  BY <1>1, <1>2, CoroutineFacts
  DEF Invariant, TypeOK, Queued, QueueOK, Waiting, Leaving, NoHello, sweep
<1>5. Fated' /\ OneSweep'
  BY OwnerAssumption, NoneAssumption
  DEF Invariant, TypeOK, Fated, OneSweep, Swept, Serving, Positions, Early, Leaving,
      NoHello, sweep
<1>6. Overtaken'
  <2>1. /\ \A e \in Conns : off'[e] \in Leaving /\ registry'[Owner[e]] \in Conns =>
             /\ off'[e] = off[e] /\ Offliner(e) # Sweeper
             /\ registry'[Owner[e]] = registry[Owner[e]]
        /\ \A e \in Conns : pc[e] \in {"announce", "fetch"} =>
             pc'[e] = pc[e] /\ Handler(e) # Sweeper
    BY CoroutineFacts, OwnerAssumption, NoneAssumption
    DEF Invariant, TypeOK, Leaving, NoHello, sweep
  <2>2. \A j \in Coroutines : j # Sweeper => trips'[j] = trips[j]
    BY <1>1, <1>2 DEF Counted
  <2>3. \A i, j \in Coroutines : Ahead(i, j, dbq) /\ i # Sweeper => Ahead(i, j, dbq')
    BY <1>1, <1>2 DEF OrderKept
  <2>4. dbErrors' = dbErrors
    BY DEF NoHello, sweep
  <2>5. Sweeper \in Coroutines
    BY <1>1, CoroutineFacts
  <2>. QED BY <1>0, <1>2, <2>1, <2>2, <2>3, <2>4, <2>5, OthersKept DEF Invariant
<1>7. RosterAgrees'
  BY OwnerAssumption, NoneAssumption
  DEF Invariant, TypeOK, RosterAgrees, Announcing, MergeNode, Fated, Leaving, Overtaken,
      NoHello, sweep
<1>. QED BY <1>3, <1>4, <1>5, <1>6, <1>7 DEF Invariant

\* The queue drain is over: the announcement was made before, and none is delayed.
LEMMA DrainedPreserves ==
  ASSUME Invariant, NEW c \in Conns, Drained(c)
  PROVE  Invariant'
<1>0. QueueOK
  BY QueueTyped DEF Invariant
<1>1. UNCHANGED <<dbq, trips>>
  BY DEF Drained, sweep
<1>2. QueueOK'
  BY <1>0, <1>1 DEF QueueOK
<1>3. TypeOK'
  BY <1>2, OwnerAssumption, NoneAssumption
  DEF Invariant, TypeOK, QueueOK, Once, Fated, Serving, Positions, Drained, sweep
<1>4. Queued'
  BY <1>1, <1>2, CoroutineFacts
  DEF Invariant, TypeOK, Queued, QueueOK, Waiting, Leaving, Drained, sweep
<1>5. Fated' /\ OneSweep'
  BY OwnerAssumption, NoneAssumption
  DEF Invariant, TypeOK, Fated, OneSweep, Swept, Serving, Positions, Early, Leaving,
      Drained, sweep
<1>6. Overtaken'
  <2>1. /\ \A e \in Conns : off'[e] \in Leaving /\ registry'[Owner[e]] \in Conns =>
             /\ off'[e] = off[e] /\ Offliner(e) # Sweeper
             /\ registry'[Owner[e]] = registry[Owner[e]]
        /\ \A e \in Conns : pc[e] \in {"announce", "fetch"} =>
             pc'[e] = pc[e] /\ Handler(e) # Sweeper
    BY CoroutineFacts, OwnerAssumption, NoneAssumption
    DEF Invariant, TypeOK, Leaving, Drained, sweep
  <2>2. \A j \in Coroutines : j # Sweeper => trips'[j] = trips[j]
    BY <1>1, <1>2 DEF Counted
  <2>3. \A i, j \in Coroutines : Ahead(i, j, dbq) /\ i # Sweeper => Ahead(i, j, dbq')
    BY <1>1, <1>2 DEF OrderKept
  <2>4. dbErrors' = dbErrors
    BY DEF Drained, sweep
  <2>5. Sweeper \in Coroutines
    BY <1>1, CoroutineFacts
  <2>. QED BY <1>0, <1>2, <2>1, <2>2, <2>3, <2>4, <2>5, OthersKept DEF Invariant
<1>7. RosterAgrees'
  BY OwnerAssumption, NoneAssumption
  DEF Invariant, TypeOK, RosterAgrees, Announcing, MergeNode, Fated, Leaving, Overtaken,
      Drained, sweep
<1>. QED BY <1>3, <1>4, <1>5, <1>6, <1>7 DEF Invariant

\* A frame makes its connection fresh, and may answer the request that waits on it.
LEMMA FramePreserves ==
  ASSUME Invariant, NEW c \in Conns, Frame(c)
  PROVE  Invariant'
<1>0. QueueOK
  BY QueueTyped DEF Invariant
<1>1. UNCHANGED <<dbq, trips>>
  BY DEF Frame, sweep
<1>2. QueueOK'
  BY <1>0, <1>1 DEF QueueOK
<1>3. TypeOK'
  <2>1. fresh' \in [Conns -> BOOLEAN] /\ pending' \in [Conns -> BOOLEAN]
    BY DEF Invariant, TypeOK, Frame
  <2>. QED BY <2>1 DEF Invariant, TypeOK, Frame, sweep
<1>4. Queued'
  BY <1>1, <1>2, CoroutineFacts
  DEF Invariant, TypeOK, Queued, QueueOK, Waiting, Leaving, Frame, sweep
<1>5. Fated' /\ OneSweep'
  <2>1. \A e \in Conns : ~pending[e] => ~pending'[e]
    BY DEF Invariant, TypeOK, Frame
  <2>2. Fated'
    BY <2>1 DEF Invariant, Fated, Frame
  <2>3. OneSweep'
    BY DEF Invariant, OneSweep, Swept, Frame, sweep
  <2>. QED BY <2>2, <2>3
<1>6. Overtaken'
  <2>1. /\ \A e \in Conns : off'[e] \in Leaving /\ registry'[Owner[e]] \in Conns =>
             /\ off'[e] = off[e] /\ Offliner(e) # Sweeper
             /\ registry'[Owner[e]] = registry[Owner[e]]
        /\ \A e \in Conns : pc[e] \in {"announce", "fetch"} =>
             pc'[e] = pc[e] /\ Handler(e) # Sweeper
    BY CoroutineFacts, OwnerAssumption, NoneAssumption
    DEF Invariant, TypeOK, Leaving, Frame, sweep
  <2>2. \A j \in Coroutines : j # Sweeper => trips'[j] = trips[j]
    BY <1>1, <1>2 DEF Counted
  <2>3. \A i, j \in Coroutines : Ahead(i, j, dbq) /\ i # Sweeper => Ahead(i, j, dbq')
    BY <1>1, <1>2 DEF OrderKept
  <2>4. dbErrors' = dbErrors
    BY DEF Frame, sweep
  <2>5. Sweeper \in Coroutines
    BY <1>1, CoroutineFacts
  <2>. QED BY <1>0, <1>2, <2>1, <2>2, <2>3, <2>4, <2>5, OthersKept DEF Invariant
<1>7. RosterAgrees'
  BY OwnerAssumption, NoneAssumption
  DEF Invariant, TypeOK, RosterAgrees, Announcing, MergeNode, Fated, Leaving, Overtaken,
      Frame, sweep
<1>. QED BY <1>3, <1>4, <1>5, <1>6, <1>7 DEF Invariant

\* A registered connection goes stale: the sweep may look at it from now on.
LEMMA GoStalePreserves ==
  ASSUME Invariant, NEW c \in Conns, GoStale(c)
  PROVE  Invariant'
<1>0. QueueOK
  BY QueueTyped DEF Invariant
<1>1. UNCHANGED <<dbq, trips>>
  BY DEF GoStale, sweep
<1>2. QueueOK'
  BY <1>0, <1>1 DEF QueueOK
<1>3. TypeOK'
  BY <1>2, OwnerAssumption, NoneAssumption
  DEF Invariant, TypeOK, QueueOK, Once, Fated, Serving, Positions, GoStale, sweep
<1>4. Queued'
  BY <1>1, <1>2, CoroutineFacts
  DEF Invariant, TypeOK, Queued, QueueOK, Waiting, Leaving, GoStale, sweep
<1>5. Fated' /\ OneSweep'
  BY OwnerAssumption, NoneAssumption
  DEF Invariant, TypeOK, Fated, OneSweep, Swept, Serving, Positions, Early, Leaving,
      GoStale, sweep
<1>6. Overtaken'
  <2>1. /\ \A e \in Conns : off'[e] \in Leaving /\ registry'[Owner[e]] \in Conns =>
             /\ off'[e] = off[e] /\ Offliner(e) # Sweeper
             /\ registry'[Owner[e]] = registry[Owner[e]]
        /\ \A e \in Conns : pc[e] \in {"announce", "fetch"} =>
             pc'[e] = pc[e] /\ Handler(e) # Sweeper
    BY CoroutineFacts, OwnerAssumption, NoneAssumption
    DEF Invariant, TypeOK, Leaving, GoStale, sweep
  <2>2. \A j \in Coroutines : j # Sweeper => trips'[j] = trips[j]
    BY <1>1, <1>2 DEF Counted
  <2>3. \A i, j \in Coroutines : Ahead(i, j, dbq) /\ i # Sweeper => Ahead(i, j, dbq')
    BY <1>1, <1>2 DEF OrderKept
  <2>4. dbErrors' = dbErrors
    BY DEF GoStale, sweep
  <2>5. Sweeper \in Coroutines
    BY <1>1, CoroutineFacts
  <2>. QED BY <1>0, <1>2, <2>1, <2>2, <2>3, <2>4, <2>5, OthersKept DEF Invariant
<1>7. RosterAgrees'
  BY OwnerAssumption, NoneAssumption
  DEF Invariant, TypeOK, RosterAgrees, Announcing, MergeNode, Fated, Leaving, Overtaken,
      GoStale, sweep
<1>. QED BY <1>3, <1>4, <1>5, <1>6, <1>7 DEF Invariant

\* The sweep takes its snapshot, awaiting no mark_offline meanwhile.
LEMMA SweepStartPreserves ==
  ASSUME Invariant, SweepStart
  PROVE  Invariant'
<1>0. QueueOK
  BY QueueTyped DEF Invariant
<1>1. UNCHANGED <<dbq, trips>>
  BY DEF SweepStart, Registered, sweep
<1>2. QueueOK'
  BY <1>0, <1>1 DEF QueueOK
<1>3. TypeOK'
  BY <1>2, OwnerAssumption, NoneAssumption
  DEF Invariant, TypeOK, QueueOK, Once, Fated, Serving, Positions, SweepStart, Registered,
      sweep
<1>4. Queued'
  BY <1>1, <1>2, CoroutineFacts
  DEF Invariant, TypeOK, Queued, QueueOK, Waiting, Leaving, SweepStart, Registered, sweep
<1>5. Fated' /\ OneSweep'
  BY OwnerAssumption, NoneAssumption
  DEF Invariant, TypeOK, Fated, OneSweep, Swept, Serving, Positions, Early, Leaving,
      SweepStart, Registered, sweep
<1>6. Overtaken'
  <2>1. /\ \A e \in Conns : off'[e] \in Leaving /\ registry'[Owner[e]] \in Conns =>
             /\ off'[e] = off[e] /\ Offliner(e) # Sweeper
             /\ registry'[Owner[e]] = registry[Owner[e]]
        /\ \A e \in Conns : pc[e] \in {"announce", "fetch"} =>
             pc'[e] = pc[e] /\ Handler(e) # Sweeper
    BY CoroutineFacts, OwnerAssumption, NoneAssumption
    DEF Invariant, TypeOK, Leaving, SweepStart, Registered, sweep
  <2>2. \A j \in Coroutines : j # Sweeper => trips'[j] = trips[j]
    BY <1>1, <1>2 DEF Counted
  <2>3. \A i, j \in Coroutines : Ahead(i, j, dbq) /\ i # Sweeper => Ahead(i, j, dbq')
    BY <1>1, <1>2 DEF OrderKept
  <2>4. dbErrors' = dbErrors
    BY DEF SweepStart, Registered, sweep
  <2>5. Sweeper \in Coroutines
    BY <1>1, CoroutineFacts
  <2>. QED BY <1>0, <1>2, <2>1, <2>2, <2>3, <2>4, <2>5, OthersKept DEF Invariant
<1>7. RosterAgrees'
  BY OwnerAssumption, NoneAssumption
  DEF Invariant, TypeOK, RosterAgrees, Announcing, MergeNode, Fated, Leaving, Overtaken,
      SweepStart, Registered, sweep
<1>. QED BY <1>3, <1>4, <1>5, <1>6, <1>7 DEF Invariant

\* The sweep passes over a connection that is not its business.
LEMMA SweepSkipPreserves ==
  ASSUME Invariant, NEW c \in Conns, SweepSkip(c)
  PROVE  Invariant'
<1>0. QueueOK
  BY QueueTyped DEF Invariant
<1>1. UNCHANGED <<dbq, trips>>
  BY DEF SweepSkip, Owns, sweep
<1>2. QueueOK'
  BY <1>0, <1>1 DEF QueueOK
<1>3. TypeOK'
  BY <1>2, OwnerAssumption, NoneAssumption
  DEF Invariant, TypeOK, QueueOK, Once, Fated, Serving, Positions, SweepSkip, Owns, sweep
<1>4. Queued'
  BY <1>1, <1>2, CoroutineFacts
  DEF Invariant, TypeOK, Queued, QueueOK, Waiting, Leaving, SweepSkip, Owns, sweep
<1>5. Fated' /\ OneSweep'
  BY OwnerAssumption, NoneAssumption
  DEF Invariant, TypeOK, Fated, OneSweep, Swept, Serving, Positions, Early, Leaving,
      SweepSkip, Owns, sweep
<1>6. Overtaken'
  <2>1. /\ \A e \in Conns : off'[e] \in Leaving /\ registry'[Owner[e]] \in Conns =>
             /\ off'[e] = off[e] /\ Offliner(e) # Sweeper
             /\ registry'[Owner[e]] = registry[Owner[e]]
        /\ \A e \in Conns : pc[e] \in {"announce", "fetch"} =>
             pc'[e] = pc[e] /\ Handler(e) # Sweeper
    BY CoroutineFacts, OwnerAssumption, NoneAssumption
    DEF Invariant, TypeOK, Leaving, SweepSkip, Owns, sweep
  <2>2. \A j \in Coroutines : j # Sweeper => trips'[j] = trips[j]
    BY <1>1, <1>2 DEF Counted
  <2>3. \A i, j \in Coroutines : Ahead(i, j, dbq) /\ i # Sweeper => Ahead(i, j, dbq')
    BY <1>1, <1>2 DEF OrderKept
  <2>4. dbErrors' = dbErrors
    BY DEF SweepSkip, Owns, sweep
  <2>5. Sweeper \in Coroutines
    BY <1>1, CoroutineFacts
  <2>. QED BY <1>0, <1>2, <2>1, <2>2, <2>3, <2>4, <2>5, OthersKept DEF Invariant
<1>7. RosterAgrees'
  BY OwnerAssumption, NoneAssumption
  DEF Invariant, TypeOK, RosterAgrees, Announcing, MergeNode, Fated, Leaving, Overtaken,
      SweepSkip, Owns, sweep
<1>. QED BY <1>3, <1>4, <1>5, <1>6, <1>7 DEF Invariant

\* A request waits on a registered connection, so on none that was taken offline.
LEMMA RequestPreserves ==
  ASSUME Invariant, NEW c \in Conns, Request(c)
  PROVE  Invariant'
<1>0. QueueOK
  BY QueueTyped DEF Invariant
<1>1. UNCHANGED <<dbq, trips>>
  BY DEF Request, sweep
<1>2. QueueOK'
  BY <1>0, <1>1 DEF QueueOK
<1>3. TypeOK'
  BY <1>2, OwnerAssumption, NoneAssumption
  DEF Invariant, TypeOK, QueueOK, Once, Fated, Serving, Positions, Request, sweep
<1>4. Queued'
  BY <1>1, <1>2, CoroutineFacts
  DEF Invariant, TypeOK, Queued, QueueOK, Waiting, Leaving, Request, sweep
<1>5. Fated' /\ OneSweep'
  BY OwnerAssumption, NoneAssumption
  DEF Invariant, TypeOK, Fated, OneSweep, Swept, Serving, Positions, Early, Leaving,
      Request, sweep
<1>6. Overtaken'
  <2>1. /\ \A e \in Conns : off'[e] \in Leaving /\ registry'[Owner[e]] \in Conns =>
             /\ off'[e] = off[e] /\ Offliner(e) # Sweeper
             /\ registry'[Owner[e]] = registry[Owner[e]]
        /\ \A e \in Conns : pc[e] \in {"announce", "fetch"} =>
             pc'[e] = pc[e] /\ Handler(e) # Sweeper
    BY CoroutineFacts, OwnerAssumption, NoneAssumption
    DEF Invariant, TypeOK, Leaving, Request, sweep
  <2>2. \A j \in Coroutines : j # Sweeper => trips'[j] = trips[j]
    BY <1>1, <1>2 DEF Counted
  <2>3. \A i, j \in Coroutines : Ahead(i, j, dbq) /\ i # Sweeper => Ahead(i, j, dbq')
    BY <1>1, <1>2 DEF OrderKept
  <2>4. dbErrors' = dbErrors
    BY DEF Request, sweep
  <2>5. Sweeper \in Coroutines
    BY <1>1, CoroutineFacts
  <2>. QED BY <1>0, <1>2, <2>1, <2>2, <2>3, <2>4, <2>5, OthersKept DEF Invariant
<1>7. RosterAgrees'
  BY OwnerAssumption, NoneAssumption
  DEF Invariant, TypeOK, RosterAgrees, Announcing, MergeNode, Fated, Leaving, Overtaken,
      Request, sweep
<1>. QED BY <1>3, <1>4, <1>5, <1>6, <1>7 DEF Invariant

\* A request gives up: the future that mark_offline would fail is gone already.
LEMMA RequestTimeoutPreserves ==
  ASSUME Invariant, NEW c \in Conns, RequestTimeout(c)
  PROVE  Invariant'
<1>0. QueueOK
  BY QueueTyped DEF Invariant
<1>1. UNCHANGED <<dbq, trips>>
  BY DEF RequestTimeout, sweep
<1>2. QueueOK'
  BY <1>0, <1>1 DEF QueueOK
<1>3. TypeOK'
  BY <1>2, OwnerAssumption, NoneAssumption
  DEF Invariant, TypeOK, QueueOK, Once, Fated, Serving, Positions, RequestTimeout, sweep
<1>4. Queued'
  BY <1>1, <1>2, CoroutineFacts
  DEF Invariant, TypeOK, Queued, QueueOK, Waiting, Leaving, RequestTimeout, sweep
<1>5. Fated' /\ OneSweep'
  BY OwnerAssumption, NoneAssumption
  DEF Invariant, TypeOK, Fated, OneSweep, Swept, Serving, Positions, Early, Leaving,
      RequestTimeout, sweep
<1>6. Overtaken'
  <2>1. /\ \A e \in Conns : off'[e] \in Leaving /\ registry'[Owner[e]] \in Conns =>
             /\ off'[e] = off[e] /\ Offliner(e) # Sweeper
             /\ registry'[Owner[e]] = registry[Owner[e]]
        /\ \A e \in Conns : pc[e] \in {"announce", "fetch"} =>
             pc'[e] = pc[e] /\ Handler(e) # Sweeper
    BY CoroutineFacts, OwnerAssumption, NoneAssumption
    DEF Invariant, TypeOK, Leaving, RequestTimeout, sweep
  <2>2. \A j \in Coroutines : j # Sweeper => trips'[j] = trips[j]
    BY <1>1, <1>2 DEF Counted
  <2>3. \A i, j \in Coroutines : Ahead(i, j, dbq) /\ i # Sweeper => Ahead(i, j, dbq')
    BY <1>1, <1>2 DEF OrderKept
  <2>4. dbErrors' = dbErrors
    BY DEF RequestTimeout, sweep
  <2>5. Sweeper \in Coroutines
    BY <1>1, CoroutineFacts
  <2>. QED BY <1>0, <1>2, <2>1, <2>2, <2>3, <2>4, <2>5, OthersKept DEF Invariant
<1>7. RosterAgrees'
  BY OwnerAssumption, NoneAssumption
  DEF Invariant, TypeOK, RosterAgrees, Announcing, MergeNode, Fated, Leaving, Overtaken,
      RequestTimeout, sweep
<1>. QED BY <1>3, <1>4, <1>5, <1>6, <1>7 DEF Invariant

\* The hello arrives: the handler begins to wait behind everybody.
LEMMA HelloPreserves ==
  ASSUME Invariant, NEW c \in Conns, Hello(c)
  PROVE  Invariant'
<1>0. QueueOK
  BY QueueTyped DEF Invariant
<1>1. ~In(Handler(c), dbq) /\ AwaitFrom(dbq, Handler(c), ReadTrips) /\ Handler(c) \in Coroutines
  BY CoroutineFacts DEF Invariant, Queued, Waiting, Leaving, Await, Hello, sweep
<1>2. /\ QueueOK' /\ Counted(Handler(c), ReadTrips)
      /\ \A j \in Coroutines : In(j, dbq') <=> In(j, dbq) \/ j = Handler(c)
      /\ \A i, j \in Coroutines : Ahead(i, j, dbq) => Ahead(i, j, dbq')
  BY <1>0, <1>1, Joins DEF ReadTrips, WriteTrips
<1>3. TypeOK'
  BY <1>2, OwnerAssumption, NoneAssumption
  DEF Invariant, TypeOK, QueueOK, Once, Fated, Serving, Positions, Hello, sweep
<1>4. Queued'
  BY <1>1, <1>2, CoroutineFacts
  DEF Invariant, TypeOK, Queued, QueueOK, Waiting, Leaving, Hello, sweep
<1>5. Fated' /\ OneSweep'
  BY OwnerAssumption, NoneAssumption
  DEF Invariant, TypeOK, Fated, OneSweep, Swept, Serving, Positions, Early, Leaving,
      Hello, sweep
<1>6. Overtaken'
  <2>1. /\ \A e \in Conns : off'[e] \in Leaving /\ registry'[Owner[e]] \in Conns =>
             /\ off'[e] = off[e] /\ Offliner(e) # Handler(c)
             /\ registry'[Owner[e]] = registry[Owner[e]]
        /\ \A e \in Conns : pc[e] \in {"announce", "fetch"} =>
             pc'[e] = pc[e] /\ Handler(e) # Handler(c)
    BY CoroutineFacts, OwnerAssumption, NoneAssumption
    DEF Invariant, TypeOK, Leaving, Hello, sweep
  <2>2. \A j \in Coroutines : j # Handler(c) => trips'[j] = trips[j]
    BY <1>1, <1>2 DEF Counted
  <2>3. \A i, j \in Coroutines : Ahead(i, j, dbq) /\ i # Handler(c) => Ahead(i, j, dbq')
    BY <1>1, <1>2 DEF OrderKept
  <2>4. dbErrors' = dbErrors
    BY DEF Hello, sweep
  <2>5. Handler(c) \in Coroutines
    BY <1>1, CoroutineFacts
  <2>. QED BY <1>0, <1>2, <2>1, <2>2, <2>3, <2>4, <2>5, OthersKept DEF Invariant
<1>7. RosterAgrees'
  BY OwnerAssumption, NoneAssumption
  DEF Invariant, TypeOK, RosterAgrees, Announcing, MergeNode, Fated, Leaving, Overtaken,
      Hello, sweep
<1>. QED BY <1>3, <1>4, <1>5, <1>6, <1>7 DEF Invariant

\* The sweep begins a mark_offline, its only one; the id is free before it waits.
LEMMA SweepOfflinePreserves ==
  ASSUME Invariant, NEW c \in Conns, SweepOffline(c)
  PROVE  Invariant'
<1>0. QueueOK
  BY QueueTyped DEF Invariant
<1>1. ~In(Offliner(c), dbq) /\ AwaitFrom(dbq, Offliner(c), WriteTrips) /\ Offliner(c) \in Coroutines
  BY CoroutineFacts
  DEF Invariant, Queued, Waiting, Leaving, Await, SweepOffline, BeginOffline, Owns,
      Sweeping, sweep
<1>2. /\ QueueOK' /\ Counted(Offliner(c), WriteTrips)
      /\ \A j \in Coroutines : In(j, dbq') <=> In(j, dbq) \/ j = Offliner(c)
      /\ \A i, j \in Coroutines : Ahead(i, j, dbq) => Ahead(i, j, dbq')
  BY <1>0, <1>1, Joins DEF ReadTrips, WriteTrips
<1>3. TypeOK'
  <2>1. /\ closed' \in [Conns -> BOOLEAN] /\ snapshot' \subseteq Conns
        /\ off' \in [Conns -> {"no", "touch", "audit", "done", "failed"}]
    BY DEF Invariant, TypeOK, SweepOffline, BeginOffline
  <2>2. /\ registry' \in [Nodes -> Conns \union {None}]
        /\ \A n \in Nodes : registry'[n] # None => registry'[n] = registry[n]
    BY OwnerAssumption DEF Invariant, TypeOK, SweepOffline, BeginOffline
  <2>3. UNCHANGED <<peer, pc, fresh, sweeper, pending, dbErrors, seen, replaced>>
    BY DEF SweepOffline
  <2>. QED BY <1>2, <2>1, <2>2, <2>3 DEF Invariant, TypeOK, QueueOK, Once
<1>4. Queued'
  BY <1>1, <1>2, CoroutineFacts
  DEF Invariant, TypeOK, Queued, QueueOK, Waiting, Leaving, SweepOffline, BeginOffline,
      Owns, Sweeping, sweep
<1>5. Fated' /\ OneSweep'
  <2>1. /\ off[c] = "no" /\ off' = [off EXCEPT ![c] = "touch"]
        /\ registry[Owner[c]] = c /\ registry'[Owner[c]] = None
        /\ \A e \in Conns : Owner[e] # Owner[c] => registry'[Owner[e]] = registry[Owner[e]]
        /\ UNCHANGED <<peer, pc, replaced, pending, sweeper>>
        /\ c \in snapshot /\ ~Sweeping /\ snapshot' \subseteq snapshot
    BY OwnerAssumption DEF Invariant, TypeOK, SweepOffline, BeginOffline, Owns
  <2>2. ~replaced[c] /\ pc[c] \notin Early
    BY <2>1, HolderServes DEF Invariant, Fated, Serving, Early
  <2>3. ASSUME NEW e \in Conns
        PROVE  /\ off'[e] = IF e = c THEN "touch" ELSE off[e]
               /\ registry'[Owner[e]] = e => registry[Owner[e]] = e /\ e # c
               /\ registry[Owner[e]] = e => registry'[Owner[e]] = e \/ e = c
    BY <2>1, OwnerAssumption, NoneAssumption DEF Invariant, TypeOK
  <2>4. Fated'
    BY <2>1, <2>2, <2>3 DEF Invariant, Fated, Leaving
  <2>5. \A e \in Conns : ~Swept(e)
    BY <2>1 DEF Swept, Sweeping, Leaving
  <2>6. OneSweep'
    BY <2>1, <2>3, <2>5 DEF Invariant, OneSweep, Swept
  <2>. QED BY <2>4, <2>6
<1>6. Overtaken'
  <2>1. /\ \A e \in Conns : off'[e] \in Leaving /\ registry'[Owner[e]] \in Conns =>
             /\ off'[e] = off[e] /\ Offliner(e) # Offliner(c)
             /\ registry'[Owner[e]] = registry[Owner[e]]
        /\ \A e \in Conns : pc[e] \in {"announce", "fetch"} =>
             pc'[e] = pc[e] /\ Handler(e) # Offliner(c)
    BY CoroutineFacts, OwnerAssumption, NoneAssumption
    DEF Invariant, TypeOK, Leaving, SweepOffline, BeginOffline, Owns, Sweeping, sweep
  <2>2. \A j \in Coroutines : j # Offliner(c) => trips'[j] = trips[j]
    BY <1>1, <1>2 DEF Counted
  <2>3. \A i, j \in Coroutines : Ahead(i, j, dbq) /\ i # Offliner(c) => Ahead(i, j, dbq')
    BY <1>1, <1>2 DEF OrderKept
  <2>4. dbErrors' = dbErrors
    BY DEF SweepOffline, BeginOffline, Owns, Sweeping, sweep
  <2>5. Offliner(c) \in Coroutines
    BY <1>1, CoroutineFacts
  <2>. QED BY <1>0, <1>2, <2>1, <2>2, <2>3, <2>4, <2>5, OthersKept DEF Invariant
<1>7. RosterAgrees'
  BY OwnerAssumption, NoneAssumption
  DEF Invariant, TypeOK, RosterAgrees, Announcing, MergeNode, Fated, Leaving, Overtaken,
      SweepOffline, BeginOffline, Owns, Sweeping, sweep
<1>. QED BY <1>3, <1>4, <1>5, <1>6, <1>7 DEF Invariant

\* The hello is refused: the handler waits again, and has no state.
LEMMA RefusePreserves ==
  ASSUME Invariant, NEW c \in Conns, Refuse(c)
  PROVE  Invariant'
<1>0. QueueOK
  BY QueueTyped DEF Invariant
<1>1. dbq # <<>> /\ Head(dbq) = Handler(c) /\ AwaitFrom(Tail(dbq), Head(dbq), WriteTrips)
  BY DEF LastTrip, ThenAwait, Refuse, sweep
<1>2. /\ QueueOK' /\ Counted(Head(dbq), WriteTrips) /\ Head(dbq) \in Coroutines /\ In(Head(dbq), dbq)
      /\ \A j \in Coroutines : In(j, dbq') <=> In(j, dbq)
      /\ OrderKept
  BY <1>0, <1>1, Turns, HeadFacts DEF ReadTrips, WriteTrips
<1>3. TypeOK'
  BY <1>2, OwnerAssumption, NoneAssumption
  DEF Invariant, TypeOK, QueueOK, Once, Fated, Serving, Positions, Refuse, sweep
<1>4. Queued'
  BY <1>1, <1>2, CoroutineFacts
  DEF Invariant, TypeOK, Queued, QueueOK, Waiting, Leaving, Refuse, sweep
<1>5. Fated' /\ OneSweep'
  BY OwnerAssumption, NoneAssumption
  DEF Invariant, TypeOK, Fated, OneSweep, Swept, Serving, Positions, Early, Leaving,
      Refuse, sweep
<1>6. Overtaken'
  <2>1. /\ \A e \in Conns : off'[e] \in Leaving /\ registry'[Owner[e]] \in Conns =>
             /\ off'[e] = off[e] /\ Offliner(e) # Handler(c)
             /\ registry'[Owner[e]] = registry[Owner[e]]
        /\ \A e \in Conns : pc[e] \in {"announce", "fetch"} =>
             pc'[e] = pc[e] /\ Handler(e) # Handler(c)
    BY CoroutineFacts, OwnerAssumption, NoneAssumption
    DEF Invariant, TypeOK, Leaving, Refuse, sweep
  <2>2. \A j \in Coroutines : j # Handler(c) => trips'[j] = trips[j]
    BY <1>1, <1>2 DEF Counted
  <2>3. \A i, j \in Coroutines : Ahead(i, j, dbq) /\ i # Handler(c) => Ahead(i, j, dbq')
    BY <1>1, <1>2 DEF OrderKept
  <2>4. dbErrors' = dbErrors
    BY DEF Refuse, sweep
  <2>5. Handler(c) \in Coroutines
    BY <1>1, CoroutineFacts
  <2>. QED BY <1>0, <1>2, <2>1, <2>2, <2>3, <2>4, <2>5, OthersKept DEF Invariant
<1>7. RosterAgrees'
  BY OwnerAssumption, NoneAssumption
  DEF Invariant, TypeOK, RosterAgrees, Announcing, MergeNode, Fated, Leaving, Overtaken,
      Refuse, sweep
<1>. QED BY <1>3, <1>4, <1>5, <1>6, <1>7 DEF Invariant

\* The hello is accepted: the old connection is closed, and still holds the id.
LEMMA SupersedePreserves ==
  ASSUME Invariant, NEW c \in Conns, Supersede(c)
  PROVE  Invariant'
<1>0. QueueOK
  BY QueueTyped DEF Invariant
<1>1. dbq # <<>> /\ Head(dbq) = Handler(c) /\ AwaitFrom(Tail(dbq), Head(dbq), WriteTrips)
  BY DEF LastTrip, ThenAwait, Supersede, sweep
<1>2. /\ QueueOK' /\ Counted(Head(dbq), WriteTrips) /\ Head(dbq) \in Coroutines /\ In(Head(dbq), dbq)
      /\ \A j \in Coroutines : In(j, dbq') <=> In(j, dbq)
      /\ OrderKept
  BY <1>0, <1>1, Turns, HeadFacts DEF ReadTrips, WriteTrips
<1>3. TypeOK'
  BY <1>2, OwnerAssumption, NoneAssumption
  DEF Invariant, TypeOK, QueueOK, Once, Fated, Serving, Positions, Supersede, sweep
<1>4. Queued'
  BY <1>1, <1>2, CoroutineFacts
  DEF Invariant, TypeOK, Queued, QueueOK, Waiting, Leaving, Supersede, sweep
<1>5. Fated' /\ OneSweep'
  BY OwnerAssumption, NoneAssumption
  DEF Invariant, TypeOK, Fated, OneSweep, Swept, Serving, Positions, Early, Leaving,
      Supersede, sweep
<1>6. Overtaken'
  <2>1. /\ \A e \in Conns : off'[e] \in Leaving /\ registry'[Owner[e]] \in Conns =>
             /\ off'[e] = off[e] /\ Offliner(e) # Handler(c)
             /\ registry'[Owner[e]] = registry[Owner[e]]
        /\ \A e \in Conns : pc[e] \in {"announce", "fetch"} =>
             pc'[e] = pc[e] /\ Handler(e) # Handler(c)
    BY CoroutineFacts, OwnerAssumption, NoneAssumption
    DEF Invariant, TypeOK, Leaving, Supersede, sweep
  <2>2. \A j \in Coroutines : j # Handler(c) => trips'[j] = trips[j]
    BY <1>1, <1>2 DEF Counted
  <2>3. \A i, j \in Coroutines : Ahead(i, j, dbq) /\ i # Handler(c) => Ahead(i, j, dbq')
    BY <1>1, <1>2 DEF OrderKept
  <2>4. dbErrors' = dbErrors
    BY DEF Supersede, sweep
  <2>5. Handler(c) \in Coroutines
    BY <1>1, CoroutineFacts
  <2>. QED BY <1>0, <1>2, <2>1, <2>2, <2>3, <2>4, <2>5, OthersKept DEF Invariant
<1>7. RosterAgrees'
  BY OwnerAssumption, NoneAssumption
  DEF Invariant, TypeOK, RosterAgrees, Announcing, MergeNode, Fated, Leaving, Overtaken,
      Supersede, sweep
<1>. QED BY <1>3, <1>4, <1>5, <1>6, <1>7 DEF Invariant

\* A new state takes the id.  Whoever leaves under that id waits already, so its
\* node_down is at most as far away as this node_up, and ahead of it.
LEMMA AddPreserves ==
  ASSUME Invariant, NEW c \in Conns, Add(c)
  PROVE  Invariant'
<1>0. QueueOK
  BY QueueTyped DEF Invariant
<1>1. dbq # <<>> /\ Head(dbq) = Handler(c) /\ AwaitFrom(Tail(dbq), Head(dbq), WriteTrips)
  BY DEF LastTrip, ThenAwait, Add, sweep
<1>2. /\ QueueOK' /\ Counted(Head(dbq), WriteTrips) /\ Head(dbq) \in Coroutines /\ In(Head(dbq), dbq)
      /\ \A j \in Coroutines : In(j, dbq') <=> In(j, dbq)
      /\ OrderKept
  BY <1>0, <1>1, Turns, HeadFacts DEF ReadTrips, WriteTrips
<1>3. TypeOK'
  <2>1. /\ pc' \in [Conns -> Positions] /\ fresh' \in [Conns -> BOOLEAN]
        /\ replaced' \in [Conns -> BOOLEAN]
    BY DEF Invariant, TypeOK, Add, Positions, Serving
  <2>2. /\ registry' \in [Nodes -> Conns \union {None}]
        /\ \A n \in Nodes : registry'[n] = IF n = Owner[c] THEN c ELSE registry[n]
    BY OwnerAssumption DEF Invariant, TypeOK, Add
  <2>3. pc'[c] \in Serving /\ \A e \in Conns : pc[e] \in Serving => pc'[e] \in Serving
    BY DEF Invariant, TypeOK, Add, Serving
  <2>4. \A n \in Nodes :
          registry'[n] # None => Owner[registry'[n]] = n /\ pc'[registry'[n]] \in Serving
    BY <2>2, <2>3 DEF Invariant, TypeOK
  <2>5. UNCHANGED <<peer, closed, off, sweeper, snapshot, pending, dbErrors, seen>>
    BY DEF Add, sweep
  <2>. QED BY <1>2, <2>1, <2>2, <2>4, <2>5 DEF Invariant, TypeOK, QueueOK, Once
<1>4. Queued'
  BY <1>1, <1>2, CoroutineFacts
  DEF Invariant, TypeOK, Queued, QueueOK, Waiting, Leaving, Add, sweep
<1>5. Fated' /\ OneSweep'
  <2>1. /\ pc[c] = "upsert" /\ pc'[c] = "announce"
        /\ \A e \in Conns : e # c => pc'[e] = pc[e]
        /\ registry'[Owner[c]] = c
        /\ \A e \in Conns : Owner[e] # Owner[c] => registry'[Owner[e]] = registry[Owner[e]]
        /\ \A e \in Conns : replaced'[e] <=> replaced[e] \/ e = registry[Owner[c]]
        /\ UNCHANGED <<peer, off, pending, sweeper, snapshot>>
    BY OwnerAssumption DEF Invariant, TypeOK, Add, sweep
  <2>2. off[c] = "no" /\ ~replaced[c] /\ registry[Owner[c]] # c /\ peer[c] # "idle"
    BY <2>1, HolderServes DEF Invariant, Fated, Serving, Early
  <2>3. ASSUME NEW e \in Conns, e # c
        PROVE  /\ replaced'[e] => replaced[e] \/ (registry[Owner[e]] = e /\ Owner[e] = Owner[c])
               /\ replaced[e] => replaced'[e]
               /\ registry'[Owner[e]] = e => registry[Owner[e]] = e /\ Owner[e] # Owner[c]
               /\ registry[Owner[e]] = e => registry'[Owner[e]] = e \/ replaced'[e]
    BY <2>1, <2>3, OwnerAssumption, NoneAssumption DEF Invariant, TypeOK
  <2>4. ASSUME NEW e \in Conns, e # c, registry[Owner[e]] = e
        PROVE  off[e] = "no" /\ ~replaced[e] /\ pc[e] \notin Early
    BY <2>4, HolderServes DEF Invariant, Fated, Serving, Early
  <2>5. ASSUME NEW e \in Conns
        PROVE  /\ peer'[e] = "idle" => pc'[e] = "none"
               /\ registry'[Owner[e]] = e => off'[e] = "no" /\ ~replaced'[e]
               /\ off'[e] # "no" => ~replaced'[e]
               /\ pc'[e] \in Early => off'[e] = "no" /\ ~replaced'[e]
               /\ pc'[e] \in Serving => registry'[Owner[e]] = e \/ replaced'[e] \/ off'[e] # "no"
               /\ pc'[e] = "ending" => off'[e] \in Leaving
               /\ off'[e] \in {"audit", "done"} => ~pending'[e]
    <3>1. CASE e = c
      BY <2>1, <2>2, <3>1, NoneAssumption, OwnerAssumption
      DEF Invariant, TypeOK, Fated, Early
    <3>2. CASE e # c
      BY <2>1, <2>3, <2>4, <3>2 DEF Invariant, Fated
    <3>. QED BY <3>1, <3>2
  <2>6. Fated'
    BY <2>5 DEF Fated
  <2>7. OneSweep'
    BY <2>1, <2>2 DEF Invariant, OneSweep, Swept, Leaving
  <2>. QED BY <2>6, <2>7
<1>6. Overtaken'
  <2>. SUFFICES ASSUME dbErrors = 0, NEW e \in Conns, NEW d \in Conns,
                       off[e] \in Leaving, registry'[Owner[e]] = d
                PROVE  pc'[d] \in {"announce", "fetch"} /\ DownFirst(e, d)'
    BY DEF Overtaken, Add
  <2>1. /\ pc[c] = "upsert" /\ pc' = [pc EXCEPT ![c] = "announce"]
        /\ pc \in [Conns -> Positions] /\ UNCHANGED off
        /\ registry' = [registry EXCEPT ![Owner[c]] = c]
        /\ registry \in [Nodes -> Conns \union {None}]
    BY DEF Invariant, TypeOK, Add
  <2>2. /\ Offliner(e) \in Coroutines /\ Offliner(e) # Handler(c)
        /\ trips'[Offliner(e)] = trips[Offliner(e)]
        /\ trips[Offliner(e)] \in 0..ReadTrips
    BY <1>0, <1>1, <1>2, CoroutineFacts DEF Counted, QueueOK
  <2>3. CASE Owner[e] = Owner[c]
    <3>1. d = c /\ pc'[d] = "announce" /\ trips'[Handler(d)] = WriteTrips
      BY <1>1, <1>2, <2>1, <2>3, OwnerAssumption DEF Counted
    <3>2. Ahead(Offliner(e), Handler(d), dbq')
      <4>1. In(Offliner(e), dbq)
        BY <2>2 DEF Invariant, Queued
      <4>. QED BY <1>0, <1>1, <1>2, <2>2, <3>1, <4>1, Turns DEF WriteTrips, ReadTrips
    <3>3. UntilDown(e)' <= 5 /\ UntilDown(e)' \in Nat /\ UntilUp(d)' = 5
      BY <2>1, <2>2, <3>1 DEF UntilDown, UntilUp, WriteTrips, ReadTrips
    <3>. QED BY <3>1, <3>2, <3>3 DEF DownFirst
  <2>4. CASE Owner[e] # Owner[c]
    <3>1. registry[Owner[e]] = d
      BY <2>1, <2>4, OwnerAssumption
    <3>2. pc[d] \in {"announce", "fetch"} /\ DownFirst(e, d)
      BY <3>1 DEF Invariant, Overtaken
    <3>3. d # c /\ pc'[d] = pc[d]
      BY <2>1, <3>2
    <3>4. Handler(d) \in Coroutines /\ Handler(d) # Handler(c)
      BY <3>3, CoroutineFacts
    <3>5. trips'[Handler(d)] = trips[Handler(d)]
      BY <1>1, <1>2, <3>4 DEF Counted
    <3>6. Ahead(Offliner(e), Handler(d), dbq) => Ahead(Offliner(e), Handler(d), dbq')
      BY <1>1, <1>2, <2>2, <3>4 DEF OrderKept
    <3>. QED BY <2>1, <2>2, <3>2, <3>3, <3>5, <3>6 DEF DownFirst, UntilDown, UntilUp
  <2>. QED BY <2>3, <2>4
<1>7. RosterAgrees'
  BY OwnerAssumption, NoneAssumption
  DEF Invariant, TypeOK, RosterAgrees, Announcing, MergeNode, Fated, Leaving, Overtaken,
      Add, sweep
<1>. QED BY <1>3, <1>4, <1>5, <1>6, <1>7 DEF Invariant

\* The node_up is audited and its row read back: the same round trips are left, but one.
LEMMA FetchPreserves ==
  ASSUME Invariant, NEW c \in Conns, Fetch(c)
  PROVE  Invariant'
<1>0. QueueOK
  BY QueueTyped DEF Invariant
<1>1. dbq # <<>> /\ Head(dbq) = Handler(c) /\ AwaitFrom(Tail(dbq), Head(dbq), ReadTrips)
  BY DEF LastTrip, ThenAwait, Fetch, sweep
<1>2. /\ QueueOK' /\ Counted(Head(dbq), ReadTrips) /\ Head(dbq) \in Coroutines /\ In(Head(dbq), dbq)
      /\ \A j \in Coroutines : In(j, dbq') <=> In(j, dbq)
      /\ OrderKept
  BY <1>0, <1>1, Turns, HeadFacts DEF ReadTrips, WriteTrips
<1>3. TypeOK'
  BY <1>2, OwnerAssumption, NoneAssumption
  DEF Invariant, TypeOK, QueueOK, Once, Fated, Serving, Positions, Fetch, sweep
<1>4. Queued'
  BY <1>1, <1>2, CoroutineFacts
  DEF Invariant, TypeOK, Queued, QueueOK, Waiting, Leaving, Fetch, sweep
<1>5. Fated' /\ OneSweep'
  BY OwnerAssumption, NoneAssumption
  DEF Invariant, TypeOK, Fated, OneSweep, Swept, Serving, Positions, Early, Leaving,
      Fetch, sweep
<1>6. Overtaken'
  BY <1>0, <1>1, <1>2, CoroutineFacts, TurnKeeps
  DEF Invariant, TypeOK, Leaving, Counted, UntilDown, UntilUp, ReadTrips, WriteTrips,
      LastTrip, Fetch, sweep
<1>7. RosterAgrees'
  BY OwnerAssumption, NoneAssumption
  DEF Invariant, TypeOK, RosterAgrees, Announcing, MergeNode, Fated, Leaving, Overtaken,
      Fetch, sweep
<1>. QED BY <1>3, <1>4, <1>5, <1>6, <1>7 DEF Invariant

\* The row is touched and the request failed: the same round trips are left, but one.
LEMMA FailPendingPreserves ==
  ASSUME Invariant, NEW c \in Conns, FailPending(c)
  PROVE  Invariant'
<1>0. QueueOK
  BY QueueTyped DEF Invariant
<1>1. dbq # <<>> /\ Head(dbq) = Offliner(c) /\ AwaitFrom(Tail(dbq), Head(dbq), WriteTrips)
  BY DEF LastTrip, ThenAwait, FailPending, sweep
<1>2. /\ QueueOK' /\ Counted(Head(dbq), WriteTrips) /\ Head(dbq) \in Coroutines /\ In(Head(dbq), dbq)
      /\ \A j \in Coroutines : In(j, dbq') <=> In(j, dbq)
      /\ OrderKept
  BY <1>0, <1>1, Turns, HeadFacts DEF ReadTrips, WriteTrips
<1>3. TypeOK'
  BY <1>2, OwnerAssumption, NoneAssumption
  DEF Invariant, TypeOK, QueueOK, Once, Fated, Serving, Positions, FailPending, sweep
<1>4. Queued'
  BY <1>1, <1>2, CoroutineFacts
  DEF Invariant, TypeOK, Queued, QueueOK, Waiting, Leaving, FailPending, sweep
<1>5. Fated' /\ OneSweep'
  BY OwnerAssumption, NoneAssumption
  DEF Invariant, TypeOK, Fated, OneSweep, Swept, Serving, Positions, Early, Leaving,
      FailPending, sweep
<1>6. Overtaken'
  BY <1>0, <1>1, <1>2, CoroutineFacts, TurnKeeps
  DEF Invariant, TypeOK, Leaving, Counted, UntilDown, UntilUp, ReadTrips, WriteTrips,
      LastTrip, FailPending, sweep
<1>7. RosterAgrees'
  BY OwnerAssumption, NoneAssumption
  DEF Invariant, TypeOK, RosterAgrees, Announcing, MergeNode, Fated, Leaving, Overtaken,
      FailPending, sweep
<1>. QED BY <1>3, <1>4, <1>5, <1>6, <1>7 DEF Invariant

\* A call of a registered handler raises: RosterAgrees says nothing from now on.
LEMMA RaisePreserves ==
  ASSUME Invariant, NEW c \in Conns, Raise(c)
  PROVE  Invariant'
<1>0. QueueOK
  BY QueueTyped DEF Invariant
<1>1. dbq # <<>> /\ Head(dbq) = Handler(c) /\ AwaitFrom(Tail(dbq), Head(dbq), WriteTrips)
  BY DEF LastTrip, ThenAwait, Raise, sweep, DbFails
<1>2. /\ QueueOK' /\ Counted(Head(dbq), WriteTrips) /\ Head(dbq) \in Coroutines /\ In(Head(dbq), dbq)
      /\ \A j \in Coroutines : In(j, dbq') <=> In(j, dbq)
      /\ OrderKept
  BY <1>0, <1>1, Turns, HeadFacts DEF ReadTrips, WriteTrips
<1>3. TypeOK'
  BY <1>2, OwnerAssumption, NoneAssumption, BoundsAssumption
  DEF Invariant, TypeOK, QueueOK, Once, Fated, Serving, Positions, Raise, sweep, DbFails
<1>4. Queued'
  BY <1>1, <1>2, CoroutineFacts
  DEF Invariant, TypeOK, Queued, QueueOK, Waiting, Leaving, Raise, sweep, DbFails
<1>5. Fated' /\ OneSweep'
  BY OwnerAssumption, NoneAssumption
  DEF Invariant, TypeOK, Fated, OneSweep, Swept, Serving, Positions, Early, Leaving,
      Raise, sweep, DbFails
<1>6. Overtaken'
  BY DEF Invariant, TypeOK, Overtaken, DbFails, Raise
<1>7. RosterAgrees'
  BY OwnerAssumption, NoneAssumption
  DEF Invariant, TypeOK, RosterAgrees, Announcing, MergeNode, Fated, Leaving, Overtaken,
      Raise, sweep, DbFails
<1>. QED BY <1>3, <1>4, <1>5, <1>6, <1>7 DEF Invariant

\* A call of a handler without a state raises: it will end without having had one.
LEMMA RaiseUnregisteredPreserves ==
  ASSUME Invariant, NEW c \in Conns, RaiseUnregistered(c)
  PROVE  Invariant'
<1>0. QueueOK
  BY QueueTyped DEF Invariant
<1>1. dbq # <<>> /\ Head(dbq) = Handler(c) /\ AwaitFrom(Tail(dbq), Head(dbq), WriteTrips)
  BY DEF LastTrip, ThenAwait, RaiseUnregistered, sweep, DbFails
<1>2. /\ QueueOK' /\ Counted(Head(dbq), WriteTrips) /\ Head(dbq) \in Coroutines /\ In(Head(dbq), dbq)
      /\ \A j \in Coroutines : In(j, dbq') <=> In(j, dbq)
      /\ OrderKept
  BY <1>0, <1>1, Turns, HeadFacts DEF ReadTrips, WriteTrips
<1>3. TypeOK'
  BY <1>2, OwnerAssumption, NoneAssumption, BoundsAssumption
  DEF Invariant, TypeOK, QueueOK, Once, Fated, Serving, Positions, RaiseUnregistered,
      sweep, DbFails
<1>4. Queued'
  BY <1>1, <1>2, CoroutineFacts
  DEF Invariant, TypeOK, Queued, QueueOK, Waiting, Leaving, RaiseUnregistered, sweep,
      DbFails
<1>5. Fated' /\ OneSweep'
  BY OwnerAssumption, NoneAssumption
  DEF Invariant, TypeOK, Fated, OneSweep, Swept, Serving, Positions, Early, Leaving,
      RaiseUnregistered, sweep, DbFails
<1>6. Overtaken'
  BY DEF Invariant, TypeOK, Overtaken, DbFails, RaiseUnregistered
<1>7. RosterAgrees'
  BY OwnerAssumption, NoneAssumption
  DEF Invariant, TypeOK, RosterAgrees, Announcing, MergeNode, Fated, Leaving, Overtaken,
      RaiseUnregistered, sweep, DbFails
<1>. QED BY <1>3, <1>4, <1>5, <1>6, <1>7 DEF Invariant

\* The database does a round trip of the head, which goes to the back for its next.
LEMMA DbRoundPreserves ==
  ASSUME Invariant, DbRound
  PROVE  Invariant'
<1>0. QueueOK
  BY QueueTyped DEF Invariant
<1>1. dbq # <<>> /\ AwaitFrom(Tail(dbq), Head(dbq), trips[Head(dbq)] - 1)
  BY DEF LastTrip, ThenAwait, DbRound, sweep
<1>2. /\ QueueOK' /\ Counted(Head(dbq), trips[Head(dbq)] - 1) /\ Head(dbq) \in Coroutines /\ In(Head(dbq), dbq)
      /\ \A j \in Coroutines : In(j, dbq') <=> In(j, dbq)
      /\ OrderKept
  BY <1>0, <1>1, Turns, HeadFacts DEF ReadTrips, WriteTrips, QueueOK, DbRound
<1>3. TypeOK'
  BY <1>2, OwnerAssumption, NoneAssumption
  DEF Invariant, TypeOK, QueueOK, Once, Fated, Serving, Positions, DbRound, sweep
<1>4. Queued'
  BY <1>1, <1>2, CoroutineFacts
  DEF Invariant, TypeOK, Queued, QueueOK, Waiting, Leaving, DbRound, sweep
<1>5. Fated' /\ OneSweep'
  BY OwnerAssumption, NoneAssumption
  DEF Invariant, TypeOK, Fated, OneSweep, Swept, Serving, Positions, Early, Leaving,
      DbRound, sweep
<1>6. Overtaken'
  BY <1>0, <1>1, <1>2, CoroutineFacts, TurnKeeps
  DEF Invariant, TypeOK, Leaving, Counted, UntilDown, UntilUp, ReadTrips, WriteTrips,
      LastTrip, DbRound, sweep
<1>7. RosterAgrees'
  BY OwnerAssumption, NoneAssumption
  DEF Invariant, TypeOK, RosterAgrees, Announcing, MergeNode, Fated, Leaving, Overtaken,
      DbRound, sweep
<1>. QED BY <1>3, <1>4, <1>5, <1>6, <1>7 DEF Invariant

\* A refused connection ends without ever having had a state.
LEMMA EndPreserves ==
  ASSUME Invariant, NEW c \in Conns, End(c)
  PROVE  Invariant'
<1>0. QueueOK
  BY QueueTyped DEF Invariant
<1>1. dbq # <<>> /\ Head(dbq) = Handler(c) /\ ThenNothing(Head(dbq))
  BY DEF LastTrip, End, sweep
<1>2. /\ QueueOK' /\ Head(dbq) \in Coroutines
      /\ \A j \in Coroutines : j # Head(dbq) => trips'[j] = trips[j]
      /\ \A j \in Coroutines : In(j, dbq') <=> In(j, dbq) /\ j # Head(dbq)
      /\ OrderKept
  BY <1>0, <1>1, Exits, HeadFacts
<1>3. TypeOK'
  BY <1>2, OwnerAssumption, NoneAssumption
  DEF Invariant, TypeOK, QueueOK, Once, Fated, Serving, Positions, End, sweep
<1>4. Queued'
  BY <1>1, <1>2, CoroutineFacts
  DEF Invariant, TypeOK, Queued, QueueOK, Waiting, Leaving, End, sweep
<1>5. Fated' /\ OneSweep'
  BY OwnerAssumption, NoneAssumption
  DEF Invariant, TypeOK, Fated, OneSweep, Swept, Serving, Positions, Early, Leaving, End,
      sweep
<1>6. Overtaken'
  <2>1. /\ \A e \in Conns : off'[e] \in Leaving /\ registry'[Owner[e]] \in Conns =>
             /\ off'[e] = off[e] /\ Offliner(e) # Handler(c)
             /\ registry'[Owner[e]] = registry[Owner[e]]
        /\ \A e \in Conns : pc[e] \in {"announce", "fetch"} =>
             pc'[e] = pc[e] /\ Handler(e) # Handler(c)
    BY CoroutineFacts, OwnerAssumption, NoneAssumption
    DEF Invariant, TypeOK, Leaving, End, sweep
  <2>2. \A j \in Coroutines : j # Handler(c) => trips'[j] = trips[j]
    BY <1>1, <1>2 DEF Counted
  <2>3. \A i, j \in Coroutines : Ahead(i, j, dbq) /\ i # Handler(c) => Ahead(i, j, dbq')
    BY <1>1, <1>2 DEF OrderKept
  <2>4. dbErrors' = dbErrors
    BY DEF End, sweep
  <2>5. Handler(c) \in Coroutines
    BY <1>1, CoroutineFacts
  <2>. QED BY <1>0, <1>2, <2>1, <2>2, <2>3, <2>4, <2>5, OthersKept DEF Invariant
<1>7. RosterAgrees'
  BY OwnerAssumption, NoneAssumption
  DEF Invariant, TypeOK, RosterAgrees, Announcing, MergeNode, Fated, Leaving, Overtaken,
      End, sweep
<1>. QED BY <1>3, <1>4, <1>5, <1>6, <1>7 DEF Invariant

\* The node_up is broadcast.  A node_down under the same id came before it: the head
\* of the queue has nobody ahead, and the others have a round trip left.
LEMMA AnnouncePreserves ==
  ASSUME Invariant, NEW c \in Conns, Announce(c)
  PROVE  Invariant'
<1>0. QueueOK
  BY QueueTyped DEF Invariant
<1>1. dbq # <<>> /\ Head(dbq) = Handler(c) /\ ThenNothing(Head(dbq))
  BY DEF LastTrip, Announce, MergeNode, sweep
<1>2. /\ QueueOK' /\ Head(dbq) \in Coroutines
      /\ \A j \in Coroutines : j # Head(dbq) => trips'[j] = trips[j]
      /\ \A j \in Coroutines : In(j, dbq') <=> In(j, dbq) /\ j # Head(dbq)
      /\ OrderKept
  BY <1>0, <1>1, Exits, HeadFacts
<1>3. TypeOK'
  <2>1. pc' \in [Conns -> Positions] /\ seen' \in [Nodes -> {"online", "offline"}]
    BY OwnerAssumption DEF Invariant, TypeOK, Announce, MergeNode, Positions, Serving
  <2>2. \A e \in Conns : pc[e] \in Serving => pc'[e] \in Serving
    BY DEF Invariant, TypeOK, Announce, Serving
  <2>3. UNCHANGED <<peer, closed, registry, fresh, off, sweeper, snapshot, pending, dbErrors,
                    replaced>>
    BY DEF Announce, sweep
  <2>4. \A n \in Nodes :
          registry'[n] # None => Owner[registry'[n]] = n /\ pc'[registry'[n]] \in Serving
    BY <2>2, <2>3 DEF Invariant, TypeOK
  <2>. QED BY <1>2, <2>1, <2>3, <2>4 DEF Invariant, TypeOK, QueueOK, Once
<1>4. Queued'
  BY <1>1, <1>2, CoroutineFacts
  DEF Invariant, TypeOK, Queued, QueueOK, Waiting, Leaving, Announce, MergeNode, sweep
<1>5. Fated' /\ OneSweep'
  BY OwnerAssumption, NoneAssumption
  DEF Invariant, TypeOK, Fated, OneSweep, Swept, Serving, Positions, Early, Leaving,
      Announce, MergeNode, sweep
<1>6. Overtaken'
  <2>. SUFFICES ASSUME dbErrors = 0, NEW e \in Conns, NEW d \in Conns,
                       off[e] \in Leaving, registry[Owner[e]] = d
                PROVE  pc'[d] \in {"announce", "fetch"} /\ DownFirst(e, d)'
    BY DEF Overtaken, Announce
  <2>1. pc[d] \in {"announce", "fetch"} /\ DownFirst(e, d)
    BY DEF Invariant, Overtaken
  <2>2. /\ pc[c] = "fetch" /\ trips[Handler(c)] = 1 /\ UNCHANGED off
        /\ \A f \in Conns : f # c => pc'[f] = pc[f]
    BY DEF Invariant, TypeOK, Announce, LastTrip
  <2>3. /\ Offliner(e) \in Coroutines /\ Handler(d) \in Coroutines
        /\ Offliner(e) # Handler(c) /\ (d # c => Handler(d) # Handler(c))
    BY CoroutineFacts
  <2>4. d # c
    <3>. SUFFICES ASSUME d = c PROVE FALSE
      OBVIOUS
    <3>1. ~Ahead(Offliner(e), Handler(d), dbq)
      BY <1>0, <1>1, HeadFacts
    <3>2. trips[Offliner(e)] \in 1..ReadTrips
      BY <1>0, <2>3 DEF Invariant, Queued, QueueOK, ReadTrips
    <3>. QED BY <2>1, <2>2, <3>1, <3>2
    DEF DownFirst, UntilDown, UntilUp, WriteTrips, ReadTrips
  <2>5. trips'[Offliner(e)] = trips[Offliner(e)] /\ trips'[Handler(d)] = trips[Handler(d)]
    BY <1>1, <1>2, <2>3, <2>4
  <2>6. Ahead(Offliner(e), Handler(d), dbq) => Ahead(Offliner(e), Handler(d), dbq')
    BY <1>1, <1>2, <2>3 DEF OrderKept
  <2>. QED BY <2>1, <2>2, <2>4, <2>5, <2>6 DEF DownFirst, UntilDown, UntilUp
<1>7. RosterAgrees'
  BY OwnerAssumption, NoneAssumption
  DEF Invariant, TypeOK, RosterAgrees, Announcing, MergeNode, Fated, Leaving, Overtaken,
      Announce, sweep
<1>. QED BY <1>3, <1>4, <1>5, <1>6, <1>7 DEF Invariant

\* The node_down is broadcast.  Whoever holds the id by now is still to announce itself,
\* so nobody is left with a wrong last word.
LEMMA AnnounceDownPreserves ==
  ASSUME Invariant, NEW c \in Conns, AnnounceDown(c)
  PROVE  Invariant'
<1>0. QueueOK
  BY QueueTyped DEF Invariant
<1>1. dbq # <<>> /\ Head(dbq) = Offliner(c) /\ ThenNothing(Head(dbq))
  BY DEF LastTrip, AnnounceDown, HandlerAfter, sweep
<1>2. /\ QueueOK' /\ Head(dbq) \in Coroutines
      /\ \A j \in Coroutines : j # Head(dbq) => trips'[j] = trips[j]
      /\ \A j \in Coroutines : In(j, dbq') <=> In(j, dbq) /\ j # Head(dbq)
      /\ OrderKept
  BY <1>0, <1>1, Exits, HeadFacts
<1>3. TypeOK'
  <2>1. /\ pc' \in [Conns -> Positions] /\ seen' \in [Nodes -> {"online", "offline"}]
        /\ off' \in [Conns -> {"no", "touch", "audit", "done", "failed"}]
    BY OwnerAssumption
    DEF Invariant, TypeOK, AnnounceDown, HandlerAfter, Positions, Serving
  <2>2. \A e \in Conns : pc[e] \in Serving => pc'[e] \in Serving
    BY DEF Invariant, TypeOK, AnnounceDown, HandlerAfter, Serving
  <2>3. UNCHANGED <<peer, closed, registry, fresh, sweeper, snapshot, pending, dbErrors,
                    replaced>>
    BY DEF AnnounceDown, sweep
  <2>4. \A n \in Nodes :
          registry'[n] # None => Owner[registry'[n]] = n /\ pc'[registry'[n]] \in Serving
    BY <2>2, <2>3 DEF Invariant, TypeOK
  <2>. QED BY <1>2, <2>1, <2>3, <2>4 DEF Invariant, TypeOK, QueueOK, Once
<1>4. Queued'
  BY <1>1, <1>2, CoroutineFacts
  DEF Invariant, TypeOK, Queued, QueueOK, Waiting, Leaving, AnnounceDown, HandlerAfter,
      sweep
<1>5. Fated' /\ OneSweep'
  BY OwnerAssumption, NoneAssumption
  DEF Invariant, TypeOK, Fated, OneSweep, Swept, Serving, Positions, Early, Leaving,
      AnnounceDown, HandlerAfter, sweep
<1>6. Overtaken'
  <2>1. /\ \A e \in Conns : off'[e] \in Leaving /\ registry'[Owner[e]] \in Conns =>
             /\ off'[e] = off[e] /\ Offliner(e) # Offliner(c)
             /\ registry'[Owner[e]] = registry[Owner[e]]
        /\ \A e \in Conns : pc[e] \in {"announce", "fetch"} =>
             pc'[e] = pc[e] /\ Handler(e) # Offliner(c)
    BY CoroutineFacts, OwnerAssumption, NoneAssumption
    DEF Invariant, TypeOK, Leaving, AnnounceDown, HandlerAfter, sweep
  <2>2. \A j \in Coroutines : j # Offliner(c) => trips'[j] = trips[j]
    BY <1>1, <1>2 DEF Counted
  <2>3. \A i, j \in Coroutines : Ahead(i, j, dbq) /\ i # Offliner(c) => Ahead(i, j, dbq')
    BY <1>1, <1>2 DEF OrderKept
  <2>4. dbErrors' = dbErrors
    BY DEF AnnounceDown, HandlerAfter, sweep
  <2>5. Offliner(c) \in Coroutines
    BY <1>1, CoroutineFacts
  <2>. QED BY <1>0, <1>2, <2>1, <2>2, <2>3, <2>4, <2>5, OthersKept DEF Invariant
<1>7. RosterAgrees'
  <2>. SUFFICES ASSUME NEW n \in Nodes, ~Announcing(n)', dbErrors = 0
                PROVE  seen'[n] = MergeNode(n)'
    BY DEF RosterAgrees, AnnounceDown
  <2>1. /\ off[c] = "audit" /\ off' = [off EXCEPT ![c] = "done"]
        /\ seen' = [seen EXCEPT ![Owner[c]] = "offline"]
        /\ UNCHANGED registry
        /\ \A e \in Conns : pc[e] \in {"announce", "fetch"} => pc'[e] = pc[e]
    BY DEF Invariant, TypeOK, AnnounceDown, HandlerAfter
  <2>2. CASE n = Owner[c]
    <3>1. registry[n] = None
      <4>. SUFFICES ASSUME registry[n] # None PROVE FALSE
        OBVIOUS
      <4>1. PICK d \in Conns : registry[n] = d /\ Owner[d] = n
        BY DEF Invariant, TypeOK
      <4>2. pc[d] \in {"announce", "fetch"}
        BY <2>1, <2>2, <4>1 DEF Invariant, Overtaken, Leaving
      <4>. QED BY <2>1, <4>1, <4>2 DEF Announcing
    <3>. QED BY <2>1, <2>2, <3>1 DEF Invariant, TypeOK, MergeNode
  <2>3. CASE n # Owner[c]
    <3>1. ~Announcing(n)
      BY <2>1, <2>3 DEF Invariant, TypeOK, Announcing
    <3>. QED BY <2>1, <2>3, <3>1 DEF Invariant, TypeOK, RosterAgrees, MergeNode
  <2>. QED BY <2>2, <2>3
<1>. QED BY <1>3, <1>4, <1>5, <1>6, <1>7 DEF Invariant

\* The sweep's error is audited: it begins anew with an empty snapshot.
LEMMA SweepErredPreserves ==
  ASSUME Invariant, SweepErred
  PROVE  Invariant'
<1>0. QueueOK
  BY QueueTyped DEF Invariant
<1>1. dbq # <<>> /\ Head(dbq) = Sweeper /\ ThenNothing(Head(dbq))
  BY DEF LastTrip, SweepErred, sweep
<1>2. /\ QueueOK' /\ Head(dbq) \in Coroutines
      /\ \A j \in Coroutines : j # Head(dbq) => trips'[j] = trips[j]
      /\ \A j \in Coroutines : In(j, dbq') <=> In(j, dbq) /\ j # Head(dbq)
      /\ OrderKept
  BY <1>0, <1>1, Exits, HeadFacts
<1>3. TypeOK'
  BY <1>2, OwnerAssumption, NoneAssumption
  DEF Invariant, TypeOK, QueueOK, Once, Fated, Serving, Positions, SweepErred, sweep
<1>4. Queued'
  BY <1>1, <1>2, CoroutineFacts
  DEF Invariant, TypeOK, Queued, QueueOK, Waiting, Leaving, SweepErred, sweep
<1>5. Fated' /\ OneSweep'
  BY OwnerAssumption, NoneAssumption
  DEF Invariant, TypeOK, Fated, OneSweep, Swept, Serving, Positions, Early, Leaving,
      SweepErred, sweep
<1>6. Overtaken'
  <2>1. /\ \A e \in Conns : off'[e] \in Leaving /\ registry'[Owner[e]] \in Conns =>
             /\ off'[e] = off[e] /\ Offliner(e) # Sweeper
             /\ registry'[Owner[e]] = registry[Owner[e]]
        /\ \A e \in Conns : pc[e] \in {"announce", "fetch"} =>
             pc'[e] = pc[e] /\ Handler(e) # Sweeper
    BY CoroutineFacts, OwnerAssumption, NoneAssumption
    DEF Invariant, TypeOK, Leaving, SweepErred, sweep
  <2>2. \A j \in Coroutines : j # Sweeper => trips'[j] = trips[j]
    BY <1>1, <1>2 DEF Counted
  <2>3. \A i, j \in Coroutines : Ahead(i, j, dbq) /\ i # Sweeper => Ahead(i, j, dbq')
    BY <1>1, <1>2 DEF OrderKept
  <2>4. dbErrors' = dbErrors
    BY DEF SweepErred, sweep
  <2>5. Sweeper \in Coroutines
    BY <1>1, CoroutineFacts
  <2>. QED BY <1>0, <1>2, <2>1, <2>2, <2>3, <2>4, <2>5, OthersKept DEF Invariant
<1>7. RosterAgrees'
  BY OwnerAssumption, NoneAssumption
  DEF Invariant, TypeOK, RosterAgrees, Announcing, MergeNode, Fated, Leaving, Overtaken,
      SweepErred, sweep
<1>. QED BY <1>3, <1>4, <1>5, <1>6, <1>7 DEF Invariant

\* The sweep's audit raises too: the task ends, awaiting no mark_offline.
LEMMA SweepDiesPreserves ==
  ASSUME Invariant, SweepDies
  PROVE  Invariant'
<1>0. QueueOK
  BY QueueTyped DEF Invariant
<1>1. dbq # <<>> /\ Head(dbq) = Sweeper /\ ThenNothing(Head(dbq))
  BY DEF LastTrip, SweepDies, sweep
<1>2. /\ QueueOK' /\ Head(dbq) \in Coroutines
      /\ \A j \in Coroutines : j # Head(dbq) => trips'[j] = trips[j]
      /\ \A j \in Coroutines : In(j, dbq') <=> In(j, dbq) /\ j # Head(dbq)
      /\ OrderKept
  BY <1>0, <1>1, Exits, HeadFacts
<1>3. TypeOK'
  BY <1>2, OwnerAssumption, NoneAssumption
  DEF Invariant, TypeOK, QueueOK, Once, Fated, Serving, Positions, SweepDies, sweep
<1>4. Queued'
  BY <1>1, <1>2, CoroutineFacts
  DEF Invariant, TypeOK, Queued, QueueOK, Waiting, Leaving, SweepDies, sweep
<1>5. Fated' /\ OneSweep'
  BY OwnerAssumption, NoneAssumption
  DEF Invariant, TypeOK, Fated, OneSweep, Swept, Serving, Positions, Early, Leaving,
      SweepDies, sweep
<1>6. Overtaken'
  <2>1. /\ \A e \in Conns : off'[e] \in Leaving /\ registry'[Owner[e]] \in Conns =>
             /\ off'[e] = off[e] /\ Offliner(e) # Sweeper
             /\ registry'[Owner[e]] = registry[Owner[e]]
        /\ \A e \in Conns : pc[e] \in {"announce", "fetch"} =>
             pc'[e] = pc[e] /\ Handler(e) # Sweeper
    BY CoroutineFacts, OwnerAssumption, NoneAssumption
    DEF Invariant, TypeOK, Leaving, SweepDies, sweep
  <2>2. \A j \in Coroutines : j # Sweeper => trips'[j] = trips[j]
    BY <1>1, <1>2 DEF Counted
  <2>3. \A i, j \in Coroutines : Ahead(i, j, dbq) /\ i # Sweeper => Ahead(i, j, dbq')
    BY <1>1, <1>2 DEF OrderKept
  <2>4. dbErrors' = dbErrors
    BY DEF SweepDies, sweep
  <2>5. Sweeper \in Coroutines
    BY <1>1, CoroutineFacts
  <2>. QED BY <1>0, <1>2, <2>1, <2>2, <2>3, <2>4, <2>5, OthersKept DEF Invariant
<1>7. RosterAgrees'
  BY OwnerAssumption, NoneAssumption
  DEF Invariant, TypeOK, RosterAgrees, Announcing, MergeNode, Fated, Leaving, Overtaken,
      SweepDies, sweep
<1>. QED BY <1>3, <1>4, <1>5, <1>6, <1>7 DEF Invariant

\* handle_connection's finally, whoever is served meanwhile: the connection that
\* holds its id is taken offline, another one just ends.
LEMMA FinallyKeeps ==
  ASSUME Invariant, NEW c \in Conns, pc[c] \in {"loop", "erring"}, NEW q, Finally(c, q),
         UNCHANGED dbErrors, QueueOK'
  PROVE  TypeOK' /\ Fated' /\ OneSweep' /\ RosterAgrees'
<1>1. UNCHANGED <<peer, fresh, sweeper, snapshot, pending, seen, replaced, dbErrors>>
  BY DEF Finally, sweep
<1>2. /\ closed' \in [Conns -> BOOLEAN]
      /\ pc' \in [Conns -> Positions] /\ pc'[c] \in {"ending", "done"}
      /\ \A e \in Conns : e # c => pc'[e] = pc[e]
      /\ off' \in [Conns -> {"no", "touch", "audit", "done", "failed"}]
      /\ registry' \in [Nodes -> Conns \union {None}]
      /\ \A e \in Conns : e # c => off'[e] = off[e]
      /\ \A n \in Nodes : n # Owner[c] => registry'[n] = registry[n]
  <2>1. /\ closed' = [closed EXCEPT ![c] = TRUE]
        /\ pc' = [pc EXCEPT ![c] = "ending"] \/ pc' = [pc EXCEPT ![c] = "done"]
        /\ off' = [off EXCEPT ![c] = "touch"] \/ off' = off
        /\ registry' = [registry EXCEPT ![Owner[c]] = None] \/ registry' = registry
    BY DEF Finally, BeginOffline
  <2>2. /\ closed \in [Conns -> BOOLEAN] /\ pc \in [Conns -> Positions]
        /\ off \in [Conns -> {"no", "touch", "audit", "done", "failed"}]
        /\ registry \in [Nodes -> Conns \union {None}] /\ Owner[c] \in Nodes
    BY OwnerAssumption DEF Invariant, TypeOK
  <2>3. closed' \in [Conns -> BOOLEAN]
    BY <2>1, <2>2
  <2>4. pc' \in [Conns -> Positions] /\ pc'[c] \in {"ending", "done"}
    BY <2>1, <2>2 DEF Positions
  <2>5. off' \in [Conns -> {"no", "touch", "audit", "done", "failed"}]
    BY <2>1, <2>2
  <2>6. registry' \in [Nodes -> Conns \union {None}]
    BY <2>1, <2>2
  <2>7. /\ \A e \in Conns : e # c => pc'[e] = pc[e] /\ off'[e] = off[e]
        /\ \A n \in Nodes : n # Owner[c] => registry'[n] = registry[n]
    BY <2>1, <2>2
  <2>. QED BY <2>3, <2>4, <2>5, <2>6, <2>7
<1>3. \/ /\ registry[Owner[c]] = c /\ registry'[Owner[c]] = None
         /\ off'[c] = "touch" /\ pc'[c] = "ending"
      \/ /\ registry[Owner[c]] # c /\ registry' = registry
         /\ off'[c] = off[c] /\ pc'[c] = "done"
  BY OwnerAssumption DEF Invariant, TypeOK, Finally, BeginOffline, Owns
<1>4. Owner[c] \in Nodes /\ None # c
  BY OwnerAssumption, NoneAssumption
<1>5. TypeOK'
  <2>1. ASSUME NEW n \in Nodes, registry'[n] # None
        PROVE  Owner[registry'[n]] = n /\ pc'[registry'[n]] \in Serving
    <3>1. registry'[n] = registry[n] /\ registry[n] \in Conns /\ registry[n] # c
      BY <1>2, <1>3, <2>1 DEF Invariant, TypeOK
    <3>. QED BY <1>2, <2>1, <3>1 DEF Invariant, TypeOK
  <2>. QED BY <1>1, <1>2, <2>1 DEF Invariant, TypeOK, QueueOK, Once
<1>6. Fated'
  <2>1. ASSUME NEW e \in Conns, e # c
        PROVE  registry'[Owner[e]] = e <=> registry[Owner[e]] = e
    BY <1>2, <1>3, <2>1, NoneAssumption, OwnerAssumption
  <2>2. registry'[Owner[c]] # c /\ peer[c] # "idle"
    BY <1>3, <1>4 DEF Invariant, Fated
  <2>. QED BY <1>1, <1>2, <1>3, <2>1, <2>2 DEF Invariant, Fated, Serving, Early, Leaving
<1>7. OneSweep'
  <2>1. \A e \in Conns : Swept(e)' => Swept(e)
    BY <1>2, <1>3 DEF Swept
  <2>. QED BY <1>1, <2>1 DEF Invariant, OneSweep
<1>8. RosterAgrees'
  <2>. SUFFICES ASSUME NEW n \in Nodes, ~Announcing(n)', dbErrors = 0
                PROVE  seen'[n] = MergeNode(n)'
    BY <1>1 DEF RosterAgrees
  <2>1. registry'[n] = registry[n]
    BY <1>2, <1>3 DEF Announcing
  <2>2. ~Announcing(n)
    BY <1>2, <1>3 DEF Announcing
  <2>. QED BY <1>1, <2>1, <2>2 DEF Invariant, RosterAgrees, MergeNode
<1>. QED BY <1>5, <1>6, <1>7, <1>8

\* ... and the pairs that are left keep their order.
LEMMA FinallyOrders ==
  ASSUME Invariant, NEW c \in Conns, pc[c] \in {"loop", "erring"}, NEW q, Finally(c, q),
         UNCHANGED dbErrors, QueueOK', NEW h \in Coroutines, h \in {Handler(c), Sweeper},
         \A j \in Coroutines : j # h /\ (Owns(c) => j # Offliner(c)) => trips'[j] = trips[j],
         \A i, j \in Coroutines : Ahead(i, j, dbq) /\ i # h => Ahead(i, j, dbq')
  PROVE  Overtaken'
<1>1. QueueOK /\ Overtaken
  BY QueueTyped DEF Invariant
<1>2. ASSUME NEW d \in Conns, pc[d] \in {"announce", "fetch"}
      PROVE  pc'[d] = pc[d] /\ Handler(d) \notin {h, Offliner(c)}
  <2>1. d # c
    BY <1>2
  <2>. QED BY <2>1, CoroutineFacts DEF Invariant, TypeOK, Finally
<1>3. CASE Owns(c)
  <2>1. ASSUME NEW e \in Conns, NEW d \in Conns, off'[e] \in Leaving, registry'[Owner[e]] = d
        PROVE  off'[e] = off[e] /\ registry[Owner[e]] = d /\ Offliner(e) \notin {h,
        Offliner(c)}
    <3>1. /\ registry' = [registry EXCEPT ![Owner[c]] = None]
          /\ off' = [off EXCEPT ![c] = "touch"]
          /\ registry \in [Nodes -> Conns \union {None}]
          /\ Owner[c] \in Nodes /\ Owner[e] \in Nodes /\ d # None
      BY <1>3, OwnerAssumption, NoneAssumption
      DEF Invariant, TypeOK, Finally, BeginOffline
    <3>2. Owner[e] # Owner[c]
      BY <2>1, <3>1
    <3>3. off'[e] = off[e] /\ registry[Owner[e]] = d
      BY <2>1, <3>1, <3>2 DEF Invariant, TypeOK
    <3>. QED BY <3>2, <3>3, CoroutineFacts
  <2>2. Offliner(c) \in Coroutines
    BY CoroutineFacts
  <2>. QED BY <1>1, <1>2, <1>3, <2>1, <2>2, OthersKept
<1>4. CASE ~Owns(c)
  <2>1. /\ UNCHANGED <<off, registry>>
        /\ \A e \in Conns : Offliner(e) # h
    BY <1>4, CoroutineFacts DEF Finally
  <2>. QED BY <1>1, <1>2, <1>4, <2>1, OthersKept
<1>. QED BY <1>3, <1>4

\* The loop's read ends.
LEMMA EofPreserves ==
  ASSUME Invariant, NEW c \in Conns, Eof(c)
  PROVE  Invariant'
<1>1. QueueOK /\ pc[c] = "loop" /\ Finally(c, dbq) /\ UNCHANGED <<dbErrors, sweeper>>
  BY QueueTyped DEF Invariant, Eof, Finally, sweep
<1>2. /\ Handler(c) \in Coroutines /\ Offliner(c) \in Coroutines /\ Sweeper \in Coroutines
      /\ ~In(Handler(c), dbq)
  BY <1>1, CoroutineFacts DEF Invariant, Queued, Waiting
<1>3. CASE Owns(c)
  <2>1. /\ AwaitFrom(dbq, Offliner(c), WriteTrips) /\ off[c] = "no"
        /\ pc' = [pc EXCEPT ![c] = "ending"] /\ off' = [off EXCEPT ![c] = "touch"]
    BY <1>1, <1>3 DEF Finally, BeginOffline, Owns, Invariant, Fated
  <2>2. ~In(Offliner(c), dbq)
    BY <2>1 DEF Invariant, Queued, Leaving
  <2>3. /\ QueueOK' /\ Counted(Offliner(c), WriteTrips)
        /\ \A j \in Coroutines : In(j, dbq') <=> In(j, dbq) \/ j = Offliner(c)
        /\ \A i, j \in Coroutines : Ahead(i, j, dbq) => Ahead(i, j, dbq')
    BY <1>1, <1>2, <2>1, <2>2, Joins DEF ReadTrips, WriteTrips
  <2>4. Queued'
    <3>1. \A e \in Conns : In(Handler(e), dbq') <=> In(Handler(e), dbq)
      BY <2>3, CoroutineFacts
    <3>2. \A e \in Conns : In(Offliner(e), dbq') <=> In(Offliner(e), dbq) \/ e = c
      BY <2>3, CoroutineFacts
    <3>3. In(Sweeper, dbq') <=> In(Sweeper, dbq)
      BY <2>3, CoroutineFacts
    <3>4. \A e \in Conns : /\ pc'[e] \in Waiting <=> pc[e] \in Waiting
                           /\ off'[e] \in Leaving <=> off[e] \in Leaving \/ e = c
      BY <1>1, <2>1 DEF Invariant, TypeOK, Waiting, Leaving
    <3>. QED BY <1>1, <2>3, <3>1, <3>2, <3>3, <3>4 DEF Invariant, Queued, QueueOK
  <2>5. Overtaken'
    BY <1>1, <1>2, <1>3, <2>3, FinallyOrders DEF Counted
  <2>. QED BY <1>1, <2>3, <2>4, <2>5, FinallyKeeps DEF Invariant
<1>4. CASE ~Owns(c)
  <2>1. pc' = [pc EXCEPT ![c] = "done"] /\ UNCHANGED <<dbq, trips, off>>
    BY <1>1, <1>4 DEF Finally
  <2>2. QueueOK'
    BY <1>1, <2>1 DEF QueueOK
  <2>3. Queued'
    BY <1>1, <2>1 DEF Invariant, TypeOK, Queued, Waiting
  <2>4. Overtaken'
    BY <1>1, <1>2, <2>1, <2>2, FinallyOrders
  <2>. QED BY <1>1, <2>2, <2>3, <2>4, FinallyKeeps DEF Invariant
<1>. QED BY <1>3, <1>4

\* The error of a handler is audited.
LEMMA ErredPreserves ==
  ASSUME Invariant, NEW c \in Conns, Erred(c)
  PROVE  Invariant'
<1>1. /\ QueueOK /\ pc[c] = "erring" /\ Finally(c, Tail(dbq)) /\ UNCHANGED <<dbErrors, sweeper>>
      /\ dbq # <<>> /\ Head(dbq) = Handler(c)
  BY QueueTyped DEF Invariant, Erred, LastTrip, Finally, sweep
<1>2. /\ Handler(c) \in Coroutines /\ Offliner(c) \in Coroutines
      /\ Handler(c) # Offliner(c)
  BY CoroutineFacts
<1>3. CASE Owns(c)
  <2>1. /\ AwaitFrom(Tail(dbq), Offliner(c), WriteTrips) /\ off[c] = "no"
        /\ pc' = [pc EXCEPT ![c] = "ending"] /\ off' = [off EXCEPT ![c] = "touch"]
    BY <1>1, <1>3 DEF Finally, BeginOffline, Owns, Invariant, Fated
  <2>2. ~In(Offliner(c), dbq)
    BY <2>1 DEF Invariant, Queued, Leaving
  <2>3. /\ QueueOK' /\ Counted(Offliner(c), WriteTrips) /\ OrderKept
        /\ \A j \in Coroutines :
             In(j, dbq') <=> j = Offliner(c) \/ (In(j, dbq) /\ j # Handler(c))
    BY <1>1, <1>2, <2>1, <2>2, Turns DEF ReadTrips, WriteTrips
  <2>4. Queued'
    <3>1. \A e \in Conns : In(Handler(e), dbq') <=> In(Handler(e), dbq) /\ e # c
      BY <2>3, CoroutineFacts
    <3>2. \A e \in Conns : In(Offliner(e), dbq') <=> In(Offliner(e), dbq) \/ e = c
      BY <2>3, CoroutineFacts
    <3>3. In(Sweeper, dbq') <=> In(Sweeper, dbq)
      BY <2>3, CoroutineFacts
    <3>4. \A e \in Conns : /\ pc'[e] \in Waiting <=> pc[e] \in Waiting /\ e # c
                           /\ off'[e] \in Leaving <=> off[e] \in Leaving \/ e = c
      BY <1>1, <2>1 DEF Invariant, TypeOK, Waiting, Leaving
    <3>. QED BY <1>1, <2>3, <3>1, <3>2, <3>3, <3>4 DEF Invariant, Queued, QueueOK
  <2>5. Overtaken'
    BY <1>1, <1>2, <1>3, <2>3, FinallyOrders DEF Counted, OrderKept
  <2>. QED BY <1>1, <2>3, <2>4, <2>5, FinallyKeeps DEF Invariant
<1>4. CASE ~Owns(c)
  <2>1. pc' = [pc EXCEPT ![c] = "done"] /\ UNCHANGED <<trips, off>> /\ dbq' = Tail(dbq)
    BY <1>1, <1>4 DEF Finally
  <2>2. /\ QueueOK' /\ OrderKept
        /\ \A j \in Coroutines : In(j, dbq') <=> In(j, dbq) /\ j # Handler(c)
    BY <1>1, <2>1, Exits
  <2>3. Queued'
    BY <1>1, <2>1, <2>2, CoroutineFacts DEF Invariant, TypeOK, Queued, QueueOK, Waiting
  <2>4. Overtaken'
    BY <1>1, <1>2, <2>1, <2>2, FinallyOrders DEF OrderKept
  <2>. QED BY <1>1, <2>2, <2>3, <2>4, FinallyKeeps DEF Invariant
<1>. QED BY <1>3, <1>4

\* A database call of mark_offline raises; the sweep, if it awaited it, errs.
LEMMA OfflineRaisesPreserves ==
  ASSUME Invariant, NEW c \in Conns, OfflineRaises(c)
  PROVE  Invariant'
<1>1. /\ QueueOK /\ dbq # <<>> /\ Head(dbq) = Offliner(c)
      /\ off[c] \in Leaving /\ off' = [off EXCEPT ![c] = "failed"]
      /\ pc' = [pc EXCEPT ![c] = IF @ = "ending" THEN "done" ELSE @]
      /\ UNCHANGED <<peer, closed, registry, fresh, pending, seen, replaced>>
  BY QueueTyped DEF Invariant, OfflineRaises, LastTrip, HandlerAfter, Leaving
<1>2. dbErrors' \in 1..MaxDbErrors
  BY BoundsAssumption DEF Invariant, TypeOK, OfflineRaises, DbFails
<1>3. /\ pc' \in [Conns -> Positions]
      /\ off' \in [Conns -> {"no", "touch", "audit", "done", "failed"}]
      /\ \A e \in Conns : pc[e] \in Serving => pc'[e] \in Serving
  BY <1>1 DEF Invariant, TypeOK, Positions, Serving
<1>4. Fated'
  BY <1>1 DEF Invariant, TypeOK, Fated, Serving, Early, Leaving
<1>5. Overtaken' /\ RosterAgrees'
  BY <1>2 DEF Overtaken, RosterAgrees
<1>6. ASSUME QueueOK', sweeper' \in {"alive", "erring", "dead"}, snapshot' \subseteq Conns
      PROVE  TypeOK'
  <2>1. \A n \in Nodes :
          registry'[n] # None => Owner[registry'[n]] = n /\ pc'[registry'[n]] \in Serving
    BY <1>1, <1>3 DEF Invariant, TypeOK
  <2>. QED BY <1>1, <1>2, <1>3, <1>6, <2>1 DEF Invariant, TypeOK, QueueOK, Once
<1>7. \A e \in Conns : /\ pc'[e] \in Waiting <=> pc[e] \in Waiting
                       /\ off'[e] \in Leaving <=> off[e] \in Leaving /\ e # c
  BY <1>1 DEF Invariant, TypeOK, Waiting, Leaving
<1>8. CASE pc[c] = "ending"
  <2>1. ThenNothing(Head(dbq)) /\ UNCHANGED <<sweeper, snapshot>>
    BY <1>1, <1>8 DEF OfflineRaises, sweep
  <2>2. /\ QueueOK'
        /\ \A j \in Coroutines : In(j, dbq') <=> In(j, dbq) /\ j # Offliner(c)
    BY <1>1, <2>1, Exits
  <2>3. Queued'
    <3>1. \A e \in Conns : In(Handler(e), dbq') <=> In(Handler(e), dbq)
      BY <2>2, CoroutineFacts
    <3>2. \A e \in Conns : In(Offliner(e), dbq') <=> In(Offliner(e), dbq) /\ e # c
      BY <2>2, CoroutineFacts
    <3>3. In(Sweeper, dbq') <=> sweeper' = "erring"
      BY <2>1, <2>2, CoroutineFacts DEF Invariant, Queued
    <3>4. \A k \in Coroutines : In(k, dbq') => trips'[k] > 0
      BY <2>2 DEF QueueOK
    <3>. QED BY <1>7, <3>1, <3>2, <3>3, <3>4 DEF Invariant, Queued
  <2>4. OneSweep'
    BY <1>1, <1>8, <2>1 DEF Invariant, TypeOK, OneSweep, Swept, Leaving
  <2>5. TypeOK'
    BY <1>6, <2>1, <2>2 DEF Invariant, TypeOK
  <2>. QED BY <1>4, <1>5, <2>3, <2>4, <2>5 DEF Invariant
<1>9. CASE pc[c] # "ending"
  <2>1. /\ AwaitFrom(Tail(dbq), Sweeper, WriteTrips)
        /\ sweeper = "alive" /\ sweeper' = "erring" /\ snapshot' = {} /\ UNCHANGED pc
    BY <1>1, <1>9 DEF OfflineRaises, ThenAwait, Invariant, TypeOK, OneSweep, Swept
  <2>2. Sweeper \in Coroutines /\ ~In(Sweeper, dbq) /\ Sweeper # Offliner(c)
    BY <2>1, CoroutineFacts DEF Invariant, Queued
  <2>3. /\ QueueOK'
        /\ \A j \in Coroutines :
             In(j, dbq') <=> j = Sweeper \/ (In(j, dbq) /\ j # Offliner(c))
    BY <1>1, <2>1, <2>2, Turns DEF ReadTrips, WriteTrips
  <2>4. Queued'
    <3>1. \A e \in Conns : In(Handler(e), dbq') <=> In(Handler(e), dbq)
      BY <2>3, CoroutineFacts
    <3>2. \A e \in Conns : In(Offliner(e), dbq') <=> In(Offliner(e), dbq) /\ e # c
      BY <2>3, CoroutineFacts
    <3>3. In(Sweeper, dbq')
      BY <2>2, <2>3
    <3>. QED BY <1>7, <2>1, <2>3, <3>1, <3>2, <3>3 DEF Invariant, Queued, QueueOK
  <2>5. OneSweep'
    <3>1. \A e \in Conns : ~Swept(e)'
      BY <1>1, <1>9, <2>1 DEF Invariant, TypeOK, OneSweep, Swept, Leaving
    <3>. QED BY <2>1, <3>1 DEF OneSweep
  <2>6. TypeOK'
    BY <1>6, <2>1, <2>3
  <2>. QED BY <1>4, <1>5, <2>4, <2>5, <2>6 DEF Invariant
<1>. QED BY <1>8, <1>9

-----------------------------------------------------------------------------
(* The invariant, and what follows from it.                                *)

\* Before anybody has dialled nothing is registered and nobody waits.
LEMMA InitHolds == Init => Invariant
<1>. SUFFICES ASSUME Init PROVE Invariant
  OBVIOUS
<1>1. dbq = <<>> /\ Len(dbq) = 0 /\ dbq \in Seq(Coroutines) /\ \A k : ~In(k, dbq)
  BY DEF Init, In
<1>2. TypeOK
  BY <1>1, OwnerAssumption, BoundsAssumption DEF Init, TypeOK, Positions, ReadTrips
<1>3. Queued
  BY <1>1 DEF Init, Queued, Waiting, Leaving
<1>4. Fated
  BY OwnerAssumption, NoneAssumption DEF Init, Fated, Serving
<1>5. OneSweep /\ Overtaken /\ RosterAgrees
  BY DEF Init, OneSweep, Swept, Overtaken, RosterAgrees, MergeNode, Leaving
<1>. QED BY <1>2, <1>3, <1>4, <1>5 DEF Invariant

\* Every step of the connections, the sweep and the database keeps the invariant.
LEMMA NextHolds == Invariant /\ [Next]_vars => Invariant'
<1>. SUFFICES ASSUME Invariant, [Next]_vars PROVE Invariant'
  OBVIOUS
<1>1. CASE DbRound
  BY <1>1, DbRoundPreserves
<1>2. CASE SweepStart
  BY <1>2, SweepStartPreserves
<1>3. CASE SweepErred
  BY <1>3, SweepErredPreserves
<1>4. CASE SweepDies
  BY <1>4, SweepDiesPreserves
<1>5. ASSUME NEW c \in Conns, Dial(c) \/ Leave(c) \/ NoHello(c) \/ Frame(c) \/ Eof(c) \/ GoStale(c)
      PROVE  Invariant'
  BY <1>5, DialPreserves, LeavePreserves, NoHelloPreserves, FramePreserves, EofPreserves,
     GoStalePreserves
<1>6. ASSUME NEW c \in Conns,
             SweepSkip(c) \/ SweepOffline(c) \/ Request(c) \/ RequestTimeout(c)
      PROVE  Invariant'
  BY <1>6, SweepSkipPreserves, SweepOfflinePreserves, RequestPreserves,
  RequestTimeoutPreserves
<1>7. ASSUME NEW c \in Conns, Handling(c) PROVE Invariant'
  BY <1>7, HelloPreserves, RefusePreserves, EndPreserves, SupersedePreserves, AddPreserves,
     FetchPreserves, AnnouncePreserves, DrainedPreserves, ErredPreserves, FailPendingPreserves,
     AnnounceDownPreserves DEF Handling
<1>8. ASSUME NEW c \in Conns, Raising(c) PROVE Invariant'
  BY <1>8, RaisePreserves, RaiseUnregisteredPreserves, OfflineRaisesPreserves DEF Raising
<1>9. CASE UNCHANGED vars
  BY <1>9 DEF vars, Invariant, TypeOK, Queued, Fated, OneSweep, Swept, Overtaken, DownFirst,
     UntilDown, UntilUp, RosterAgrees, Announcing, MergeNode
<1>. QED BY <1>1, <1>2, <1>3, <1>4, <1>5, <1>6, <1>7, <1>8, <1>9 DEF Next

\* The inductive invariant holds in every reachable state.
THEOREM InvariantHolds == Spec => []Invariant
BY InitHolds, NextHolds, PTL DEF Spec

\* The variables have their types, and a node that is listed online has a connection of
\* its own whose handler still runs: there are no ghosts.
THEOREM TypeCorrect == Spec => []TypeOK
<1>1. Invariant => TypeOK
  BY DEF Invariant
<1>. QED BY <1>1, InvariantHolds, PTL

\* Exactly one fate of three, when one holds.
LEMMA OneOfThree ==
  ASSUME NEW h \in BOOLEAN, NEW r \in BOOLEAN, NEW o \in BOOLEAN,
         h \/ r \/ o, h => ~r /\ ~o, o => ~r
  PROVE  Cardinality({f \in {"holds", "replaced", "offline"} :
                        (f = "holds" /\ h) \/ (f = "replaced" /\ r) \/ (f = "offline" /\ o)}) = 1
<1>. DEFINE F == {f \in {"holds", "replaced", "offline"} :
                    (f = "holds" /\ h) \/ (f = "replaced" /\ r) \/ (f = "offline" /\ o)}
<1>1. F = {"holds"} \/ F = {"replaced"} \/ F = {"offline"}
  OBVIOUS
<1>. QED BY <1>1, FS_Singleton

\* A registered state holds its id, or was replaced, or was taken offline, exactly one
\* of them, however handlers, sweeps and reconnects race, and no request outlives its
\* mark_offline.
THEOREM OneFateHolds == Spec => []OneFate
<1>1. Invariant => OneFate
  <2>. SUFFICES ASSUME Invariant, NEW c \in Conns
                PROVE  /\ pc[c] \in Serving \union {"ending"} =>
                            Cardinality({f \in {"holds", "replaced", "offline"} :
                                           \/ f = "holds" /\ registry[Owner[c]] = c
                                           \/ f = "replaced" /\ replaced[c]
                                           \/ f = "offline" /\ off[c] # "no"}) = 1
                       /\ off[c] \in {"audit", "done"} => ~pending[c]
    BY DEF OneFate
  <2>1. off[c] \in {"audit", "done"} => ~pending[c]
    BY DEF Invariant, Fated
  <2>2. ASSUME pc[c] \in Serving \union {"ending"}
        PROVE  Cardinality({f \in {"holds", "replaced", "offline"} :
                              \/ f = "holds" /\ registry[Owner[c]] = c
                              \/ f = "replaced" /\ replaced[c]
                              \/ f = "offline" /\ off[c] # "no"}) = 1
    <3>1. /\ registry[Owner[c]] = c \/ replaced[c] \/ off[c] # "no"
          /\ registry[Owner[c]] = c => ~replaced[c] /\ off[c] = "no"
          /\ off[c] # "no" => ~replaced[c]
          /\ replaced[c] \in BOOLEAN
      BY <2>2 DEF Invariant, TypeOK, Fated, Leaving
    <3>. QED BY <3>1, OneOfThree
  <2>. QED BY <2>1, <2>2
<1>. QED BY <1>1, InvariantHolds, PTL

\* While no database call has raised, browsers were last told of a node what the
\* registry says of it, unless an announcement about the node is still on its way.
THEOREM RosterAgreesHolds == Spec => []RosterAgrees
<1>1. Invariant => RosterAgrees
  BY DEF Invariant
<1>. QED BY <1>1, InvariantHolds, PTL

=============================================================================
