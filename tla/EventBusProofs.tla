--------------------------- MODULE EventBusProofs ---------------------------
(***************************************************************************)
(* For any number of browsers, any queue bound of at least one and any     *)
(* number of events: the types, the two facts about what waits in a        *)
(* browser's queue, and that every browser sees a LossyStream.             *)
(*                                                                         *)
(* Invariant (the conjunction of TypeOK, NewestRetained and GapExact plus  *)
(* NotAhead) is inductive.  NotAhead says that what was sent and what      *)
(* waits never exceed what was published; without it GapExact would not    *)
(* survive a take.                                                         *)
(***************************************************************************)
EXTENDS EventBus, TLAPS

NotAhead == \A c \in Clients : last[c] + Len(queue[c]) <= offered[c]

Invariant == TypeOK /\ NewestRetained /\ GapExact /\ NotAhead

-----------------------------------------------------------------------------

\* What enqueue does to a queue: it stays a sequence of numbers within the
\* bound, grows by one below the bound and keeps its length at the bound, ends
\* in the new event, and what was waiting shifts down by one when full.
LEMMA EnqueuedFacts ==
  ASSUME NEW q \in Seq(Nat), NEW e \in Nat, Len(q) <= QueueMax
  PROVE  /\ Enqueued(q, e) \in Seq(Nat)
         /\ Len(Enqueued(q, e)) <= QueueMax
         /\ Len(Enqueued(q, e)) = IF Full(q) THEN Len(q) ELSE Len(q) + 1
         /\ \A i \in 1..Len(Enqueued(q, e)) :
              Enqueued(q, e)[i] = IF i = Len(Enqueued(q, e)) THEN e
                                  ELSE IF Full(q) THEN q[i + 1] ELSE q[i]
<1>1. CASE Full(q)
  <2>1. q # <<>> /\ Len(q) = QueueMax
    BY <1>1, QueueMaxAssumption DEF Full
  <2>2. /\ Tail(q) \in Seq(Nat)
        /\ Len(Tail(q)) = Len(q) - 1
        /\ \A i \in 1..Len(Tail(q)) : Tail(q)[i] = q[i + 1]
    BY <2>1
  <2>. QED BY <1>1, <2>1, <2>2, QueueMaxAssumption DEF Enqueued
<1>2. CASE ~Full(q)
  BY <1>2, QueueMaxAssumption DEF Enqueued, Full
<1>. QED BY <1>1, <1>2

\* Positions in a tail of n of o events, after one more is published and after
\* the first is taken.
LEMMA TailPositions ==
  ASSUME NEW o \in Nat, NEW n \in Nat, NEW m \in Nat, NEW i \in Nat
  PROVE  /\ m = n + 1 => (o - n) + i = ((o + 1) - m) + i
         /\ m = n - 1 => (o - n) + (i + 1) = (o - m) + i
OBVIOUS

\* Enqueueing event o + 1 on a queue that holds the newest tail of a stream of o
\* events leaves the newest tail of the longer stream; l is what was last sent.
LEMMA EnqueuedTail ==
  ASSUME NEW q \in Seq(Nat), NEW o \in Nat, NEW l \in Nat,
         Len(q) <= QueueMax, l + Len(q) <= o,
         \A i \in 1..Len(q) : q[i] = (o - Len(q)) + i,
         NEW r, r = Enqueued(q, o + 1)
  PROVE  /\ \A i \in 1..Len(r) : r[i] = ((o + 1) - Len(r)) + i
         /\ l + Len(r) <= o + 1
         /\ (l + Len(q) < o \/ Full(q)) <=> l + Len(r) < o + 1
<1>1. /\ Len(r) = IF Full(q) THEN Len(q) ELSE Len(q) + 1
      /\ \A i \in 1..Len(r) :
           r[i] = IF i = Len(r) THEN o + 1 ELSE IF Full(q) THEN q[i + 1] ELSE q[i]
  BY EnqueuedFacts
<1>2. Len(q) \in Nat /\ (Full(q) => Len(q) > 0)
  BY QueueMaxAssumption DEF Full
<1>3. CASE Full(q)
  <2>1. Len(r) = Len(q) /\ Len(q) > 0
    BY <1>1, <1>2, <1>3
  <2>2. ASSUME NEW i \in 1..Len(r)
        PROVE  r[i] = ((o + 1) - Len(r)) + i
    <3>1. CASE i = Len(r)
      BY <1>1, <2>1, <1>2, <3>1
    <3>2. CASE i # Len(r)
      <4>1. i \in Nat /\ i + 1 \in 1..Len(q) /\ r[i] = q[i + 1]
        BY <1>1, <1>2, <1>3, <2>1, <3>2
      <4>2. q[i + 1] = (o - Len(q)) + (i + 1)
        BY <4>1
      <4>. QED BY <4>1, <4>2, <2>1, <1>2
    <3>. QED BY <3>1, <3>2
  <2>. QED BY <2>1, <2>2, <1>2, <1>3
<1>4. CASE ~Full(q)
  <2>1. Len(r) = Len(q) + 1
    BY <1>1, <1>4
  <2>2. ASSUME NEW i \in 1..Len(r)
        PROVE  r[i] = ((o + 1) - Len(r)) + i
    <3>1. CASE i = Len(r)
      BY <1>1, <2>1, <1>2, <3>1
    <3>2. CASE i # Len(r)
      <4>1. i \in Nat /\ i \in 1..Len(q) /\ r[i] = q[i]
        BY <1>1, <1>2, <1>4, <2>1, <3>2
      <4>2. q[i] = (o - Len(q)) + i
        BY <4>1
      <4>3. (o - Len(q)) + i = ((o + 1) - Len(r)) + i
        <5>1. Len(q) \in Nat /\ Len(r) \in Nat /\ Len(r) = Len(q) + 1 /\ i \in Nat
          BY <4>1, <2>1, <1>2
        <5>. QED BY <5>1, TailPositions
      <4>. QED BY <4>1, <4>2, <4>3, Zenon
    <3>. QED BY <3>1, <3>2
  <2>. QED BY <2>1, <2>2, <1>2, <1>4
<1>. QED BY <1>3, <1>4

\* Publishing to any set of registered browsers preserves the invariant.
LEMMA EnqueueAllPreserves ==
  ASSUME Invariant, NEW C \in SUBSET Clients, EnqueueAll(C)
  PROVE  Invariant'
<1>1. \A c \in C :
        /\ queue[c] \in Seq(Nat) /\ Len(queue[c]) <= QueueMax /\ Len(queue[c]) \in Nat
        /\ offered[c] + 1 \in Nat /\ offered[c] \in Nat /\ last[c] \in Nat
        /\ offered'[c] = offered[c] + 1 /\ queue'[c] = Enqueued(queue[c], offered[c] + 1)
        /\ gap'[c] = (gap[c] \/ Full(queue[c])) /\ last'[c] = last[c]
  BY DEF Invariant, TypeOK, EnqueueAll
<1>2. \A c \in Clients \ C :
        /\ offered'[c] = offered[c] /\ queue'[c] = queue[c]
        /\ gap'[c] = gap[c] /\ last'[c] = last[c]
  BY DEF EnqueueAll
<1>3. TypeOK'
  <2>1. ASSUME NEW c \in Clients
        PROVE  queue'[c] \in Seq(Nat) /\ Len(queue'[c]) <= QueueMax
    <3>1. CASE c \in C
      BY <3>1, <1>1, EnqueuedFacts
    <3>2. CASE c \notin C
      BY <3>2, <1>2 DEF Invariant, TypeOK
    <3>. QED BY <3>1, <3>2
  <2>2. queue' \in [Clients -> Seq(Nat)]
    BY <2>1 DEF EnqueueAll
  <2>3. offered' \in [Clients -> Nat] /\ gap' \in [Clients -> BOOLEAN]
    <3>1. offered' \in [Clients -> Nat]
      BY DEF Invariant, TypeOK, EnqueueAll
    <3>2. \A c \in Clients : (gap[c] \/ Full(queue[c])) \in BOOLEAN /\ gap[c] \in BOOLEAN
      BY DEF Invariant, TypeOK
    <3>3. gap' \in [Clients -> BOOLEAN]
      BY <3>2, Zenon DEF EnqueueAll
    <3>. QED BY <3>1, <3>3
  <2>. QED BY <2>1, <2>2, <2>3 DEF Invariant, TypeOK, EnqueueAll
<1>4. \A c \in Clients :
        /\ \A i \in 1..Len(queue'[c]) : queue'[c][i] = (offered'[c] - Len(queue'[c])) + i
        /\ gap'[c] <=> last'[c] + Len(queue'[c]) < offered'[c]
        /\ last'[c] + Len(queue'[c]) <= offered'[c]
  <2>1. ASSUME NEW c \in Clients \ C
        PROVE  /\ \A i \in 1..Len(queue'[c]) :
                     queue'[c][i] = (offered'[c] - Len(queue'[c])) + i
               /\ gap'[c] <=> last'[c] + Len(queue'[c]) < offered'[c]
               /\ last'[c] + Len(queue'[c]) <= offered'[c]
    BY <1>2, <2>1 DEF Invariant, NewestRetained, GapExact, NotAhead
  <2>2. ASSUME NEW c \in C
        PROVE  /\ \A i \in 1..Len(queue'[c]) :
                     queue'[c][i] = (offered'[c] - Len(queue'[c])) + i
               /\ gap'[c] <=> last'[c] + Len(queue'[c]) < offered'[c]
               /\ last'[c] + Len(queue'[c]) <= offered'[c]
    <3>1. /\ queue[c] \in Seq(Nat) /\ Len(queue[c]) <= QueueMax
          /\ offered[c] \in Nat /\ last[c] \in Nat
          /\ queue'[c] = Enqueued(queue[c], offered[c] + 1)
          /\ offered'[c] = offered[c] + 1 /\ last'[c] = last[c]
      BY <1>1
    <3>2. /\ \A i \in 1..Len(queue[c]) : queue[c][i] = (offered[c] - Len(queue[c])) + i
          /\ last[c] + Len(queue[c]) <= offered[c]
      BY DEF Invariant, NewestRetained, NotAhead
    <3>3. /\ \A i \in 1..Len(queue'[c]) :
               queue'[c][i] = (offered'[c] - Len(queue'[c])) + i
          /\ last'[c] + Len(queue'[c]) <= offered'[c]
          /\ (last[c] + Len(queue[c]) < offered[c] \/ Full(queue[c]))
               <=> last'[c] + Len(queue'[c]) < offered'[c]
      <4>1. /\ \A i \in 1..Len(queue'[c]) :
                 queue'[c][i] = ((offered[c] + 1) - Len(queue'[c])) + i
            /\ last[c] + Len(queue'[c]) <= offered[c] + 1
            /\ (last[c] + Len(queue[c]) < offered[c] \/ Full(queue[c]))
                 <=> last[c] + Len(queue'[c]) < offered[c] + 1
        BY <3>1, <3>2, EnqueuedTail
      <4>. QED BY <4>1, <3>1
    <3>4. gap'[c] <=> (last[c] + Len(queue[c]) < offered[c] \/ Full(queue[c]))
      BY <1>1, Zenon DEF Invariant, GapExact
    <3>. QED BY <3>3, <3>4
  <2>. QED BY <2>1, <2>2
<1>. QED BY <1>3, <1>4 DEF Invariant, NewestRetained, GapExact, NotAhead

\* A sender taking an event preserves the invariant.
LEMMA TakePreserves ==
  ASSUME Invariant, NEW c \in Clients, Take(c)
  PROVE  Invariant'
<1>1. /\ queue[c] \in Seq(Nat) /\ queue[c] # <<>>
      /\ last[c] \in Nat /\ offered[c] \in Nat
      /\ Len(queue[c]) \in Nat \ {0} /\ Len(queue[c]) <= QueueMax
  BY DEF Invariant, TypeOK, Take
<1>2. /\ Tail(queue[c]) \in Seq(Nat)
      /\ Len(Tail(queue[c])) = Len(queue[c]) - 1
      /\ \A i \in 1..Len(Tail(queue[c])) : Tail(queue[c])[i] = queue[c][i + 1]
      /\ Head(queue[c]) = queue[c][1]
  BY <1>1
<1>3. Head(queue[c]) = (offered[c] - Len(queue[c])) + 1
  BY <1>1, <1>2 DEF Invariant, NewestRetained
<1>4. /\ queue'[c] = Tail(queue[c]) /\ last'[c] = Head(queue[c]) /\ gap'[c] = FALSE
      /\ offered' = offered
      /\ \A d \in Clients \ {c} :
           queue'[d] = queue[d] /\ last'[d] = last[d] /\ gap'[d] = gap[d]
  BY DEF Invariant, TypeOK, Take
<1>5. last[c] + Len(queue[c]) <= offered[c]
  BY DEF Invariant, NotAhead
<1>6. Head(queue[c]) \in Nat
  BY <1>1, <1>3, <1>5
<1>7. TypeOK'
  BY <1>1, <1>2, <1>6, QueueMaxAssumption DEF Invariant, TypeOK, Take
<1>8. /\ \A i \in 1..Len(queue'[c]) : queue'[c][i] = (offered'[c] - Len(queue'[c])) + i
      /\ gap'[c] <=> last'[c] + Len(queue'[c]) < offered'[c]
      /\ last'[c] + Len(queue'[c]) <= offered'[c]
  <2>1. \A i \in 1..Len(queue[c]) : queue[c][i] = (offered[c] - Len(queue[c])) + i
    BY DEF Invariant, NewestRetained
  <2>2. ASSUME NEW i \in 1..Len(queue'[c])
        PROVE  queue'[c][i] = (offered'[c] - Len(queue'[c])) + i
    <3>1. i \in Nat /\ i + 1 \in 1..Len(queue[c]) /\ queue'[c][i] = queue[c][i + 1]
      BY <1>1, <1>2, <1>4
    <3>2. queue[c][i + 1] = (offered[c] - Len(queue[c])) + (i + 1)
      BY <2>1, <3>1
    <3>3. Len(queue'[c]) = Len(queue[c]) - 1 /\ offered'[c] = offered[c]
      BY <1>2, <1>4
    <3>4. (offered[c] - Len(queue[c])) + (i + 1) = (offered'[c] - Len(queue'[c])) + i
      <4>1. /\ Len(queue[c]) \in Nat /\ Len(queue'[c]) \in Nat /\ i \in Nat
            /\ offered[c] \in Nat
        BY <1>1, <3>1, <3>3
      <4>2. (offered[c] - Len(queue[c])) + (i + 1) = (offered[c] - Len(queue'[c])) + i
        BY <4>1, <3>3, TailPositions
      <4>. QED BY <4>2, <3>3, Zenon
    <3>. QED BY <3>1, <3>2, <3>4, Zenon
  <2>3. last'[c] + Len(queue'[c]) = offered'[c]
    BY <1>1, <1>2, <1>3, <1>4
  <2>. QED BY <2>2, <2>3, <1>1, <1>2, <1>4, <1>6
<1>9. \A d \in Clients \ {c} :
        /\ \A i \in 1..Len(queue'[d]) : queue'[d][i] = (offered'[d] - Len(queue'[d])) + i
        /\ gap'[d] <=> last'[d] + Len(queue'[d]) < offered'[d]
        /\ last'[d] + Len(queue'[d]) <= offered'[d]
  BY <1>4 DEF Invariant, NewestRetained, GapExact, NotAhead
<1>. QED BY <1>7, <1>8, <1>9 DEF Invariant, NewestRetained, GapExact, NotAhead

\* The steps of the endpoint that touch neither a queue nor what was sent.
LEMMA OthersPreserve ==
  ASSUME Invariant, NEW c \in Clients,
         \/ Register(c) \/ Sent(c) \/ SendFails(c) \/ Disconnect(c)
         \/ \E n \in Nodes : Subscribe(c, n) \/ Unsubscribe(c, n)
  PROVE  Invariant'
<1>1. UNCHANGED <<queue, gap, observed>>
  BY DEF Register, Sent, SendFails, Disconnect, Subscribe, Unsubscribe
<1>2. TypeOK'
  <2>1. CASE Register(c)
    BY <2>1 DEF Invariant, TypeOK, Register, observed
  <2>2. CASE Sent(c)
    BY <2>2 DEF Invariant, TypeOK, Sent, observed
  <2>3. CASE SendFails(c)
    BY <2>3 DEF Invariant, TypeOK, SendFails, observed
  <2>4. CASE Disconnect(c)
    BY <2>4 DEF Invariant, TypeOK, Disconnect, observed
  <2>5. ASSUME NEW n \in Nodes, Subscribe(c, n)
        PROVE  TypeOK'
    BY <2>5 DEF Invariant, TypeOK, Subscribe, observed
  <2>6. ASSUME NEW n \in Nodes, Unsubscribe(c, n)
        PROVE  TypeOK'
    BY <2>6 DEF Invariant, TypeOK, Unsubscribe, observed
  <2>. QED BY <2>1, <2>2, <2>3, <2>4, <2>5, <2>6
<1>. QED BY <1>1, <1>2 DEF Invariant, NewestRetained, GapExact, NotAhead, observed

-----------------------------------------------------------------------------

\* The invariant holds in every state, for any browsers and any queue bound.
THEOREM InvariantHolds == Spec => []Invariant
<1>1. Init => Invariant
  BY QueueMaxAssumption
     DEF Init, Invariant, TypeOK, NewestRetained, GapExact, NotAhead
<1>2. Invariant /\ [Next]_vars => Invariant'
  <2> SUFFICES ASSUME Invariant, [Next]_vars
               PROVE  Invariant'
    OBVIOUS
  <2>1. CASE Broadcast
    BY <2>1, EnqueueAllPreserves DEF Broadcast, Invariant, TypeOK
  <2>2. ASSUME NEW n \in Nodes, SendToSubscribers(n)
        PROVE  Invariant'
    <3>1. Subscribers(n) \in SUBSET Clients
      BY DEF Invariant, TypeOK, Subscribers
    <3>. QED BY <2>2, <3>1, EnqueueAllPreserves DEF SendToSubscribers
  <2>3. ASSUME NEW c \in Clients, Ping(c)
        PROVE  Invariant'
    BY <2>3, EnqueueAllPreserves DEF Ping
  <2>4. ASSUME NEW c \in Clients, Take(c)
        PROVE  Invariant'
    BY <2>4, TakePreserves
  <2>5. ASSUME NEW c \in Clients,
               \/ Register(c) \/ Sent(c) \/ SendFails(c) \/ Disconnect(c)
               \/ \E n \in Nodes : Subscribe(c, n) \/ Unsubscribe(c, n)
        PROVE  Invariant'
    BY <2>5, OthersPreserve
  <2>6. CASE UNCHANGED vars
    BY <2>6 DEF vars, Invariant, TypeOK, NewestRetained, GapExact, NotAhead
  <2>. QED BY <2>1, <2>2, <2>3, <2>4, <2>5, <2>6 DEF Next
<1>. QED BY <1>1, <1>2, PTL DEF Spec

\* Type correctness: no queue ever grows beyond its bound.
THEOREM TypeCorrect == Spec => []TypeOK
BY InvariantHolds, PTL DEF Invariant

\* What waits for a browser is always the newest unbroken tail of its stream.
THEOREM NewestRetainedHolds == Spec => []NewestRetained
BY InvariantHolds, PTL DEF Invariant

\* The gap flag never lies about missing events.
THEOREM GapExactHolds == Spec => []GapExact
BY InvariantHolds, PTL DEF Invariant

-----------------------------------------------------------------------------

\* Every step of the bus is, for each browser, a step of its stream or a
\* stutter: publishing is Offer, taking an event is Deliver of that event.
LEMMA StepSimulation ==
  ASSUME Invariant, [Next]_vars, NEW c \in Clients
  PROVE  [Stream(c)!Next]_(Stream(c)!vars)
<1>. USE DEF Stream!vars
<1>1. ASSUME NEW C \in SUBSET Clients, EnqueueAll(C)
      PROVE  [Stream(c)!Next]_(Stream(c)!vars)
  <2>1. CASE c \in C
    BY <1>1, <2>1 DEF EnqueueAll, Stream!Next, Stream!Offer
  <2>2. CASE c \notin C
    BY <1>1, <2>2 DEF EnqueueAll
  <2>. QED BY <2>1, <2>2
<1>2. ASSUME NEW d \in Clients, Take(d)
      PROVE  [Stream(c)!Next]_(Stream(c)!vars)
  <2>1. CASE c # d
    BY <1>2, <2>1 DEF Take, Invariant, TypeOK
  <2>2. CASE c = d
    <3>. DEFINE k == Head(queue[c])
    <3>1. /\ queue[c] \in Seq(Nat) /\ queue[c] # <<>> /\ k = queue[c][1]
          /\ last[c] \in Nat /\ offered[c] \in Nat /\ Len(queue[c]) \in Nat \ {0}
      BY <1>2, <2>2 DEF Invariant, TypeOK, Take
    <3>2. k = (offered[c] - Len(queue[c])) + 1
      BY <3>1 DEF Invariant, NewestRetained
    <3>3. /\ gap[c] <=> last[c] + Len(queue[c]) < offered[c]
          /\ last[c] + Len(queue[c]) <= offered[c]
          /\ gap[c] \in BOOLEAN
      BY DEF Invariant, GapExact, NotAhead, TypeOK
    <3>4. last'[c] = k /\ mark'[c] = gap[c] /\ offered'[c] = offered[c]
      BY <1>2, <2>2 DEF Take, Invariant, TypeOK
    <3>. HIDE DEF k
    <3>5. last[c] < k /\ k <= offered[c] /\ k \in (last[c] + 1)..offered[c]
      BY <3>1, <3>2, <3>3
    <3>6. gap[c] <=> k # last[c] + 1
      BY <3>1, <3>2, <3>3
    <3>7. gap[c] = (k # last[c] + 1)
      BY <3>3, <3>6
    <3>8. Stream(c)!Deliver(k)
      BY <3>4, <3>5, <3>7 DEF Stream!Deliver
    <3>. QED BY <3>5, <3>8 DEF Stream!Next
  <2>. QED BY <2>1, <2>2
<1>3. ASSUME UNCHANGED observed
      PROVE  [Stream(c)!Next]_(Stream(c)!vars)
  BY <1>3 DEF observed
<1>4. CASE Broadcast
  BY <1>4, <1>1 DEF Broadcast, Invariant, TypeOK
<1>5. ASSUME NEW n \in Nodes, SendToSubscribers(n)
      PROVE  [Stream(c)!Next]_(Stream(c)!vars)
  <2>1. Subscribers(n) \in SUBSET Clients
    BY DEF Invariant, TypeOK, Subscribers
  <2>. QED BY <1>5, <2>1, <1>1 DEF SendToSubscribers
<1>6. ASSUME NEW d \in Clients,
             \/ Register(d) \/ Sent(d) \/ SendFails(d) \/ Disconnect(d)
             \/ \E n \in Nodes : Subscribe(d, n) \/ Unsubscribe(d, n)
      PROVE  UNCHANGED observed
  BY <1>6 DEF Register, Sent, SendFails, Disconnect, Subscribe, Unsubscribe
<1>7. ASSUME NEW d \in Clients, Ping(d)
      PROVE  [Stream(c)!Next]_(Stream(c)!vars)
  BY <1>7, <1>1 DEF Ping
<1>8. CASE UNCHANGED vars
  BY <1>8 DEF vars
<1>. QED BY <1>2, <1>3, <1>4, <1>5, <1>6, <1>7, <1>8 DEF Next

\* The bus implements a lossy stream with exact gap marks for every browser.
THEOREM Refinement == Spec => ImplementsLossyStream
<1>1. Init => \A c \in Clients : Stream(c)!Init
  BY DEF Init, Stream!Init
<1>2. Invariant /\ [Next]_vars
        => [\A c \in Clients : [Stream(c)!Next]_(Stream(c)!vars)]_vars
  BY StepSimulation
<1>. QED BY <1>1, <1>2, InvariantHolds, PTL DEF Spec, ImplementsLossyStream

=============================================================================
