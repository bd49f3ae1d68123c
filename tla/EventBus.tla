------------------------------ MODULE EventBus ------------------------------
(***************************************************************************)
(* The WebSocket event bus (hub/eventbus.py) and the /ws endpoint that     *)
(* drains it (hub/api/ws.py).                                              *)
(*                                                                         *)
(* Everything here runs on one asyncio loop: a publisher (any hub          *)
(* coroutine) calls enqueue without awaiting, so a publication to all      *)
(* browsers is one step; the sender task of a browser takes an event,      *)
(* stamps it, and then awaits the socket, during which publishers run.     *)
(*                                                                         *)
(* An event is represented by its number in the stream offered to that     *)
(* browser: queue[c] holds numbers, never payloads.                        *)
(***************************************************************************)
EXTENDS Naturals, Sequences

CONSTANTS
  Clients,    \* browser connections; each is registered at most once
  Nodes,      \* node ids a browser may subscribe to
  QueueMax,   \* WSClient(queue_max): the bound of each queue
  MaxEvents   \* bound: publications per browser

ASSUME QueueMaxAssumption == QueueMax \in Nat \ {0}
ASSUME MaxEventsAssumption == MaxEvents \in Nat

VARIABLES
  clients,    \* EventBus._clients
  phase,      \* per connection: "new", "open", "broken" (sender ended), "gone"
  queue,      \* WSClient.queue
  gap,        \* WSClient.gap
  subs,       \* WSClient.subscriptions
  sending,    \* the sender task is inside await send_json
  \* what a browser observes; read by properties only
  offered, last, mark

vars == <<clients, phase, queue, gap, subs, sending, offered, last, mark>>
observed == <<offered, last, mark>>

Init ==
  /\ clients = {}
  /\ phase = [c \in Clients |-> "new"]
  /\ queue = [c \in Clients |-> <<>>]
  /\ gap = [c \in Clients |-> FALSE]
  /\ subs = [c \in Clients |-> {}]
  /\ sending = [c \in Clients |-> FALSE]
  /\ offered = [c \in Clients |-> 0]
  /\ last = [c \in Clients |-> 0]
  /\ mark = [c \in Clients |-> FALSE]

-----------------------------------------------------------------------------
(* WSClient.enqueue: append; when full drop the oldest and note the gap.   *)

\* a slip that ImplementsLossyStream must notice: the newest is dropped
DropNewest(q, e) == IF Len(q) >= QueueMax THEN q ELSE Append(q, e)

Full(q) == Len(q) >= QueueMax

Enqueued(q, e) == Append(IF Full(q) THEN Tail(q) ELSE q, e)

\* enqueue of one event on every client of C, in one step of the loop
EnqueueAll(C) ==
  /\ \A c \in C : offered[c] < MaxEvents
  /\ offered' = [c \in Clients |-> IF c \in C THEN offered[c] + 1 ELSE offered[c]]
  /\ queue' = [c \in Clients |->
                 IF c \in C THEN Enqueued(queue[c], offered[c] + 1) ELSE queue[c]]
  /\ gap' = [c \in Clients |-> IF c \in C THEN gap[c] \/ Full(queue[c]) ELSE gap[c]]
  /\ UNCHANGED <<clients, phase, subs, sending, last, mark>>

Broadcast == clients # {} /\ EnqueueAll(clients)

Subscribers(n) == {c \in clients : n \in subs[c]}

SendToSubscribers(n) == Subscribers(n) # {} /\ EnqueueAll(Subscribers(n))

-----------------------------------------------------------------------------
(* The endpoint: register, the receive loop's messages, the sender task.   *)

Register(c) ==
  /\ phase[c] = "new"
  /\ phase' = [phase EXCEPT ![c] = "open"]
  /\ clients' = clients \union {c}
  /\ UNCHANGED <<queue, gap, subs, sending, observed>>

Receiving(c) == phase[c] \in {"open", "broken"}

Subscribe(c, n) ==
  /\ Receiving(c)
  /\ subs' = [subs EXCEPT ![c] = @ \union {n}]
  /\ UNCHANGED <<clients, phase, queue, gap, sending, observed>>

Unsubscribe(c, n) ==
  /\ Receiving(c)
  /\ subs' = [subs EXCEPT ![c] = @ \ {n}]
  /\ UNCHANGED <<clients, phase, queue, gap, sending, observed>>

\* a browser's keepalive: the pong goes through the same bounded queue
Ping(c) == Receiving(c) /\ EnqueueAll({c})

\* a slip that CatchesUp must notice: the sender does not come back for a second event
TakeOnce(c) ==
  /\ phase[c] = "open" /\ ~sending[c] /\ queue[c] # <<>> /\ last[c] = 0
  /\ last' = [last EXCEPT ![c] = Head(queue[c])]
  /\ mark' = [mark EXCEPT ![c] = gap[c]] /\ gap' = [gap EXCEPT ![c] = FALSE]
  /\ queue' = [queue EXCEPT ![c] = Tail(@)]
  /\ sending' = [sending EXCEPT ![c] = TRUE]
  /\ UNCHANGED <<clients, phase, subs, offered>>

\* queue.get() returns, the gap flag moves onto the event, send_json starts
Take(c) ==
  /\ phase[c] = "open" /\ ~sending[c] /\ queue[c] # <<>>
  /\ last' = [last EXCEPT ![c] = Head(queue[c])]
  /\ mark' = [mark EXCEPT ![c] = gap[c]]
  /\ queue' = [queue EXCEPT ![c] = Tail(@)]
  /\ gap' = [gap EXCEPT ![c] = FALSE]
  /\ sending' = [sending EXCEPT ![c] = TRUE]
  /\ UNCHANGED <<clients, phase, subs, offered>>

Sent(c) ==
  /\ phase[c] = "open" /\ sending[c]
  /\ sending' = [sending EXCEPT ![c] = FALSE]
  /\ UNCHANGED <<clients, phase, queue, gap, subs, observed>>

\* send_json raised: the sender task ends, the receive loop does not notice
SendFails(c) ==
  /\ phase[c] = "open" /\ sending[c]
  /\ phase' = [phase EXCEPT ![c] = "broken"]
  /\ sending' = [sending EXCEPT ![c] = FALSE]
  /\ UNCHANGED <<clients, queue, gap, subs, observed>>

\* receive_text raised: cancel the sender, unregister
Disconnect(c) ==
  /\ Receiving(c)
  /\ phase' = [phase EXCEPT ![c] = "gone"]
  /\ clients' = clients \ {c}
  /\ sending' = [sending EXCEPT ![c] = FALSE]
  /\ UNCHANGED <<queue, gap, subs, observed>>

Next ==
  \/ Broadcast
  \/ \E n \in Nodes : SendToSubscribers(n)
  \/ \E c \in Clients :
       \/ Register(c) \/ Ping(c) \/ Take(c) \/ Sent(c) \/ SendFails(c) \/ Disconnect(c)
       \/ \E n \in Nodes : Subscribe(c, n) \/ Unsubscribe(c, n)

Spec == Init /\ [][Next]_vars

\* the loop runs a ready sender task; the socket write ends one way or another
Fairness ==
  \A c \in Clients : WF_vars(Take(c)) /\ WF_vars(Sent(c) \/ SendFails(c))

FairSpec == Spec /\ Fairness

-----------------------------------------------------------------------------
(* Properties *)

\* Every variable has its type; a queue never exceeds the bound given to it.
TypeOK ==
  /\ clients \subseteq Clients
  /\ phase \in [Clients -> {"new", "open", "broken", "gone"}]
  /\ queue \in [Clients -> Seq(Nat)]
  /\ \A c \in Clients : Len(queue[c]) <= QueueMax
  /\ gap \in [Clients -> BOOLEAN]
  /\ subs \in [Clients -> SUBSET Nodes]
  /\ sending \in [Clients -> BOOLEAN]
  /\ offered \in [Clients -> Nat]
  /\ last \in [Clients -> Nat]
  /\ mark \in [Clients -> BOOLEAN]

\* Only the oldest events are ever given up: what waits for a browser is the
\* unbroken newest tail of what was published to it, however many overflows
\* and takes alternated.
NewestRetained ==
  \A c \in Clients : \A i \in 1..Len(queue[c]) :
     queue[c][i] = (offered[c] - Len(queue[c])) + i

\* The gap flag is raised exactly while events are missing between the last
\* one sent and the next one waiting: a flag cleared too early, or left over
\* from an earlier overflow, would lie to the browser.
GapExact ==
  \A c \in Clients : gap[c] <=> last[c] + Len(queue[c]) < offered[c]

\* The stream of each browser is a LossyStream: in order, none twice, and the
\* gap mark on exactly the events that follow a loss.  (Spec of the instance for
\* every c, written with one box because TLC takes no other form.)
Stream(c) == INSTANCE LossyStream
               WITH offered <- offered[c], last <- last[c], mark <- mark[c]

ImplementsLossyStream ==
  /\ \A c \in Clients : Stream(c)!Init
  /\ [][\A c \in Clients : [Stream(c)!Next]_(Stream(c)!vars)]_vars

\* A browser whose socket works catches up with everything published to it.
CatchesUp ==
  \A c \in Clients : \A k \in 1..MaxEvents :
     (phase[c] = "open" /\ offered[c] >= k) ~> (last[c] >= k \/ phase[c] # "open")

=============================================================================
