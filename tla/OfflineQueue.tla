---------------------------- MODULE OfflineQueue ----------------------------
(***************************************************************************)
(* The offline command queue of one node: rows of queued_commands (db.py), *)
(* the REST endpoints that add and cancel them (rest.py), and              *)
(* Hub.drain_queue with the dispatch_command it calls (core.py), started   *)
(* by a hello (tcp_server.py) and by an enqueue, in any interleaving with  *)
(* the board's connections, the sweep, and crashes of the hub.             *)
(*                                                                         *)
(* Every await of a database call is one action, taken when the call has   *)
(* returned; calls of different coroutines return in any order, which is   *)
(* more than the first-come-first-served connection allows.  A crash       *)
(* between the execute and the commit of one write is a crash before it.   *)
(*                                                                         *)
(* Left out: payloads, the commands row of a dispatch, its inflight entry, *)
(* audits, and the clock: a row is late once its expires_at has passed.    *)
(***************************************************************************)
EXTENDS Naturals, Sequences

CONSTANTS
  MaxRows,     \* bound: rows enqueued; AUTOINCREMENT hands out 1, 2, ...
  MaxConns,    \* bound: connections the board makes, numbered as it dials
  MaxFaults,   \* bound: crashes of the hub process and mark_queued calls that raise
  Unsupported  \* rows whose command type build_node_frame does not know

Rows == 1..MaxRows
Conns == 1..MaxConns
Offline == 0   \* no connection is registered

ASSUME BoundsAssumption ==
  /\ MaxRows \in Nat /\ MaxConns \in Nat /\ MaxFaults \in Nat
  /\ Unsupported \subseteq Rows

VARIABLES
  \* queued_commands, durable
  status,     \* of each row; "none" before it is inserted
  late,       \* rows past their expires_at
  \* the node
  peer,       \* the board's end of each connection: "idle", "up", "left"
  handler,    \* where the hub's handler of each connection is
  registered, \* the connection that holds the node id, or Offline
  \* the coroutines
  enq,        \* where the enqueue request of each row is
  lock,       \* _drain_locks[node_id]: its drains, then those that wait for it
  at,         \* where each one's drain_queue is
  cutoff,     \* rows already late at the `now` it read
  batch,      \* rows it has still to dispatch
  target,     \* the state its dispatch_command took from the registry
  crashes, dbErrors,
  \* observed by properties only
  sends       \* times each row's frame was written to a socket

node == <<peer, handler, registered>>
drains == <<at, cutoff, batch, target>>
vars == <<status, late, peer, handler, registered, enq, lock, at,
          cutoff, batch, target, crashes, dbErrors, sends>>

HelloDrain(c) == <<"hello", c>>
EnqueueDrain(i) == <<"enqueue", i>>
Drainers == {HelloDrain(c) : c \in Conns} \union {EnqueueDrain(i) : i \in Rows}

Pending == {i \in Rows : status[i] = "pending"}
\* a slip that InIssueOrder must notice: newest first
Newest(S) == CHOOSE i \in S : \A j \in S : j <= i
First(S) == CHOOSE i \in S : \A j \in S : i <= j

Init ==
  /\ status = [i \in Rows |-> "none"]
  /\ late = {}
  /\ peer = [c \in Conns |-> "idle"]
  /\ handler = [c \in Conns |-> "none"]
  /\ registered = Offline
  /\ enq = [i \in Rows |-> "none"]
  /\ lock = <<>>
  /\ at = [k \in Drainers |-> "idle"]
  /\ cutoff = [k \in Drainers |-> {}]
  /\ batch = [k \in Drainers |-> {}]
  /\ target = [k \in Drainers |-> Offline]
  /\ crashes = 0
  /\ dbErrors = 0
  /\ sends = [i \in Rows |-> 0]

-----------------------------------------------------------------------------
(* Rows: the endpoints, and time.                                          *)

\* POST queue: the row is inserted, under the next id
Enqueue(i) ==
  /\ status[i] = "none" /\ \A j \in Rows : j < i => status[j] # "none"
  /\ status' = [status EXCEPT ![i] = "pending"]
  /\ enq' = [enq EXCEPT ![i] = "inserted"]
  /\ UNCHANGED <<late, node, lock, drains, crashes, dbErrors, sends>>

\* a slip that NothingStranded must notice: the queue waits for the next hello
EnqueueOnly(i) ==
  /\ enq[i] = "inserted"
  /\ enq' = [enq EXCEPT ![i] = "done"]
  /\ UNCHANGED <<status, late, node, lock, drains, crashes, dbErrors, sends>>

\* it is audited; if the node is online now, the request drains the queue
EnqueueReturns(i) ==
  /\ enq[i] = "inserted"
  /\ \/ /\ registered # Offline
        /\ enq' = [enq EXCEPT ![i] = "draining"]
        /\ lock' = Append(lock, EnqueueDrain(i))
     \/ /\ registered = Offline
        /\ enq' = [enq EXCEPT ![i] = "done"]
        /\ UNCHANGED lock
  /\ UNCHANGED <<status, late, node, drains, crashes, dbErrors, sends>>

\* DELETE queue/{qid} answers ok
CancelQueued(i) ==
  /\ status[i] = "pending"
  /\ status' = [status EXCEPT ![i] = "cancelled"]
  /\ UNCHANGED <<late, node, enq, lock, drains, crashes, dbErrors, sends>>

\* expires_at passes; a row with no TTL never takes this step
Lapse(i) ==
  /\ status[i] = "pending" /\ i \notin late
  /\ late' = late \union {i}
  /\ UNCHANGED <<status, node, enq, lock, drains, crashes, dbErrors, sends>>

-----------------------------------------------------------------------------
(* Connections (NodeLifecycle has the detail).                             *)

Dial(c) ==
  /\ peer[c] = "idle" /\ \A d \in Conns : d < c => peer[d] = "left"
  /\ peer' = [peer EXCEPT ![c] = "up"]
  /\ handler' = [handler EXCEPT ![c] = "hello"]
  /\ UNCHANGED <<status, late, registered, enq, lock, drains, crashes, dbErrors, sends>>

Leave(c) ==
  /\ peer[c] = "up"
  /\ peer' = [peer EXCEPT ![c] = "left"]
  /\ UNCHANGED <<status, late, handler, registered, enq, lock, drains, crashes,
                 dbErrors, sends>>

\* registry.add, taking the id from whoever holds it
Register(c) ==
  /\ handler[c] = "hello"
  /\ handler' = [handler EXCEPT ![c] = "added"]
  /\ registered' = c
  /\ UNCHANGED <<status, late, peer, enq, lock, drains, crashes, dbErrors, sends>>

\* node_up is announced; the hello's drain asks for the lock
Welcome(c) ==
  /\ handler[c] = "added"
  /\ handler' = [handler EXCEPT ![c] = "draining"]
  /\ lock' = Append(lock, HelloDrain(c))
  /\ UNCHANGED <<status, late, peer, registered, enq, drains, crashes, dbErrors, sends>>

\* mark_offline by the sweep, of a silent board or one whose frames are late
SweepOffline(c) ==
  /\ registered = c
  /\ registered' = Offline
  /\ UNCHANGED <<status, late, peer, handler, enq, lock, drains, crashes, dbErrors, sends>>

\* the read loop ends because the board left or the hub closed
Eof(c) ==
  /\ handler[c] = "loop" /\ (peer[c] = "left" \/ registered # c)
  /\ handler' = [handler EXCEPT ![c] = "done"]
  /\ registered' = IF registered = c THEN Offline ELSE registered
  /\ UNCHANGED <<status, late, peer, enq, lock, drains, crashes, dbErrors, sends>>

-----------------------------------------------------------------------------
(* drain_queue, run by coroutine k while it holds the lock.                *)

\* a slip that RepeatNeedsFault must notice: no lock
NoLock(k) == \E p \in DOMAIN lock : lock[p] = k
HasLock(k) == lock # <<>> /\ Head(lock) = k

\* the lock is held: read the clock
Begin(k) ==
  /\ HasLock(k) /\ at[k] = "idle"
  /\ at' = [at EXCEPT ![k] = "take"]
  /\ cutoff' = [cutoff EXCEPT ![k] = late]
  /\ UNCHANGED <<status, late, node, enq, lock, batch, target, crashes, dbErrors, sends>>

\* take_pending_queued: the rows to deliver are read ...
Take(k) ==
  /\ at[k] = "take"
  /\ batch' = [batch EXCEPT ![k] = Pending \ cutoff[k]]
  /\ cutoff' = [cutoff EXCEPT ![k] = Pending \intersect @]
  /\ at' = [at EXCEPT ![k] = IF Pending \intersect cutoff[k] = {} THEN "next" ELSE "expire"]
  /\ UNCHANGED <<status, late, node, enq, lock, target, crashes, dbErrors, sends>>

\* ... and the late ones among them expired
Expire(k) ==
  /\ at[k] = "expire"
  /\ status' = [i \in Rows |-> IF i \in cutoff[k] THEN "expired" ELSE status[i]]
  /\ at' = [at EXCEPT ![k] = "next"]
  /\ UNCHANGED <<late, node, enq, lock, cutoff, batch, target, crashes, dbErrors, sends>>

CanDispatch(i) == registered # Offline /\ i \notin Unsupported

\* dispatch_command: the next row has a state to go to and a frame to carry it;
\* the commands row is inserted
Dispatch(k) ==
  /\ at[k] = "next" /\ batch[k] # {} /\ CanDispatch(First(batch[k]))
  /\ target' = [target EXCEPT ![k] = registered]
  /\ at' = [at EXCEPT ![k] = "send"]
  /\ UNCHANGED <<status, late, node, enq, lock, cutoff, batch, crashes, dbErrors, sends>>

\* ... or it has not, and the drain stops there
DispatchFails(k) ==
  /\ at[k] = "next" /\ batch[k] # {} /\ ~CanDispatch(First(batch[k]))
  /\ at' = [at EXCEPT ![k] = "stop"]
  /\ UNCHANGED <<status, late, node, enq, lock, cutoff, batch, target, crashes,
                 dbErrors, sends>>

\* send_frame to the state taken before the await: the kernel takes the bytes,
\* whether or not the board is still there to read them
Send(k) ==
  /\ at[k] = "send"
  /\ sends' = [sends EXCEPT ![First(batch[k])] = @ + 1]
  /\ at' = [at EXCEPT ![k] = "mark"]
  /\ UNCHANGED <<status, late, node, enq, lock, cutoff, batch, target, crashes, dbErrors>>

SocketDead(c) == peer[c] = "left" \/ registered # c

\* ... or the socket is known to be dead: the drain stops
SendFails(k) ==
  /\ at[k] = "send" /\ SocketDead(target[k])
  /\ at' = [at EXCEPT ![k] = "stop"]
  /\ UNCHANGED <<status, late, node, enq, lock, cutoff, batch, target, crashes,
                 dbErrors, sends>>

\* mark_queued, whatever the row says by now
Mark(k) ==
  /\ at[k] = "mark"
  /\ status' = [status EXCEPT ![First(batch[k])] = "delivered"]
  /\ batch' = [batch EXCEPT ![k] = @ \ {First(@)}]
  /\ at' = [at EXCEPT ![k] = "next"]
  /\ UNCHANGED <<late, node, enq, lock, cutoff, target, crashes, dbErrors, sends>>

\* mark_queued raises, and drain_queue with it
MarkRaises(k) ==
  /\ at[k] = "mark" /\ crashes + dbErrors < MaxFaults
  /\ dbErrors' = dbErrors + 1
  /\ at' = [at EXCEPT ![k] = "stop"]
  /\ UNCHANGED <<status, late, node, enq, lock, cutoff, batch, target, crashes, sends>>

\* the lock passes on; a hello's handler goes on to its read loop
Release(k) ==
  /\ at[k] = "stop" \/ (at[k] = "next" /\ batch[k] = {})
  /\ at' = [at EXCEPT ![k] = "idle"]
  /\ cutoff' = [cutoff EXCEPT ![k] = {}]
  /\ batch' = [batch EXCEPT ![k] = {}]
  /\ target' = [target EXCEPT ![k] = Offline]
  /\ lock' = Tail(lock)
  /\ handler' = [c \in Conns |-> IF k = HelloDrain(c) THEN "loop" ELSE handler[c]]
  /\ enq' = [i \in Rows |-> IF k = EnqueueDrain(i) THEN "done" ELSE enq[i]]
  /\ UNCHANGED <<status, late, peer, registered, crashes, dbErrors, sends>>

-----------------------------------------------------------------------------

\* the hub process dies and restarts: the table is all that is left
Crash ==
  /\ crashes + dbErrors < MaxFaults
  /\ crashes' = crashes + 1
  /\ peer' = [c \in Conns |-> IF peer[c] = "up" THEN "left" ELSE peer[c]]
  /\ handler' = [c \in Conns |-> IF handler[c] = "none" THEN "none" ELSE "done"]
  /\ enq' = [i \in Rows |-> IF enq[i] = "none" THEN "none" ELSE "done"]
  /\ registered' = Offline
  /\ lock' = <<>>
  /\ at' = [k \in Drainers |-> "idle"]
  /\ cutoff' = [k \in Drainers |-> {}]
  /\ batch' = [k \in Drainers |-> {}]
  /\ target' = [k \in Drainers |-> Offline]
  /\ UNCHANGED <<status, late, dbErrors, sends>>

Next ==
  \/ \E i \in Rows : Enqueue(i) \/ EnqueueReturns(i) \/ CancelQueued(i) \/ Lapse(i)
  \/ \E c \in Conns :
       \/ Dial(c) \/ Leave(c) \/ Register(c) \/ Welcome(c) \/ SweepOffline(c) \/ Eof(c)
  \/ \E k \in Drainers :
       \/ Begin(k) \/ Take(k) \/ Expire(k) \/ Dispatch(k) \/ DispatchFails(k) \/ Send(k)
       \/ SendFails(k) \/ Mark(k) \/ MarkRaises(k) \/ Release(k)
  \/ Crash

Spec == Init /\ [][Next]_vars

-----------------------------------------------------------------------------
(* Properties *)

\* Every variable has its type, and a frame is only ever on its way to a node
\* that was online when its dispatch looked.
TypeOK ==
  /\ status \in [Rows -> {"none", "pending", "delivered", "expired", "cancelled"}]
  /\ late \subseteq Rows
  /\ peer \in [Conns -> {"idle", "up", "left"}]
  /\ handler \in [Conns -> {"none", "hello", "added", "draining", "loop", "done"}]
  /\ registered \in Conns \union {Offline}
  /\ enq \in [Rows -> {"none", "inserted", "draining", "done"}]
  /\ lock \in Seq(Drainers)
  /\ at \in [Drainers -> {"idle", "take", "expire", "next", "send", "mark", "stop"}]
  /\ cutoff \in [Drainers -> SUBSET Rows]
  /\ batch \in [Drainers -> SUBSET Rows]
  /\ target \in [Drainers -> Conns \union {Offline}]
  /\ \A k \in Drainers : at[k] \in {"send", "mark"} => target[k] # Offline /\ batch[k] # {}
  /\ crashes \in Nat /\ dbErrors \in Nat /\ crashes + dbErrors <= MaxFaults
  /\ sends \in [Rows -> Nat]

\* "In issue order" (core.py, drain_queue): no row is ever sent after a row that
\* was enqueued later, not across drains by different coroutines, reconnects in
\* the middle of a drain, failed marks or restarts of the hub.
InIssueOrder ==
  [][\A i, j \in Rows : sends'[i] > sends[i] /\ i < j => sends[j] = 0]_vars

\* "Serialized per node so a hello-drain and an enqueue-drain can't both read
\* the same pending rows and deliver them twice" (core.py, drain_queue): it
\* takes a crash or a database error for a row to be sent once more.
RepeatNeedsFault ==
  \A i \in Rows : sends[i] <= 1 + crashes + dbErrors

\* "A hub restart does not lose them" (docs/automation.md): a row leaves the
\* pending state only by being sent, cancelled, or found past its deadline.
NothingLost ==
  \A i \in Rows :
    /\ status[i] = "delivered" => sends[i] > 0
    /\ status[i] = "expired" => i \in late

\* An enqueue looks at the registry and a hello drains the table; between them
\* no row slips through: when the node is online and idle, and every request
\* and drain has run to its end, nothing that can be sent is left pending.
\* (A mark that raised ends its drain early.)
NothingStranded ==
  \A c \in Conns :
     /\ registered = c /\ peer[c] = "up" /\ handler[c] = "loop" /\ lock = <<>>
     /\ \A i \in Rows : enq[i] # "inserted"
     /\ dbErrors = 0
     => Pending = {}

=============================================================================
