---------------------------- MODULE NodeLifecycle ----------------------------
(***************************************************************************)
(* How a board becomes and stops being "online" on one hub: the connection *)
(* handler (tcp_server.py), the registry (registry.py), Hub.mark_offline   *)
(* (core.py) and the liveness sweep (tasks.py).                            *)
(*                                                                         *)
(* All of it runs on one asyncio loop, so a coroutine is atomic between    *)
(* two awaits and interleaves with the others at every await.  Nearly all  *)
(* awaits are database calls.  aiosqlite runs them on one thread, one      *)
(* round trip at a time and first come first served; a database method is  *)
(* one or more round trips.  dbq is that queue, so two coroutines that     *)
(* both wait for the database advance in the order it serves them.         *)
(*                                                                         *)
(* Left out: the payload of frames, capabilities, labels, the reconnect    *)
(* counter and the audit texts.                                            *)
(***************************************************************************)
EXTENDS Naturals, Sequences, FiniteSets

CONSTANTS
  Conns,        \* TCP connections; each is dialled at most once
  Nodes,        \* node ids
  Owner,        \* the node id that a connection's hello carries
  None,         \* no connection
  MaxDbErrors   \* bound: database calls that raise, the sweep's audit of one apart

ASSUME OwnerAssumption == Owner \in [Conns -> Nodes]
ASSUME NoneAssumption == None \notin Conns
ASSUME BoundsAssumption == MaxDbErrors \in Nat

VARIABLES
  peer,       \* the board's end: "idle", "up", or "left" (closed or vanished)
  closed,     \* the hub called writer.close() on the connection
  pc,         \* where handle_connection is
  registry,   \* Registry._nodes
  fresh,      \* NodeState.last_seen is within the stale threshold
  off,        \* how far mark_offline has got with the connection's state
  sweeper,    \* the sweep task: "alive", "erring" (auditing an error), "dead"
  snapshot,   \* states the running sweep has still to look at
  pending,    \* an OTA request of the state waits (NodeState.pending_results)
  dbq,        \* coroutines waiting for the database, first come first served
  trips,      \* round trips each still needs, the one queued included
  dbErrors,   \* database calls that raised so far
  \* observed by properties only
  seen,       \* what the last node_up / node_down broadcast said of a node
  replaced    \* the state was overwritten in the registry by a newer one

vars == <<peer, closed, pc, registry, fresh, off, sweeper, snapshot, pending, dbq,
          trips, dbErrors, seen, replaced>>

sweep == <<sweeper, snapshot>>

Handler(c) == <<"handler", c>>
Offliner(c) == <<"offliner", c>>
Sweeper == <<"sweeper">>
Coroutines == {Handler(c) : c \in Conns} \union {Offliner(c) : c \in Conns} \union {Sweeper}

\* Handler positions with a registered state behind them, and all of them.
Serving == {"announce", "fetch", "drain", "loop", "erring"}
Positions == Serving \union {"none", "hello", "auth", "refuse", "upsert", "ending", "done"}

\* Round trips of the database methods: a read is execute, fetch and close; a
\* write is execute and commit.
ReadTrips == 3
WriteTrips == 2

Init ==
  /\ peer = [c \in Conns |-> "idle"]
  /\ closed = [c \in Conns |-> FALSE]
  /\ pc = [c \in Conns |-> "none"]
  /\ registry = [n \in Nodes |-> None]
  /\ fresh = [c \in Conns |-> FALSE]
  /\ off = [c \in Conns |-> "no"]
  /\ sweeper = "alive"
  /\ snapshot = {}
  /\ pending = [c \in Conns |-> FALSE]
  /\ dbq = <<>>
  /\ trips = [k \in Coroutines |-> 0]
  /\ dbErrors = 0
  /\ seen = [n \in Nodes |-> "offline"]
  /\ replaced = [c \in Conns |-> FALSE]

-----------------------------------------------------------------------------
(* The database queue.  Await(k, n): the coroutine k calls a method of n   *)
(* round trips.  Served: the thread does one round trip of the head; the   *)
(* coroutine asks for the next one, at the back of the queue.              *)

AwaitFrom(q, k, n) ==
  /\ dbq' = Append(q, k)
  /\ trips' = [trips EXCEPT ![k] = n]

Await(k, n) == AwaitFrom(dbq, k, n)

DbRound ==
  /\ dbq # <<>>
  /\ trips[Head(dbq)] > 1
  /\ AwaitFrom(Tail(dbq), Head(dbq), trips[Head(dbq)] - 1)
  /\ UNCHANGED <<peer, closed, pc, registry, fresh, off, sweep, pending,
                 dbErrors, seen, replaced>>

\* k's database call has just finished; the continuation may await again.
LastTrip(k) == dbq # <<>> /\ Head(dbq) = k /\ trips[k] = 1
ThenAwait(k, n) == AwaitFrom(Tail(dbq), k, n)
ThenNothing(k) == dbq' = Tail(dbq) /\ trips' = [trips EXCEPT ![k] = 0]

\* ... or it raised.
DbFails == dbErrors < MaxDbErrors /\ dbErrors' = dbErrors + 1

-----------------------------------------------------------------------------
(* The board's end of a connection.                                        *)

\* A board holds one connection at a time; it dials again only after leaving.
Dial(c) ==
  /\ peer[c] = "idle"
  /\ \A d \in Conns : Owner[d] = Owner[c] => peer[d] # "up"
  /\ peer' = [peer EXCEPT ![c] = "up"]
  /\ pc' = [pc EXCEPT ![c] = "hello"]
  /\ UNCHANGED <<closed, registry, fresh, off, sweep, pending, dbq, trips,
                 dbErrors, seen, replaced>>

\* The board closes or vanishes at any moment: reset, power loss, Wi-Fi gone,
\* its own dead-hub timeout, or because it sees that the hub closed.
Leave(c) ==
  /\ peer[c] = "up"
  /\ peer' = [peer EXCEPT ![c] = "left"]
  /\ UNCHANGED <<closed, pc, registry, fresh, off, sweep, pending, dbq, trips,
                 dbErrors, seen, replaced>>

\* The reasons that are bound to make a board leave: the hub closed the socket,
\* or nothing arrives because the hub sends only to registered connections.
MustLeave(c) == closed[c] \/ (pc[c] = "loop" /\ registry[Owner[c]] # c)

-----------------------------------------------------------------------------
(* Hub.mark_offline, up to its first await: the identity check, the        *)
(* removal and the close.  Run by the handler's finally and by the sweep.  *)

\* "if self.registry.get(node_id) is not state: return", and a slip that OneFate
\* and TypeOK must notice: any state of the id will do
OwnsSomeone(c) == registry[Owner[c]] # None
Owns(c) == registry[Owner[c]] = c

BeginOffline(c) ==
  /\ registry' = [registry EXCEPT ![Owner[c]] = None]
  /\ closed' = [closed EXCEPT ![c] = TRUE]
  /\ off' = [off EXCEPT ![c] = "touch"]

\* handle_connection's finally once a state exists; q is the database queue.
Finally(c, q) ==
  /\ \/ /\ Owns(c)
        /\ BeginOffline(c)
        /\ AwaitFrom(q, Offliner(c), WriteTrips)
        /\ pc' = [pc EXCEPT ![c] = "ending"]
     \/ /\ ~Owns(c)
        /\ closed' = [closed EXCEPT ![c] = TRUE]
        /\ pc' = [pc EXCEPT ![c] = "done"]
        /\ dbq' = q
        /\ UNCHANGED <<registry, off, trips>>
  /\ UNCHANGED <<peer, fresh, sweep, pending, seen, replaced>>

-----------------------------------------------------------------------------
(* handle_connection *)

\* the hello arrives; the token hash is read
Hello(c) ==
  /\ pc[c] = "hello"
  /\ pc' = [pc EXCEPT ![c] = "auth"]
  /\ Await(Handler(c), ReadTrips)
  /\ UNCHANGED <<peer, closed, registry, fresh, off, sweep, pending, dbErrors,
                 seen, replaced>>

\* no hello came before the connection ended
NoHello(c) ==
  /\ pc[c] = "hello" /\ peer[c] = "left"
  /\ pc' = [pc EXCEPT ![c] = "done"]
  /\ closed' = [closed EXCEPT ![c] = TRUE]
  /\ UNCHANGED <<peer, registry, fresh, off, sweep, pending, dbq, trips, dbErrors,
                 seen, replaced>>

\* the hello is refused: audited, then closed
Refuse(c) ==
  /\ pc[c] = "auth" /\ LastTrip(Handler(c))
  /\ pc' = [pc EXCEPT ![c] = "refuse"]
  /\ ThenAwait(Handler(c), WriteTrips)
  /\ UNCHANGED <<peer, closed, registry, fresh, off, sweep, pending, dbErrors,
                 seen, replaced>>

\* a slip that NeverStranded must notice: a refused board is not hung up on
EndLeavesOpen(c) ==
  /\ pc[c] = "refuse" /\ LastTrip(Handler(c))
  /\ pc' = [pc EXCEPT ![c] = "done"]
  /\ ThenNothing(Handler(c))
  /\ UNCHANGED <<peer, closed, registry, fresh, off, sweep, pending, dbErrors, seen,
                 replaced>>

\* the handler ends with no state registered
End(c) ==
  /\ pc[c] = "refuse" /\ LastTrip(Handler(c))
  /\ pc' = [pc EXCEPT ![c] = "done"]
  /\ closed' = [closed EXCEPT ![c] = TRUE]
  /\ ThenNothing(Handler(c))
  /\ UNCHANGED <<peer, registry, fresh, off, sweep, pending, dbErrors, seen, replaced>>

\* the hello is accepted: the prior connection of the id, if any, is closed
Supersede(c) ==
  /\ pc[c] = "auth" /\ LastTrip(Handler(c))
  /\ pc' = [pc EXCEPT ![c] = "upsert"]
  /\ closed' = [d \in Conns |-> closed[d] \/ d = registry[Owner[c]]]
  /\ ThenAwait(Handler(c), WriteTrips)
  /\ UNCHANGED <<peer, registry, fresh, off, sweep, pending, dbErrors, seen, replaced>>

\* the row is upserted: a new state takes the id, whoever held it by now
Add(c) ==
  /\ pc[c] = "upsert" /\ LastTrip(Handler(c))
  /\ pc' = [pc EXCEPT ![c] = "announce"]
  /\ replaced' = [d \in Conns |-> replaced[d] \/ d = registry[Owner[c]]]
  /\ registry' = [registry EXCEPT ![Owner[c]] = c]
  /\ fresh' = [fresh EXCEPT ![c] = TRUE]
  /\ ThenAwait(Handler(c), WriteTrips)
  /\ UNCHANGED <<peer, closed, off, sweep, pending, dbErrors, seen>>

\* node_up is in the audit log; the row is read back
Fetch(c) ==
  /\ pc[c] = "announce" /\ LastTrip(Handler(c))
  /\ pc' = [pc EXCEPT ![c] = "fetch"]
  /\ ThenAwait(Handler(c), ReadTrips)
  /\ UNCHANGED <<peer, closed, registry, fresh, off, sweep, pending, dbErrors,
                 seen, replaced>>

\* merge_node: the row of a node with what the registry says of it
MergeNode(n) == IF registry[n] = None THEN "offline" ELSE "online"

\* a slip that RosterAgrees must notice: node_up says online without looking
AnnounceOnline(c) ==
  /\ pc[c] = "fetch" /\ LastTrip(Handler(c))
  /\ pc' = [pc EXCEPT ![c] = "drain"]
  /\ seen' = [seen EXCEPT ![Owner[c]] = "online"]
  /\ ThenNothing(Handler(c))
  /\ UNCHANGED <<peer, closed, registry, fresh, off, sweep, pending, dbErrors, replaced>>

\* node_up goes to the browsers, carrying merge_node's status of this moment
Announce(c) ==
  /\ pc[c] = "fetch" /\ LastTrip(Handler(c))
  /\ pc' = [pc EXCEPT ![c] = "drain"]
  /\ seen' = [seen EXCEPT ![Owner[c]] = MergeNode(Owner[c])]
  /\ ThenNothing(Handler(c))
  /\ UNCHANGED <<peer, closed, registry, fresh, off, sweep, pending, dbErrors, replaced>>

\* welcome and the queue drain, which swallow their errors, are over
Drained(c) ==
  /\ pc[c] = "drain"
  /\ pc' = [pc EXCEPT ![c] = "loop"]
  /\ UNCHANGED <<peer, closed, registry, fresh, off, sweep, pending, dbq, trips,
                 dbErrors, seen, replaced>>

\* a frame of the board is handled, registered or not; a result may be the
\* answer to the pending OTA request
Frame(c) ==
  /\ pc[c] = "loop" /\ peer[c] = "up"
  /\ fresh' = [fresh EXCEPT ![c] = TRUE]
  /\ UNCHANGED pending \/ pending' = [pending EXCEPT ![c] = FALSE]
  /\ UNCHANGED <<peer, closed, pc, registry, off, sweep, dbq, trips, dbErrors,
                 seen, replaced>>

\* read_frame raises: the board left (FIN, reset or keepalive) or we closed; or bye
Eof(c) ==
  /\ pc[c] = "loop" /\ (peer[c] = "left" \/ closed[c])
  /\ Finally(c, dbq)
  /\ UNCHANGED dbErrors

\* a database call of the handler raised: audit it, then finally
Raise(c) ==
  /\ pc[c] \in {"announce", "fetch"} /\ LastTrip(Handler(c)) /\ DbFails
  /\ pc' = [pc EXCEPT ![c] = "erring"]
  /\ ThenAwait(Handler(c), WriteTrips)
  /\ UNCHANGED <<peer, closed, registry, fresh, off, sweep, pending, seen, replaced>>

RaiseUnregistered(c) ==
  /\ pc[c] \in {"auth", "upsert"} /\ LastTrip(Handler(c)) /\ DbFails
  /\ pc' = [pc EXCEPT ![c] = "refuse"]
  /\ ThenAwait(Handler(c), WriteTrips)
  /\ UNCHANGED <<peer, closed, registry, fresh, off, sweep, pending, seen, replaced>>

Erred(c) ==
  /\ pc[c] = "erring" /\ LastTrip(Handler(c))
  /\ Finally(c, Tail(dbq))
  /\ UNCHANGED dbErrors

-----------------------------------------------------------------------------
(* The rest of mark_offline, whoever runs it.  A handler that runs it ends *)
(* when it returns.                                                        *)

HandlerAfter(c) == pc' = [pc EXCEPT ![c] = IF @ = "ending" THEN "done" ELSE @]

\* touch_node is done: fail the OTA future, close bridge clients, audit
FailPending(c) ==
  /\ off[c] = "touch" /\ LastTrip(Offliner(c))
  /\ off' = [off EXCEPT ![c] = "audit"]
  /\ pending' = [pending EXCEPT ![c] = FALSE]
  /\ ThenAwait(Offliner(c), WriteTrips)
  /\ UNCHANGED <<peer, closed, pc, registry, fresh, sweep, dbErrors, seen, replaced>>

\* node_down is in the audit log and goes to the browsers
AnnounceDown(c) ==
  /\ off[c] = "audit" /\ LastTrip(Offliner(c))
  /\ off' = [off EXCEPT ![c] = "done"]
  /\ seen' = [seen EXCEPT ![Owner[c]] = "offline"]
  /\ HandlerAfter(c)
  /\ ThenNothing(Offliner(c))
  /\ UNCHANGED <<peer, closed, registry, fresh, sweep, pending, dbErrors, replaced>>

\* a database call of mark_offline raised: the rest of it does not happen.  The
\* sweep gives up its round and audits the error.
OfflineRaises(c) ==
  /\ off[c] \in {"touch", "audit"} /\ LastTrip(Offliner(c)) /\ DbFails
  /\ off' = [off EXCEPT ![c] = "failed"]
  /\ HandlerAfter(c)
  /\ \/ pc[c] = "ending" /\ ThenNothing(Offliner(c)) /\ UNCHANGED sweep
     \/ /\ pc[c] # "ending"
        /\ sweeper' = "erring" /\ snapshot' = {}
        /\ ThenAwait(Sweeper, WriteTrips)
  /\ UNCHANGED <<peer, closed, registry, fresh, pending, seen, replaced>>

-----------------------------------------------------------------------------
(* liveness_sweep: a snapshot of the registry, then one state at a time,   *)
(* awaiting mark_offline of each stale one before looking at the next.     *)
(* The moment between two states is left open: it stands for the waits on  *)
(* the states of nodes that an instance does not have.                     *)

\* the stale threshold passes without a handled frame; the age of a state that
\* is not registered is never looked at
GoStale(c) ==
  /\ fresh[c] /\ registry[Owner[c]] = c
  /\ fresh' = [fresh EXCEPT ![c] = FALSE]
  /\ UNCHANGED <<peer, closed, pc, registry, off, sweep, pending, dbq, trips,
                 dbErrors, seen, replaced>>

\* the sweep awaits a mark_offline of its own; the handler's are "ending"
Sweeping == \E c \in Conns : off[c] \in {"touch", "audit"} /\ pc[c] # "ending"

Registered == {c \in Conns : registry[Owner[c]] = c}

SweepStart ==
  /\ sweeper = "alive" /\ snapshot = {} /\ ~Sweeping /\ Registered # {}
  /\ snapshot' = Registered
  /\ UNCHANGED <<peer, closed, pc, registry, fresh, off, sweeper, pending, dbq, trips,
                 dbErrors, seen, replaced>>

\* status is "offline" exactly once mark_offline has begun
SweepSkip(c) ==
  /\ c \in snapshot /\ ~Sweeping
  /\ off[c] # "no" \/ fresh[c] \/ ~Owns(c)
  /\ snapshot' = snapshot \ {c}
  /\ UNCHANGED <<peer, closed, pc, registry, fresh, off, sweeper, pending, dbq, trips,
                 dbErrors, seen, replaced>>

\* a slip that DeadNodeDropped must notice: only sockets already closed are swept
SweepClosedOnly(c) ==
  /\ c \in snapshot /\ ~Sweeping
  /\ off[c] = "no" /\ ~fresh[c] /\ Owns(c) /\ closed[c]
  /\ snapshot' = snapshot \ {c}
  /\ BeginOffline(c)
  /\ Await(Offliner(c), WriteTrips)
  /\ UNCHANGED <<peer, pc, fresh, sweeper, pending, dbErrors, seen, replaced>>

SweepOffline(c) ==
  /\ c \in snapshot /\ ~Sweeping
  /\ off[c] = "no" /\ ~fresh[c] /\ Owns(c)
  /\ snapshot' = snapshot \ {c}
  /\ BeginOffline(c)
  /\ Await(Offliner(c), WriteTrips)
  /\ UNCHANGED <<peer, pc, fresh, sweeper, pending, dbErrors, seen, replaced>>

\* the error is audited and the loop goes on ...
SweepErred ==
  /\ sweeper = "erring" /\ LastTrip(Sweeper)
  /\ sweeper' = "alive"
  /\ ThenNothing(Sweeper)
  /\ UNCHANGED <<peer, closed, pc, registry, fresh, off, snapshot, pending, dbErrors,
                 seen, replaced>>

\* ... or the audit raises in the except clause, and the task ends
SweepDies ==
  /\ sweeper = "erring" /\ LastTrip(Sweeper)
  /\ sweeper' = "dead"
  /\ ThenNothing(Sweeper)
  /\ UNCHANGED <<peer, closed, pc, registry, fresh, off, snapshot, pending, dbErrors,
                 seen, replaced>>

-----------------------------------------------------------------------------
(* Hub.request: an OTA frame sent to the registered state, its future      *)
(* waiting for the result; asyncio.wait_for gives up after its timeout.    *)

Request(c) ==
  /\ registry[Owner[c]] = c /\ ~pending[c]
  /\ pending' = [pending EXCEPT ![c] = TRUE]
  /\ UNCHANGED <<peer, closed, pc, registry, fresh, off, sweep, dbq, trips,
                 dbErrors, seen, replaced>>

RequestTimeout(c) ==
  /\ pending[c]
  /\ pending' = [pending EXCEPT ![c] = FALSE]
  /\ UNCHANGED <<peer, closed, pc, registry, fresh, off, sweep, dbq, trips,
                 dbErrors, seen, replaced>>

-----------------------------------------------------------------------------

Handling(c) ==
  \/ Hello(c) \/ Refuse(c) \/ End(c) \/ Supersede(c) \/ Add(c)
  \/ Fetch(c) \/ Announce(c) \/ Drained(c) \/ Erred(c)
  \/ FailPending(c) \/ AnnounceDown(c)

Raising(c) == Raise(c) \/ RaiseUnregistered(c) \/ OfflineRaises(c)

Next ==
  \/ DbRound \/ SweepStart \/ SweepErred \/ SweepDies
  \/ \E c \in Conns :
       \/ Dial(c) \/ Leave(c) \/ NoHello(c) \/ Frame(c) \/ Eof(c) \/ GoStale(c)
       \/ SweepSkip(c) \/ SweepOffline(c) \/ Request(c) \/ RequestTimeout(c)
       \/ Handling(c) \/ Raising(c)

Spec == Init /\ [][Next]_vars

\* The database thread and the loop do not stop; the sweep runs for ever; a
\* silent board goes stale; a close ends the read; a board leaves a connection
\* that the hub has closed or no longer talks to.  TCP keepalive, a best-effort
\* backstop, is not relied on: Eof after a board vanished carries no fairness.
Fairness ==
  /\ WF_vars(DbRound) /\ WF_vars(SweepStart) /\ WF_vars(SweepErred \/ SweepDies)
  /\ \A c \in Conns :
       /\ WF_vars(Handling(c) \/ Raising(c))
       /\ WF_vars(closed[c] /\ Eof(c))
       /\ WF_vars(SweepSkip(c) \/ SweepOffline(c))
       /\ WF_vars(peer[c] = "left" /\ GoStale(c))
       /\ WF_vars(MustLeave(c) /\ Leave(c))

FairSpec == Spec /\ Fairness

-----------------------------------------------------------------------------
(* Properties *)

\* Every variable has its type; a coroutine waits for at most one database call; and
\* there are no ghosts: a node listed online has a connection of its own whose handler
\* is still running.
TypeOK ==
  /\ peer \in [Conns -> {"idle", "up", "left"}]
  /\ closed \in [Conns -> BOOLEAN]
  /\ pc \in [Conns -> Positions]
  /\ registry \in [Nodes -> Conns \union {None}]
  /\ \A n \in Nodes :
       registry[n] # None => Owner[registry[n]] = n /\ pc[registry[n]] \in Serving
  /\ fresh \in [Conns -> BOOLEAN]
  /\ off \in [Conns -> {"no", "touch", "audit", "done", "failed"}]
  /\ sweeper \in {"alive", "erring", "dead"}
  /\ snapshot \subseteq Conns
  /\ pending \in [Conns -> BOOLEAN]
  /\ dbq \in Seq(Coroutines)
  /\ trips \in [Coroutines -> 0..ReadTrips]
  /\ \A p, q \in 1..Len(dbq) : dbq[p] = dbq[q] => p = q
  /\ dbErrors \in 0..MaxDbErrors
  /\ seen \in [Nodes -> {"online", "offline"}]
  /\ replaced \in [Conns -> BOOLEAN]

\* "Flip a node offline exactly once. Safe if it was already replaced by a
\* reconnect" (core.py, mark_offline): every registered state has exactly one
\* fate, it holds the id, it was replaced, or it was taken offline; and a request
\* that waited on a state does not survive its mark_offline, however the answer,
\* the timeout, handlers, sweeps and reconnects raced.
OneFate ==
  \A c \in Conns :
    /\ pc[c] \in Serving \union {"ending"} =>
         Cardinality({f \in {"holds", "replaced", "offline"} :
                        \/ f = "holds" /\ registry[Owner[c]] = c
                        \/ f = "replaced" /\ replaced[c]
                        \/ f = "offline" /\ off[c] # "no"}) = 1
    /\ off[c] \in {"audit", "done"} => ~pending[c]

\* What browsers last heard of a node is what the registry says, once no
\* announcement about the node is still on its way.  The node_down of an old
\* connection and the node_up of the next are broadcast by two coroutines that
\* race through the database; only its queue order keeps them in order.  (A
\* call that raised leaves an announcement out.)
Announcing(n) ==
  \E c \in Conns : Owner[c] = n /\ (pc[c] \in {"announce", "fetch"} \/ off[c] \in {"touch", "audit"})

RosterAgrees ==
  \A n \in Nodes :
     ~Announcing(n) /\ dbErrors = 0 => seen[n] = MergeNode(n)

\* A board that has gone is taken off the roster even if its socket never
\* reports it (half-open), as long as the sweep task lives.
DeadNodeDropped ==
  \A c \in Conns : peer[c] = "left" ~> registry[Owner[c]] # c \/ sweeper = "dead"

\* A board never sits for ever on a connection under which the hub does not
\* list it: it comes to hold its id, or it leaves and can dial again.
NeverStranded ==
  \A c \in Conns : peer[c] = "up" ~> (registry[Owner[c]] = c \/ peer[c] # "up")

=============================================================================
