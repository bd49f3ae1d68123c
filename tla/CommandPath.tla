----------------------------- MODULE CommandPath -----------------------------
(***************************************************************************)
(* The way of a command and of a console's output between the hub's API and *)
(* one target: the hub dispatches (core.py, rest.py) down the connection,   *)
(* the board's session loop carries out (code.py), its serial back-channel  *)
(* writes and reads (backchannel.py), and the hub's connection handler      *)
(* (tcp_server.py) stores results and output (db.py, tasks.py).             *)
(*                                                                         *)
(* API requests, one handler for each connection, the output flusher and    *)
(* the board are concurrent; the hub's coroutines interleave at every await. *)
(*                                                                         *)
(* Left out: how a connection comes up and goes down on the hub             *)
(* (NodeLifecycle), staged commands (OfflineQueue), OTA frames (OtaPush),   *)
(* pings, heartbeats, audit rows and browsers' events (EventBus).           *)
(***************************************************************************)
EXTENDS Naturals, Sequences, FiniteSets, Functions

CONSTANTS
  Payload,      \* bytes of a send
  Budget,       \* cfg.serial_tx_budget: bytes that one pass of the loop writes
  TxBound,      \* BackChannel._tx_bound
  MaxCommands,  \* bound: commands and bytes from the bridge
  MaxConns,     \* bound: connections of the board
  MaxOutput,    \* bound: lines that the target prints
  MaxInputs,    \* bound: the two together
  MaxFaults     \* bound: errors of the serial port and of the database

ASSUME SerialAssumption == Payload \in Nat \ {0} /\ Budget \in Nat \ {0} /\ TxBound \in Nat
ASSUME CommandBoundsAssumption ==
  MaxCommands \in Nat /\ MaxConns \in Nat \ {0} /\ MaxOutput \in Nat
  /\ MaxInputs \in Nat /\ MaxFaults \in Nat

VARIABLES
  commands,  \* dispatched so far: kind, connection, where dispatch_command stands
             \* ("insert", "fail", "over") and the status of its row
  conns,     \* the board's connections: frames to the board, messages from it, what
             \* the handler does, whether its link is cut or the hub has closed it
  entry,     \* the connection that the registry lists, or 0
  on,        \* the board's socket is open; it belongs to the newest connection
  tx,        \* BackChannel._tx_queue, as the bytes that are left: each its command
  pending,   \* BackChannel._tx_pending
  console,   \* lines of the target that the board has not read
  target,    \* how many bytes or key presses of each command the target received
  buf,       \* Database._output_buf, as <<connection, line>>
  db,        \* requests for the database thread: rows to insert, or a listing
  log,       \* the output_log table
  results,   \* the results table, as <<command, lines>>, in no order
  request,   \* what a request for the node's output still has to do: "flush", "start"
             \* (of a recording), "list"; the first is under way
  need,      \* what the hub had received when that request began
  printed, faults,
  lost       \* observed only: rows whose insertion raised

vars == <<commands, conns, entry, on, tx, pending, console, target, buf, db, log, results,
          request, need, printed, faults, lost>>
board == <<on, tx, pending, console, target>>
output == <<buf, db, log, request, need, lost>>

Commands == 1..Len(commands)
Conns == 1..Len(conns)
Newest == Len(conns)

\* what the board sends: output of the target (0), or the result of a command
Message == [cmd : 0..Len(commands), ok : BOOLEAN, lines : Seq(1..MaxOutput)]
Result(i, ok, lines) == [cmd |-> i, ok |-> ok, lines |-> lines]
OutputOf(line) == Result(0, TRUE, <<line>>)
Nothing == Result(0, TRUE, <<>>)

\* "at" is where the handler is, and "got" the result that it has taken
Connection == [down |-> <<>>, up |-> <<>>, at |-> "read", got |-> Nothing,
               cut |-> FALSE, closed |-> FALSE]
Becomes(c, connection) == conns' = [conns EXCEPT ![c] = connection]

Init ==
  /\ commands = <<>> /\ conns = <<Connection>> /\ entry = 1
  /\ on = TRUE /\ tx = <<>> /\ pending = 0 /\ console = <<>>
  /\ target = [i \in 1..MaxCommands |-> 0]
  /\ buf = <<>> /\ db = <<>> /\ log = <<>> /\ results = {}
  /\ request = <<>> /\ need = {} /\ printed = 0 /\ faults = 0 /\ lost = {}

Bounded == Len(commands) + printed < MaxInputs
Fault == faults < MaxFaults /\ faults' = faults + 1

-----------------------------------------------------------------------------
(* The hub: requests that dispatch a command.  Typing, chords, SysRq and     *)
(* sequences are key presses, and the same to all properties here.          *)

PostCmd == {"keys", "read", "send"}
PostKeys == {"keys"}
PostSequence == {"keys"}
PostRead == {"read"}
PostSysrq == {"keys"}
BulkCmd == PostCmd
RunMacro == {"keys"}

Kinds == PostCmd \union PostKeys \union PostSequence \union PostRead \union PostSysrq
         \union BulkCmd \union RunMacro

\* dispatch_command looks the connection up once, and inserts the row
Dispatch(kind) ==
  /\ entry # 0 /\ Len(commands) < MaxCommands /\ Bounded
  /\ commands' = Append(commands, [kind |-> kind, conn |-> entry, at |-> "insert", row |-> "none"])
  /\ UNCHANGED <<conns, entry, board, output, results, printed, faults>>

Writable(c) == ~conns[c].closed

\* a frame is written to a connection; if its link is cut it goes nowhere
Framed(c, i) ==
  Becomes(c, IF conns[c].cut THEN conns[c] ELSE [conns[c] EXCEPT !.down = Append(@, i)])

\* where a command stands, and its row
Moves(i, at, row) == commands' = [commands EXCEPT ![i] = [@ EXCEPT !.at = at, !.row = row]]

\* the row is there; the frame goes down the connection that was looked up
Send(i) ==
  /\ commands[i].at = "insert"
  /\ IF Writable(commands[i].conn)
     THEN /\ Framed(commands[i].conn, i)
          /\ Moves(i, "over", "sent")
     ELSE /\ Moves(i, "fail", "sent")
          /\ UNCHANGED conns
  /\ UNCHANGED <<entry, board, output, results, printed, faults>>

SendFails(i) ==
  /\ commands[i].at = "fail"
  /\ Moves(i, "over", "failed")
  /\ UNCHANGED <<conns, entry, board, output, results, printed, faults>>

\* bytes from a client of the bridge: a frame without a row
BridgeSend ==
  /\ entry # 0 /\ Writable(entry) /\ Len(commands) < MaxCommands /\ Bounded
  /\ Framed(entry, Len(commands) + 1)
  /\ commands' = Append(commands, [kind |-> "bridge", conn |-> entry, at |-> "over", row |-> "none"])
  /\ UNCHANGED <<entry, board, output, results, printed, faults>>

-----------------------------------------------------------------------------
(* The board: frames as they come, and passes of the loop between them.     *)

Reads == on /\ conns[Newest].down # <<>>

\* messages that the board sends; to a dead or a closed connection they are lost
Sent(messages) ==
  LET c == conns[Newest] IN IF c.cut \/ c.closed THEN c.up ELSE c.up \o messages

Answers(messages) ==
  Becomes(Newest, [conns[Newest] EXCEPT !.down = Tail(@), !.up = Sent(messages)])

Injects(i) ==
  /\ commands[i].kind = "keys"
  /\ \/ target' = [target EXCEPT ![i] = @ + 1] /\ Answers(<<Result(i, TRUE, <<>>)>>)
     \/ UNCHANGED target /\ Answers(<<Result(i, FALSE, <<>>)>>)      \* InjectError
  /\ UNCHANGED <<tx, pending, console>>

\* all that is buffered goes into the result, and to no output message
ReadAll(i) ==
  /\ commands[i].kind = "read"
  /\ Answers(<<Result(i, TRUE, console)>>) /\ console' = <<>>
  /\ UNCHANGED <<tx, pending, target>>

\* a slip that OkMeansDone must notice: acknowledged when it is queued
AcksAtOnce(i) == <<Result(i, TRUE, <<>>)>>

\* the result of a send waits until its last byte is written
Accepted(i) == <<>>

QueueWrite(i) ==
  /\ commands[i].kind \in {"send", "bridge"}
  /\ IF pending + Payload > TxBound
     THEN Answers(<<Result(i, FALSE, <<>>)>>) /\ UNCHANGED <<tx, pending>>
     ELSE /\ tx' = tx \o [b \in 1..Payload |-> i]
          /\ pending' = pending + Payload
          /\ Answers(Accepted(i))
  /\ UNCHANGED <<console, target>>

Carry ==
  /\ Reads
  /\ LET i == Head(conns[Newest].down) IN Injects(i) \/ ReadAll(i) \/ QueueWrite(i)
  /\ UNCHANGED <<commands, entry, on, output, results, printed, faults>>

\* poll_output takes a line of the console, if there is one
Polled == IF console = <<>> THEN <<>> ELSE <<OutputOf(Head(console))>>

\* the bytes of a command among the first n of the queue
Bytes(n, i) == Cardinality({p \in 1..n : tx[p] = i})

\* the commands at some places of the queue, in its order
InOrder(places) ==
  {[k \in DOMAIN s |-> tx[s[k]]] :
     s \in {f \in [1..Cardinality(places) -> places] : \A j, k \in DOMAIN f : j < k => f[j] < f[k]}}

\* a slip that Settles must notice: a job ends only where the next one begins
MidQueue(n) == {p \in 1..n : p < Len(tx) /\ tx[p + 1] # tx[p]}

\* the places among the first n of the queue where a job ends
Finished(n) == {p \in 1..n : p = Len(tx) \/ tx[p + 1] # tx[p]}

\* a pass: poll_output, then drain_tx, which finds room for n bytes
Pass(n) ==
  /\ on /\ n <= Budget /\ n <= Len(tx) /\ (n > 0 \/ console # <<>>)
  /\ console' = IF console = <<>> THEN <<>> ELSE Tail(console)
  /\ target' = [i \in DOMAIN target |-> target[i] + Bytes(n, i)]
  /\ tx' = SubSeq(tx, n + 1, Len(tx)) /\ pending' = pending - n
  /\ \E done \in InOrder(Finished(n)) :
       Becomes(Newest, [conns[Newest] EXCEPT !.up =
                          Sent(Polled \o [k \in DOMAIN done |-> Result(done[k], TRUE, <<>>)])])
  /\ UNCHANGED <<commands, entry, on, output, results, printed, faults>>

\* a slip that TypeOK must notice: what was written already is subtracted again
Whole(i) == Payload

Remaining(i) == Bytes(Len(tx), i)

\* the write raises: the job at the head fails, its other bytes are dropped
WriteFails ==
  /\ on /\ tx # <<>> /\ Fault
  /\ LET i == Head(tx) IN
     /\ tx' = SubSeq(tx, Bytes(Len(tx), i) + 1, Len(tx)) /\ pending' = pending - Remaining(i)
     /\ Becomes(Newest, [conns[Newest] EXCEPT !.up = Sent(<<Result(i, FALSE, <<>>)>>)])
  /\ UNCHANGED <<commands, entry, on, console, target, output, results, printed>>

\* a send or a receive raises, or the hub is silent for too long
Leave ==
  /\ on /\ (conns[Newest].cut \/ conns[Newest].closed)
  /\ on' = FALSE
  /\ Becomes(Newest, [conns[Newest] EXCEPT !.cut = TRUE, !.down = <<>>])
  /\ UNCHANGED <<commands, entry, tx, pending, console, target, output, results, printed, faults>>

\* the loop of main dials, and the hub registers the new connection
Connect ==
  /\ ~on /\ Len(conns) < MaxConns
  /\ on' = TRUE /\ tx' = <<>> /\ pending' = 0
  /\ conns' = Append([c \in Conns |-> [conns[c] EXCEPT !.closed = TRUE]], Connection)
  /\ entry' = Len(conns) + 1
  /\ UNCHANGED <<commands, console, target, output, results, printed, faults>>

-----------------------------------------------------------------------------
(* The hub: a connection's handler.                                         *)

Takes(c, at, message) ==
  Becomes(c, [conns[c] EXCEPT !.up = Tail(@), !.at = at, !.got = message])
Reading(c) == conns[c].at = "read" /\ conns[c].up # <<>>

Output(c) ==
  /\ Reading(c) /\ Head(conns[c].up).cmd = 0
  /\ Takes(c, "read", Nothing)
  /\ buf' = Append(buf, <<c, Head(Head(conns[c].up).lines)>>)
  /\ UNCHANGED <<commands, entry, board, db, log, request, need, lost, results, printed, faults>>

\* the ack of bytes from the bridge is swallowed
ResultComes(c) ==
  /\ Reading(c)
  /\ LET m == Head(conns[c].up) IN
     /\ m.cmd # 0
     /\ IF commands[m.cmd].kind = "bridge" THEN Takes(c, "read", Nothing)
        ELSE Takes(c, "complete", m)
  /\ UNCHANGED <<commands, entry, board, output, results, printed, faults>>

\* complete_command: "ok" is stored as "done"
Status(ok) == IF ok THEN "done" ELSE "failed"

Complete(c) ==
  /\ conns[c].at = "complete"
  /\ LET m == conns[c].got IN Moves(m.cmd, commands[m.cmd].at, Status(m.ok))
  /\ Becomes(c, [conns[c] EXCEPT !.at = "store"])
  /\ UNCHANGED <<entry, board, output, results, printed, faults>>

InsertResult(c) ==
  /\ conns[c].at = "store"
  /\ results' = results \union {<<conns[c].got.cmd, conns[c].got.lines>>}
  /\ Becomes(c, [conns[c] EXCEPT !.at = "read", !.got = Nothing])
  /\ UNCHANGED <<commands, entry, board, output, printed, faults>>

\* the handler ends: its connection is closed and, if it is the listed one, gone
Ends(c) ==
  /\ Becomes(c, [conns[c] EXCEPT !.at = "over", !.got = Nothing, !.closed = TRUE, !.up = <<>>])
  /\ entry' = IF entry = c THEN 0 ELSE entry

Eof(c) ==
  /\ conns[c].at = "read" /\ conns[c].up = <<>> /\ (conns[c].cut \/ conns[c].closed)
  /\ Ends(c)
  /\ UNCHANGED <<commands, board, output, results, printed, faults>>

\* completing the row or inserting the result raises
HandlerRaises(c) ==
  /\ conns[c].at \in {"complete", "store"} /\ Fault
  /\ Ends(c)
  /\ UNCHANGED <<commands, board, output, results, printed>>

-----------------------------------------------------------------------------
(* The hub: the output log.                                                 *)

Asks(by, rows) == db' = Append(db, [by |-> by, rows |-> rows])

\* a slip that OutputOnce must notice: the buffer is not emptied when it is taken
Copied(k) == Asks(k, buf) /\ UNCHANGED buf

\* flush_output empties the buffer before it awaits the insertion
FlushedBy(k) == Asks(k, buf) /\ buf' = <<>>

Flush ==
  /\ buf # <<>> /\ (\A j \in DOMAIN db : db[j].by # "flusher")
  /\ FlushedBy("flusher")
  /\ UNCHANGED <<commands, conns, entry, board, log, request, need, lost, results, printed, faults>>

\* all output that the hub has taken in and the database has not refused
Received == Range(log) \union Range(buf) \union UNION {Range(db[j].rows) : j \in DOMAIN db}

\* a slip that BackfillComplete must notice: the listing does not flush first
Unflushed(steps) == request' = steps /\ Asks(Head(steps), <<>>) /\ UNCHANGED buf

FlushFirst(steps) ==
  IF buf = <<>> THEN request' = steps /\ Asks(Head(steps), <<>>) /\ UNCHANGED buf
  ELSE request' = <<"flush">> \o steps /\ FlushedBy("flush")

Begins(steps) ==
  /\ request = <<>> /\ need' = Received /\ FlushFirst(steps)
  /\ UNCHANGED <<commands, conns, entry, board, log, lost, results, printed, faults>>

NodeOutput == Begins(<<"list">>)
OutputSearch == Begins(<<"list">>)
NodeOutputDownload == Begins(<<"list">>)
SessionCast == Begins(<<"start", "list">>)

\* the database thread has answered its first request; the handler of a request for
\* output goes on with its next step, or answers
Answered(steps) ==
  /\ request' = steps
  /\ IF steps \in {<<>>, request} THEN db' = Tail(db)
     ELSE db' = Append(Tail(db), [by |-> Head(steps), rows |-> <<>>])
  /\ need' = IF steps = <<>> THEN {} ELSE need

Inserted ==
  /\ db # <<>> /\ Head(db).by \in {"flusher", "flush"}
  /\ log' = log \o Head(db).rows
  /\ Answered(IF Head(db).by = "flush" THEN Tail(request) ELSE request)
  /\ UNCHANGED <<commands, conns, entry, board, buf, lost, results, printed, faults>>

InsertRaises ==
  /\ db # <<>> /\ Head(db).by \in {"flusher", "flush"} /\ Fault
  /\ lost' = lost \union Range(Head(db).rows)
  /\ Answered(IF Head(db).by = "flush" THEN <<>> ELSE request)
  /\ UNCHANGED <<commands, conns, entry, board, buf, log, results, printed>>

Listed ==
  /\ db # <<>> /\ Head(db).by \in {"start", "list"}
  /\ Answered(Tail(request))
  /\ UNCHANGED <<commands, conns, entry, board, buf, log, lost, results, printed, faults>>

-----------------------------------------------------------------------------
(* The target and the link.                                                 *)

Prints ==
  /\ printed < MaxOutput /\ Bounded /\ printed' = printed + 1
  /\ console' = Append(console, printed + 1)
  /\ UNCHANGED <<commands, conns, entry, on, tx, pending, target, output, results, faults>>

\* a part of what is on its way still arrives
Cut ==
  /\ on /\ ~conns[Newest].cut /\ Len(conns) < MaxConns
  /\ \E u \in 0..Len(conns[Newest].up), d \in 0..Len(conns[Newest].down) :
       Becomes(Newest, [conns[Newest] EXCEPT !.cut = TRUE, !.up = SubSeq(@, 1, u),
                                             !.down = SubSeq(@, 1, d)])
  /\ UNCHANGED <<commands, entry, board, output, results, printed, faults>>

-----------------------------------------------------------------------------

Dispatches == \E i \in Commands : Send(i) \/ SendFails(i)
Handler(c) == Output(c) \/ ResultComes(c) \/ Complete(c) \/ InsertResult(c) \/ Eof(c)
Database == Inserted \/ Listed
Writes == \E n \in 1..Budget : Pass(n)

Next ==
  \/ (\E kind \in Kinds : Dispatch(kind)) \/ BridgeSend \/ Dispatches
  \/ \E c \in Conns : Handler(c) \/ HandlerRaises(c)
  \/ Carry \/ Pass(0) \/ Writes \/ WriteFails \/ Leave \/ Connect
  \/ Flush \/ NodeOutput \/ OutputSearch \/ NodeOutputDownload \/ SessionCast
  \/ Database \/ InsertRaises
  \/ Prints \/ Cut

Spec == Init /\ [][Next]_vars

\* the hub's coroutines are resumed, the board's loop runs, the target takes bytes
FairSpec ==
  /\ Spec /\ WF_vars(Dispatches) /\ WF_vars(Carry) /\ WF_vars(Writes)
  /\ \A c \in 1..MaxConns : WF_vars(c \in Conns /\ Handler(c))

-----------------------------------------------------------------------------

Rows == (1..MaxConns) \X (1..MaxOutput)

Connections == [down : Seq(Commands), up : Seq(Message), at : {"read", "complete", "store", "over"},
                got : Message, cut : BOOLEAN, closed : BOOLEAN]

\* The one type invariant; and BackChannel._tx_pending is what the queue holds, also
\* after partial writes, refusals, errors and reconnections.
TypeOK ==
  /\ commands \in Seq([kind : Kinds \union {"bridge"}, conn : 1..MaxConns,
                       at : {"insert", "fail", "over"}, row : {"none", "sent", "done", "failed"}])
  /\ Len(commands) <= MaxCommands
  /\ conns \in Seq(Connections) /\ Len(conns) \in 1..MaxConns /\ entry \in 0..Len(conns)
  /\ on \in BOOLEAN /\ tx \in Seq(Commands) /\ pending = Len(tx)
  /\ console \in Seq(1..MaxOutput) /\ target \in [1..MaxCommands -> Nat]
  /\ buf \in Seq(Rows) /\ log \in Seq(Rows) /\ lost \subseteq Rows /\ need \subseteq Rows
  /\ db \in Seq([by : {"flusher", "flush", "start", "list"}, rows : Seq(Rows)])
  /\ results \subseteq Commands \X Seq(1..MaxOutput)
  /\ request \in Seq({"flush", "start", "list"})
  /\ printed \in 0..MaxOutput /\ faults \in 0..MaxFaults

\* how much of a command there is for the target to have
Size(i) == CASE commands[i].kind = "keys" -> 1 [] commands[i].kind = "read" -> 0 [] OTHER -> Payload

\* A command's row says done only once the target has had all of it, and the target
\* never has more than that (Hub.dispatch_command, handle_message, BackChannel.drain_tx:
\* the result of a send is deferred).
OkMeansDone ==
  \A i \in Commands :
    /\ target[i] <= Size(i)
    /\ commands[i].row = "done" => target[i] = Size(i)

\* the rows that the hub holds, oldest first: logged, in a request, in the buffer
Part(j) == IF j = 0 THEN log ELSE IF j \in DOMAIN db THEN db[j].rows ELSE buf
Parts == 0..Len(db) + 1

\* a later row is another line, and of one connection it is a later line
Follows(r, s) == r[2] # s[2] /\ (r[1] = s[1] => r[2] < s[2])
Rises(rows) == \A p, q \in DOMAIN rows : p < q => Follows(rows[p], rows[q])
Before(rows, others) == \A p \in DOMAIN rows, q \in DOMAIN others : Follows(rows[p], others[q])

\* A line of the console reaches the hub's tables once at most, as output or in one
\* result of a read, and lines of one connection keep their order, however flushes,
\* reads, reconnections and errors come in between (BackChannel, flush_output).
OutputOnce ==
  /\ \A j \in Parts : Rises(Part(j))
  /\ \A j, k \in Parts : j < k => Before(Part(j), Part(k))
  /\ \A r \in results : \A l \in Range(r[2]) :
       /\ \A row \in Received : row[2] # l
       /\ \A s \in results : l \in Range(s[2]) => s = r

\* "Ensure the newest lines are visible on backfill" (node_output): a listing finds
\* all output that the hub had received when it was asked for, unless an insertion
\* raised, though another flush may have taken the buffer and still be under way.
BackfillComplete ==
  db # <<>> /\ Head(db).by \in {"start", "list"} => need \subseteq Range(log) \union lost

Awaited(i) == commands[i].row = "sent" /\ ~conns[commands[i].conn].cut
              /\ ~conns[commands[i].conn].closed

\* Commands that were sent are answered, unless their connection ends: there is always
\* a later moment at which none is owed an answer.
Settles == []<>(\A i \in Commands : ~Awaited(i))
=============================================================================
