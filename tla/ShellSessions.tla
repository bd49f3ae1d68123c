---------------------------- MODULE ShellSessions ----------------------------
(***************************************************************************)
(* The Telegram sidecar's shell: sessions and their output pumps           *)
(* (sessions.py), the relay's WebSocket that carries a node's output       *)
(* (relay.py), and the bot's handlers that open, use and end a session     *)
(* (bot.py), inside the armed window (security.py).                        *)
(*                                                                         *)
(* Telegram updates are handled one at a time; the reaper, the pumps and   *)
(* the relay are asyncio tasks that interleave with the handler, and with  *)
(* each other, at every await.                                             *)
(*                                                                         *)
(* Left out: the allowlist gate (every chat here is allowed), the choice   *)
(* of a node by buttons, audit rows, codes of arming, shutdown.            *)
(***************************************************************************)
EXTENDS Naturals, Sequences, FiniteSets

CONSTANTS
  Chats, Nodes,
  Ceiling,      \* summarize_bytes: texts that one flush delivers at most
  MaxSessions,  \* bound: sessions opened
  MaxOutput,    \* bound: texts the targets print
  MaxDrops      \* bound: times the hub, or the link to it, drops the WebSocket

ASSUME CeilingAssumption == Ceiling \in Nat \ {0}
ASSUME SessionBoundsAssumption ==
  MaxSessions \in Nat /\ MaxOutput \in Nat /\ MaxDrops \in Nat

VARIABLES
  opened,    \* the sessions so far, as <<chat, node>>; a session is its index
  byChat,    \* SessionManager._by_chat; 0 for no session
  byNode,    \* SessionManager._by_node
  idle,      \* sessions whose last_activity is past the idle timeout
  buf,       \* OutputPump._buf
  outbox,    \* what the flush in progress has still to send
  pump,      \* the pump's task: "sleep", "flush", "ended"
  task,      \* where the update handler ("bot") and the reaper stand
  left,      \* sessions of its snapshot that the reaper has still to look at
  armed,     \* the window of Security.arm is open
  lock,      \* EventRelay._stream_lock: its holder, then its waiters
  relay,     \* where the WebSocket task is
  stream,    \* EventRelay._stream is not None
  link,      \* the WebSocket is open
  subs,      \* the hub's subscriptions of the open WebSocket
  attach,    \* nodes that the re-attachment has still to subscribe
  wire,      \* output events on their way to the sidecar
  printed, drops,
  got        \* observed only: the last text that a session's chat received

vars == <<opened, byChat, byNode, idle, buf, outbox, pump, task, left, armed, lock,
          relay, stream, link, subs, attach, wire, printed, drops, got>>
maps == <<opened, byChat, byNode>>
pumps == <<buf, outbox, pump, got>>
socket == <<relay, stream, link, subs, attach, drops>>
feedvars == <<wire, printed>>

Sessions == 1..MaxSessions
Tasks == {"bot", "reaper"}
Idle(k) == [at |-> IF k = "bot" THEN "idle" ELSE "sleep", s |-> 0]
Doing(at, s) == [at |-> at, s |-> s]
ChatOf(s) == opened[s][1]
NodeOf(s) == opened[s][2]
Held == {n \in Nodes : byNode[n] # 0}        \* active_nodes

\* the line of a flush that summarizes: how much it skipped
Note == 0

Init ==
  /\ opened = <<>>
  /\ byChat = [c \in Chats |-> 0] /\ byNode = [n \in Nodes |-> 0]
  /\ idle = {} /\ left = {} /\ armed = FALSE
  /\ buf = [s \in Sessions |-> <<>>] /\ outbox = buf /\ got = [s \in Sessions |-> 0]
  /\ pump = [s \in Sessions |-> "ended"]
  /\ task = [k \in Tasks |-> Idle(k)]
  /\ lock = <<>> /\ relay = "down" /\ stream = FALSE /\ link = FALSE
  /\ subs = {} /\ attach = {} /\ wire = <<>> /\ printed = 0 /\ drops = 0

-----------------------------------------------------------------------------
(* The output pump.                                                        *)

\* _flush empties the buffer and then sends; too much is cut to its tail
Messages(b) ==
  IF Len(b) > Ceiling THEN Append(SubSeq(b, Len(b) - Ceiling + 1, Len(b)), Note) ELSE b

\* a slip that InOrder must notice: the buffer is cleared after the sends
KeepsBuffer(s) ==
  /\ outbox' = [outbox EXCEPT ![s] = Messages(buf[s])]
  /\ UNCHANGED buf

StartFlush(s) ==
  /\ outbox' = [outbox EXCEPT ![s] = Messages(buf[s])]
  /\ buf' = [buf EXCEPT ![s] = <<>>]

Wakes(s) ==
  /\ pump[s] = "sleep" /\ buf[s] # <<>>
  /\ StartFlush(s)
  /\ pump' = [pump EXCEPT ![s] = "flush"]
  /\ UNCHANGED <<maps, idle, task, left, armed, lock, socket, feedvars, got>>

Received(s, text) == got' = IF text = Note THEN got ELSE [got EXCEPT ![s] = text]

\* bot.send swallows whatever Telegram answers: a message may be lost
SendOne(s) ==
  /\ outbox' = [outbox EXCEPT ![s] = Tail(@)]
  /\ \/ Received(s, Head(outbox[s]))
     \/ UNCHANGED got

PumpSends(s) ==
  /\ pump[s] = "flush" /\ outbox[s] # <<>>
  /\ SendOne(s)
  /\ UNCHANGED <<pump, maps, idle, buf, task, left, armed, lock, socket, feedvars>>

FlushOver(s) ==
  /\ pump[s] = "flush" /\ outbox[s] = <<>>
  /\ pump' = [pump EXCEPT ![s] = "sleep"]
  /\ UNCHANGED <<maps, idle, buf, outbox, task, left, armed, lock, socket, feedvars, got>>

-----------------------------------------------------------------------------
(* SessionManager.open and close.                                          *)

Touch(s) == idle' = idle \ {s}

\* a slip that TypeOK must notice: only the chat is checked
ChatFree(c, n) == byChat[c] = 0

Free(c, n) == byChat[c] = 0 /\ byNode[n] = 0

\* the maps and the pump are set up before subscribe waits for the stream lock
Open(c, n) ==
  LET s == Len(opened) + 1 IN
  /\ opened' = Append(opened, <<c, n>>)
  /\ byChat' = [byChat EXCEPT ![c] = s]
  /\ byNode' = [byNode EXCEPT ![n] = s]
  /\ pump' = [pump EXCEPT ![s] = "sleep"]
  /\ task' = [task EXCEPT !["bot"] = Doing("sub", s)]
  /\ lock' = Append(lock, "bot")

\* both maps are emptied before unsubscribe waits for the stream lock
Close(k, c) ==
  LET s == byChat[c] IN
  /\ byChat' = [byChat EXCEPT ![c] = 0]
  /\ byNode' = [byNode EXCEPT ![NodeOf(s)] = 0]
  /\ task' = [task EXCEPT ![k] = Doing("unsub", s)]
  /\ lock' = Append(lock, k)
  /\ UNCHANGED opened

\* a slip that SilentOnceClosed must notice: the task is not cancelled and awaited
Abandon(s) ==
  /\ outbox' = [outbox EXCEPT ![s] = @ \o Messages(buf[s])]
  /\ buf' = [buf EXCEPT ![s] = <<>>]
  /\ UNCHANGED pump

\* OutputPump.close: the task ends where it stands, with what its flush had
\* left; then a last flush
CancelPump(s) ==
  /\ pump' = [pump EXCEPT ![s] = "ended"]
  /\ StartFlush(s)

\* the stream lock is free: (un)subscribe, if a WebSocket is open
Unsubscribed(k) ==
  LET s == task[k].s IN
  /\ task[k].at = "unsub" /\ lock # <<>> /\ Head(lock) = k
  /\ lock' = Tail(lock)
  /\ subs' = IF stream /\ link THEN subs \ {NodeOf(s)} ELSE subs
  /\ CancelPump(s)
  /\ task' = [task EXCEPT ![k] = Doing("last", s)]
  /\ UNCHANGED <<maps, idle, left, armed, relay, stream, link, attach, drops, feedvars, got>>

LastSend(k) ==
  LET s == task[k].s IN
  /\ task[k].at = "last" /\ outbox[s] # <<>> /\ pump[s] = "ended"
  /\ SendOne(s)
  /\ UNCHANGED <<pump, maps, idle, buf, task, left, armed, lock, socket, feedvars>>

\* SessionManager.close returns
Closing(k) == task[k].at = "last" /\ (pump[task[k].s] = "ended" => outbox[task[k].s] = <<>>)

\* cmd_end and on_text reply
Ended ==
  /\ Closing("bot")
  /\ task' = [task EXCEPT !["bot"] = Idle("bot")]
  /\ UNCHANGED <<maps, idle, pumps, left, armed, lock, socket, feedvars>>

-----------------------------------------------------------------------------
(* The handlers of the bot, one update at a time.                          *)

Ready == task["bot"] = Idle("bot")

\* cmd_shell and the button ask hub.node; meanwhile the window may close and the
\* maps may change.  Whose command it is, and for which node, shows afterwards.
CmdShell ==
  /\ Ready /\ armed
  /\ task' = [task EXCEPT !["bot"] = Doing("fetch", 0)]
  /\ UNCHANGED <<maps, idle, pumps, left, armed, lock, socket, feedvars>>

Fetched(c, n) ==
  /\ task["bot"].at = "fetch"
  /\ \/ Free(c, n) /\ Len(opened) < MaxSessions /\ Open(c, n)
     \/ /\ task' = [task EXCEPT !["bot"] = Idle("bot")]   \* unknown, offline, taken
        /\ UNCHANGED <<maps, pump, lock>>
  /\ UNCHANGED <<idle, buf, outbox, left, armed, socket, feedvars, got>>

Subscribed ==
  /\ task["bot"].at = "sub" /\ lock # <<>> /\ Head(lock) = "bot"
  /\ lock' = Tail(lock)
  /\ subs' = IF stream /\ link THEN subs \union {NodeOf(task["bot"].s)} ELSE subs
  /\ task' = [task EXCEPT !["bot"] = Idle("bot")]
  /\ UNCHANGED <<maps, idle, pumps, left, armed, relay, stream, link, attach, drops, feedvars>>

CmdEnd(c) ==
  /\ Ready /\ byChat[c] # 0
  /\ Close("bot", c)
  /\ UNCHANGED <<idle, pumps, left, armed, socket, feedvars>>

\* cmd_control, armed or not, and on_text when armed: the hub is asked to write
CmdControl(c) ==
  /\ Ready /\ byChat[c] # 0
  /\ task' = [task EXCEPT !["bot"] = Doing("type", byChat[c])]
  /\ UNCHANGED <<maps, idle, pumps, left, armed, lock, socket, feedvars>>

\* a text in a session that was disarmed closes it
OnText(c) == IF armed THEN CmdControl(c) ELSE CmdEnd(c)

\* the session is touched once the hub has answered, even if it was closed since
Typed ==
  /\ task["bot"].at = "type"
  /\ task' = [task EXCEPT !["bot"] = Idle("bot")]
  /\ Touch(task["bot"].s) \/ UNCHANGED idle      \* send_serial raised
  /\ UNCHANGED <<maps, pumps, left, armed, lock, socket, feedvars>>

CmdArm ==
  /\ Ready /\ ~armed /\ armed' = TRUE
  /\ UNCHANGED <<maps, idle, pumps, task, left, lock, socket, feedvars>>

\* cmd_disarm, or the end of the window
Disarm ==
  /\ armed /\ armed' = FALSE
  /\ UNCHANGED <<maps, idle, pumps, task, left, lock, socket, feedvars>>

-----------------------------------------------------------------------------
(* The reaper.                                                             *)

\* the idle timeout of a session passes
Ages(s) ==
  /\ s \in 1..Len(opened) \ idle
  /\ byChat[ChatOf(s)] = s \/ s \in left
  /\ idle' = idle \union {s}
  /\ UNCHANGED <<maps, pumps, task, left, armed, lock, socket, feedvars>>

\* a slip that IdleReaped must notice: the reaper works in the armed window only
DueIfArmed(rest) == IF armed THEN {s \in rest \intersect idle : byChat[ChatOf(s)] # 0} ELSE {}

\* those of the snapshot that are idle and whose chat has a session by now
Due(rest) == {s \in rest \intersect idle : byChat[ChatOf(s)] # 0}

\* on to the next such session, in the order they were opened; what is closed is
\* the session that its chat has by now
Walk(rest) ==
  \/ /\ Due(rest) = {}
     /\ left' = {} /\ task' = [task EXCEPT !["reaper"] = Idle("reaper")]
     /\ UNCHANGED <<maps, lock>>
  \/ \E s \in Due(rest) :
       /\ \A t \in Due(rest) : s <= t
       /\ left' = {t \in rest : t > s}
       /\ Close("reaper", ChatOf(s))

\* every five seconds; with nothing due it changes nothing
Sweep ==
  /\ task["reaper"] = Idle("reaper")
  /\ LET open == {byNode[n] : n \in Held} IN Due(open) # {} /\ Walk(open)
  /\ UNCHANGED <<idle, pumps, armed, socket, feedvars>>

\* the chat was told that its session is closed
SweepGoesOn ==
  /\ Closing("reaper")
  /\ Walk(left)
  /\ UNCHANGED <<idle, pumps, armed, socket, feedvars>>

-----------------------------------------------------------------------------
(* The relay's WebSocket.                                                  *)

Connect ==
  /\ relay = "down"
  /\ relay' = "set" /\ link' = TRUE /\ subs' = {}
  /\ lock' = Append(lock, "relay")
  /\ UNCHANGED <<maps, idle, pumps, task, left, armed, stream, attach, drops, feedvars>>

\* under the lock; on_hub_restart is broadcast before the re-attachment
SetStream ==
  /\ relay = "set" /\ Head(lock) = "relay"
  /\ lock' = Tail(lock) /\ stream' = TRUE /\ relay' = "announce"
  /\ UNCHANGED <<maps, idle, pumps, task, left, armed, link, subs, attach, drops, feedvars>>

\* a slip that Attached must notice: only a reconnection re-attaches
IfSeen == IF drops = 0 THEN {} ELSE Held

Reattached == Held

StartAttach ==
  /\ relay = "announce"
  /\ relay' = "attach" /\ attach' = Reattached
  /\ UNCHANGED <<maps, idle, pumps, task, left, armed, lock, stream, link, subs, drops, feedvars>>

\* without the lock
Attach(n) ==
  /\ relay = "attach" /\ n \in attach
  /\ attach' = attach \ {n}
  /\ subs' = IF link THEN subs \union {n} ELSE subs
  /\ UNCHANGED <<maps, idle, pumps, task, left, armed, lock, relay, stream, link, drops, feedvars>>

AttachDone ==
  /\ relay = "attach" /\ attach = {}
  /\ relay' = "loop"
  /\ UNCHANGED <<maps, idle, pumps, task, left, armed, lock, stream, link, subs, attach, drops, feedvars>>

\* what was on its way is lost; what the sidecar had received it still reads
LinkDrops ==
  /\ link /\ drops < MaxDrops
  /\ link' = FALSE /\ drops' = drops + 1 /\ subs' = {}
  /\ wire' = <<>> \/ UNCHANGED wire
  /\ UNCHANGED <<maps, idle, pumps, task, left, armed, lock, relay, stream, attach, printed>>

\* the iteration raises; a health probe, then the stream is cleared under the lock
LoopEnds ==
  /\ relay = "loop" /\ ~link /\ wire = <<>>
  /\ relay' = "unset" /\ lock' = Append(lock, "relay")
  /\ UNCHANGED <<maps, idle, pumps, task, left, armed, stream, link, subs, attach, drops, feedvars>>

ClearStream ==
  /\ relay = "unset" /\ Head(lock) = "relay"
  /\ lock' = Tail(lock) /\ stream' = FALSE /\ relay' = "down"
  /\ UNCHANGED <<maps, idle, pumps, task, left, armed, link, subs, attach, drops, feedvars>>

\* a target prints, and the hub relays it to its subscriber
Prints(n) ==
  /\ n \in subs
  /\ printed < MaxOutput /\ printed' = printed + 1
  /\ wire' = Append(wire, <<n, printed + 1>>)
  /\ UNCHANGED <<maps, idle, pumps, task, left, armed, lock, socket>>

\* feed_output: to the session that has the node now, if any
Feed ==
  LET s == byNode[Head(wire)[1]] IN
  /\ relay = "loop" /\ wire # <<>>
  /\ wire' = Tail(wire)
  /\ IF s = 0 THEN UNCHANGED <<buf, idle>>
     ELSE buf' = [buf EXCEPT ![s] = Append(@, Head(wire)[2])] /\ Touch(s)
  /\ UNCHANGED <<maps, outbox, pump, got, task, left, armed, lock, socket, printed>>

-----------------------------------------------------------------------------

BotSteps == \/ \E c \in Chats, n \in Nodes : Fetched(c, n)
            \/ Subscribed \/ Unsubscribed("bot") \/ LastSend("bot") \/ Ended \/ Typed
ReaperSteps == \/ Sweep
               \/ Unsubscribed("reaper") \/ LastSend("reaper") \/ SweepGoesOn
RelaySteps == \/ Connect \/ SetStream \/ StartAttach \/ AttachDone \/ LoopEnds
              \/ ClearStream \/ Feed \/ \E n \in Nodes : Attach(n)
PumpSteps(s) == Wakes(s) \/ PumpSends(s) \/ FlushOver(s)
Updates == \/ CmdShell
           \/ \E c \in Chats : CmdEnd(c) \/ CmdControl(c) \/ OnText(c)
           \/ CmdArm \/ Disarm
World == \/ LinkDrops \/ (\E n \in Nodes : Prints(n)) \/ \E s \in Sessions : Ages(s)

Next == \/ BotSteps \/ ReaperSteps \/ RelaySteps \/ Updates \/ World
        \/ \E s \in Sessions : PumpSteps(s)

Spec == Init /\ [][Next]_vars

\* calls return (the hub's with an error at worst) and tasks are resumed
FairSpec == /\ Spec /\ WF_vars(BotSteps) /\ WF_vars(ReaperSteps) /\ WF_vars(RelaySteps)
            /\ \A s \in Sessions : WF_vars(PumpSteps(s))

-----------------------------------------------------------------------------

Stages == {Idle(k) : k \in Tasks} \union {Doing("fetch", 0)}
          \union [at : {"sub", "type", "unsub", "last"}, s : 1..Len(opened)]

\* Every variable keeps its range, maps and tasks name sessions that exist, and a
\* session without a task for its pump is over.  A chat has one session and a node one
\* chat, and the two maps tell the same, though open and close (of a handler and of the
\* reaper) interleave at their awaits (SessionManager._by_chat, _by_node).
TypeOK ==
  /\ \A n \in Nodes : byNode[n] # 0 => opened[byNode[n]] = <<ChatOf(byNode[n]), n>>
                                         /\ byChat[ChatOf(byNode[n])] = byNode[n]
  /\ \A c \in Chats : byChat[c] # 0 => byNode[NodeOf(byChat[c])] = byChat[c]
  /\ opened \in Seq(Chats \X Nodes) /\ Len(opened) <= MaxSessions
  /\ byChat \in [Chats -> 0..Len(opened)] /\ byNode \in [Nodes -> 0..Len(opened)]
  /\ idle \subseteq 1..Len(opened) /\ left \subseteq 1..Len(opened)
  /\ buf \in [Sessions -> Seq(1..MaxOutput)]
  /\ outbox \in [Sessions -> Seq(0..MaxOutput)] /\ got \in [Sessions -> 0..MaxOutput]
  /\ pump \in [Sessions -> {"sleep", "flush", "ended"}]
  /\ \A s \in 1..Len(opened) : pump[s] = "ended" => byChat[ChatOf(s)] # s
  /\ task \in [Tasks -> Stages] /\ armed \in BOOLEAN
  /\ lock \in Seq(Tasks \union {"relay"})
  /\ relay \in {"down", "set", "announce", "attach", "loop", "unset"}
  /\ stream \in BOOLEAN /\ link \in BOOLEAN
  /\ subs \subseteq Nodes /\ attach \subseteq Nodes
  /\ wire \in Seq(Nodes \X (1..MaxOutput)) /\ printed \in 0..MaxOutput /\ drops \in 0..MaxDrops

\* While the relay reads an open WebSocket and no subscribe is under way, every
\* open session's node is subscribed, however its opening, closings and
\* reconnections were interleaved (EventRelay.subscribe, unsubscribe, _ws_loop).
Attached == relay = "loop" /\ link /\ task["bot"].at # "sub" => Held \subseteq subs

\* A chat gets a session's output in the order in which it came and no text
\* twice; what is buffered comes after what is being sent (OutputPump._flush).
InOrder ==
  \A s \in Sessions :
    LET texts == outbox[s] \o buf[s]
        Text(i) == texts[i] # Note
    IN /\ \A i \in DOMAIN texts : Text(i) => got[s] < texts[i]
       /\ \A i, j \in DOMAIN texts : i < j /\ Text(i) /\ Text(j) => texts[i] < texts[j]

Over(s) == /\ s <= Len(opened) /\ byChat[ChatOf(s)] # s
           /\ \A k \in Tasks : task[k] \notin {Doing("unsub", s), Doing("last", s)}

\* Once a close has returned (the chat is told so), nothing of that session
\* reaches the chat any more (OutputPump.close).
SilentOnceClosed == [][\A s \in Sessions : Over(s) => got'[s] = got[s]]_vars

Forgotten(s) == /\ s \in idle /\ s <= Len(opened) /\ byChat[ChatOf(s)] = s

\* A session left idle is closed, unless it is used again (_reap).
IdleReaped == \A s \in Sessions : Forgotten(s) ~> ~Forgotten(s)
=============================================================================
