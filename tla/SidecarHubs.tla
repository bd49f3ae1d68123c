----------------------------- MODULE SidecarHubs -----------------------------
(***************************************************************************)
(* The Telegram sidecar between two hubs: the cursor that all its REST     *)
(* calls share (hubfailover.py), the relay's WebSocket and its polls of    *)
(* /events (relay.py), and the calls that the bot's commands make (bot.py).*)
(*                                                                         *)
(* Three activities make calls and interleave at every await: the update   *)
(* handler, one at a time ("bot"), the WebSocket task ("ws") and the       *)
(* polling task ("poll").                                                  *)
(*                                                                         *)
(* Left out: what calls return, but for event rows; arming and sessions    *)
(* (ShellSessions); notices of restarted hubs, muting and the debounce of  *)
(* alerts (every notable row is alerted here); back-off.                   *)
(***************************************************************************)
EXTENDS Naturals, Sequences, FiniteSets, Functions

CONSTANTS
  N,            \* hubs configured, the primary first
  Limit,        \* rows that one poll of /events asks for
  MaxCommands,  \* bound: commands
  MaxFaults,    \* bound: hub crashes, and calls that time out though the hub is up
  MaxRows       \* bound: notable rows that the hubs write

ASSUME HubsAssumption == N \in Nat \ {0} /\ Limit \in Nat \ {0}
ASSUME SidecarBoundsAssumption ==
  MaxCommands \in Nat /\ MaxFaults \in Nat /\ MaxRows \in Nat

Hubs == 1..N
Users == {"bot", "ws", "poll"}

VARIABLES
  up,         \* hubs that run
  rows,       \* each hub's newest notable row
  cursor,     \* FailoverHub._i
  call,       \* each user's call: the hub asked (0: it crashed since), attempts
              \* left, and whether that hub has carried it out
  bot,        \* the calls that the handler has yet to end, "get" or "post"
  late,       \* <<hub, attempt>>: requests that a hub still has, though their client gave up
  ws,         \* where the WebSocket task is
  wsHub,      \* the hub that its WebSocket is open to, or 0
  poll,       \* where the polling task is
  mark,       \* EventRelay._last_event_id; 0 before it is known
  fresh,      \* <<hub, row>> still to be alerted, oldest first
  commands, timeouts, outages,
  \* observed by properties only
  done, lost, \* attempts of the bot's POSTs that a hub carried out; that were given up on
  alerted,    \* each hub's newest row that was alerted
  alone       \* since the bot's call began nothing else touched cursor or hubs

callsVars == <<up, rows, cursor, call, bot, ws, wsHub, poll, mark, fresh, commands, timeouts,
          outages, late, done, lost, alerted, alone>>
hubs == <<up, rows, timeouts, outages>>
requests == <<late, done, lost>>
world == <<hubs, requests, alone>>
command == <<bot, commands>>
follower == <<ws, wsHub>>
polling == <<poll, mark, fresh, alerted>>

None == [on |-> FALSE, hub |-> 0, left |-> 0, did |-> FALSE]
Asking(h) == [None EXCEPT !.on = TRUE, !.hub = h, !.left = N - 1]

CallsInit ==
  /\ up = Hubs /\ rows = [h \in Hubs |-> 0]
  /\ cursor = 1 /\ call = [k \in Users |-> None]
  /\ bot = <<>> /\ ws = "down" /\ wsHub = 0
  /\ late = {} /\ done = {} /\ lost = {}
  /\ poll = "start" /\ mark = 0 /\ fresh = <<>> /\ alerted = [h \in Hubs |-> 0]
  /\ alone = FALSE /\ commands = 0 /\ timeouts = 0 /\ outages = 0

-----------------------------------------------------------------------------
(* The calls that the bot's commands make, each when the one before it was *)
(* answered, after the gate of arming where there is one.  An audit row    *)
(* follows a POST that was answered.                                       *)

CmdStatus == <<"get", "get", "get">>
CmdNodes == <<"get">>
CmdUptime == <<"get">>
CmdTelemetry == <<"get">>
CmdReboot == <<"post">>
CmdSysrq == <<"post">>
OnlineIds == <<"get">>
CmdEvents == <<"get">>
CmdLog == <<"get">>
CmdSearch == <<"get">>
CmdPing == <<"post">>
CmdBulk == OnlineIds \o <<"post">>
CmdMacros == <<"get">>
CmdRunmacro == {OnlineIds \o <<"post">>, <<"post">>}
CmdRunbooks == <<"get">>
CmdRunbook == {OnlineIds \o <<"post">>, <<"post">>}
CmdHubs == <<"get">>
CmdHub == <<"post">>
MainMenu == <<"get">>
NodeDetail == <<"get">>
NodePicker == <<"get">>
NodeAction ==
  { <<"post">> \o NodeDetail,    \* ping, reboot, sysrq
    <<"post">>,                  \* read
    <<"get">>,                   \* telemetry, log, hub menu
    NodeDetail }                 \* mute, unmute
OnCallback ==
  NodeAction \union
  { MainMenu, NodeDetail, CmdStatus, <<"get">>,
    <<"post">> \o NodeDetail,    \* hub directive
    <<"get", "post">> }          \* macro, runbook

Commands ==
  CmdRunmacro \union CmdRunbook \union OnCallback \union
  { CmdStatus, CmdNodes, CmdUptime, CmdTelemetry, CmdReboot, CmdSysrq, CmdEvents, CmdLog,
    CmdSearch, CmdPing, CmdBulk, CmdMacros, CmdRunbooks, CmdHubs, CmdHub, NodePicker }

-----------------------------------------------------------------------------
(* FailoverHub.                                                            *)

\* a slip that LoneCallAnswered must notice: a hub is skipped
Skips(i) == IF N = 1 THEN i ELSE ((i + 1) % N) + 1

Advanced(i) == (i % N) + 1

\* a user's part once its call has ended: ok, and the hub that answered
HandlerGoesOn(ok) ==
  /\ bot' \in IF ok THEN {<<>>, Tail(bot)} ELSE {<<>>}   \* an exception ends the handler
  /\ UNCHANGED <<follower, polling>>

ProbeOver ==
  /\ ws' = "down"
  /\ UNCHANGED <<bot, wsHub, polling>>

\* rows that /events returns, and those of them past the mark
Listed(h) == {r \in 1..rows[h] : r + Limit > rows[h]}

\* a slip that NoReplay must notice: the row of the mark is taken again
SinceMark(h) == {r \in Listed(h) : r >= mark}

PastMark(h) == {r \in Listed(h) : r > mark}

Ascending(S) == CHOOSE q \in [1..Cardinality(S) -> S] : \A i, j \in DOMAIN q : i < j => q[i] < q[j]

\* the two calls of the seed, then health and events of each poll
PollGoesOn(ok, h) ==
  /\ UNCHANGED <<bot, follower, alerted>>
  /\ \/ /\ poll = "seed"
        /\ mark' = IF ok THEN rows[h] ELSE mark
        /\ poll' = IF ok THEN "seedHealth" ELSE "sleep"
        /\ UNCHANGED fresh
     \/ /\ poll \in {"seedHealth", "health"}      \* its error is ignored
        /\ poll' = IF poll = "health" THEN "events" ELSE "sleep"
        /\ UNCHANGED <<mark, fresh>>
     \/ /\ poll = "events"
        /\ IF ok /\ PastMark(h) # {}
           THEN /\ fresh' = [i \in 1..Cardinality(PastMark(h)) |-> <<h, Ascending(PastMark(h))[i]>>]
                /\ mark' = rows[h] /\ poll' = "alert"
           ELSE poll' = "sleep" /\ UNCHANGED <<fresh, mark>>

Continues(k, ok, h) ==
  \/ k = "bot" /\ HandlerGoesOn(ok)
  \/ k = "ws" /\ ProbeOver
  \/ k = "poll" /\ PollGoesOn(ok, h)

Returned(k, ok, h) == call' = [call EXCEPT ![k] = None] /\ Continues(k, ok, h)

Posting(k) == k = "bot" /\ bot # <<>> /\ Head(bot) = "post"
Reaches(k) == call[k].on /\ call[k].hub \in up

\* the bot's call, by its command and the calls that come after it, and its attempt
Attempt == <<commands, Len(bot), call["bot"].left>>
SameCall(a, b) == a[1] = b[1] /\ a[2] = b[2]

\* the hub carries a command out, and answers afterwards
Carry ==
  /\ Reaches("bot") /\ Posting("bot") /\ ~call["bot"].did
  /\ call' = [call EXCEPT !["bot"].did = TRUE]
  /\ done' = done \union {Attempt}
  /\ UNCHANGED <<hubs, alone, late, lost, cursor, command, follower, polling>>

\* ... also a request that its client no longer waits for
LateCarry(h, a) ==
  /\ <<h, a>> \in late
  /\ late' = late \ {<<h, a>>} /\ done' = done \union {a}
  /\ UNCHANGED <<hubs, alone, lost, cursor, call, command, follower, polling>>

Answer(k) ==
  /\ Reaches(k) /\ (Posting(k) => call[k].did)
  /\ Returned(k, TRUE, call[k].hub)
  /\ alone' = (alone /\ k # "bot")
  /\ UNCHANGED <<hubs, requests, cursor, commands>>

\* a slip that TwiceOnlyIfLost must notice: an error that the hub answers moves on
MovesOn(k) ==
  /\ cursor' = Advanced(cursor) /\ call[k].left > 0
  /\ call' = [call EXCEPT ![k] = [@ EXCEPT !.hub = Advanced(cursor), !.left = @ - 1, !.did = FALSE]]
  /\ UNCHANGED <<bot, follower, polling>>

\* an error status, and an error that is not in _CONN_ERRORS, ends the call
Raises(k) == Returned(k, FALSE, 0) /\ UNCHANGED cursor

\* such an error is httpx.ReadError, when the hub dies in mid-call
Refuse(k) ==
  /\ Reaches(k) \/ (call[k].on /\ call[k].hub = 0)
  /\ Raises(k)
  /\ alone' = (alone /\ k # "bot")
  /\ UNCHANGED <<hubs, requests, commands>>

NextAttempt(c) == [c EXCEPT !.hub = Advanced(cursor), !.left = @ - 1, !.did = FALSE]

\* an error in _CONN_ERRORS: the shared cursor moves, and the call is repeated
\* at the hub where it then stands, with no await in between
Failover(k) ==
  /\ cursor' = Advanced(cursor)
  /\ IF call[k].left = 0 THEN Returned(k, FALSE, 0)
     ELSE /\ call' = [call EXCEPT ![k] = NextAttempt(@)]
          /\ UNCHANGED <<bot, follower, polling>>
  /\ lost' = IF Posting(k) THEN lost \union {Attempt} ELSE lost
  /\ UNCHANGED <<up, rows, outages, commands, done>>

ConnFails(k) ==
  /\ call[k].on /\ ~Reaches(k)
  /\ Failover(k)
  /\ alone' = (alone /\ k = "bot" /\ call'["bot"].on)
  /\ UNCHANGED <<timeouts, late>>

\* the hub goes on with what it was asked
ReadTimeout(k) ==
  /\ Reaches(k) /\ timeouts + outages < MaxFaults
  /\ timeouts' = timeouts + 1
  /\ late' = IF Posting(k) /\ ~call[k].did THEN late \union {<<call[k].hub, Attempt>>} ELSE late
  /\ Failover(k)
  /\ alone' = FALSE

Begin(k) == call' = [call EXCEPT ![k] = Asking(cursor)]

-----------------------------------------------------------------------------
(* The three users.                                                        *)

Command ==
  /\ bot = <<>> /\ commands < MaxCommands
  /\ commands' = commands + 1
  /\ bot' \in Commands
  /\ UNCHANGED <<world, cursor, call, follower, polling>>

\* cmd_source and its button: FailoverHub.select, then health or nothing
Source(h) ==
  /\ bot = <<>> /\ commands < MaxCommands /\ N > 1
  /\ commands' = commands + 1
  /\ cursor' = h
  /\ bot' \in {<<>>, <<"get">>}
  /\ UNCHANGED <<world, call, follower, polling>>

BotStep ==
  /\ bot # <<>> /\ ~call["bot"].on
  /\ Begin("bot")
  /\ alone' = TRUE
  /\ UNCHANGED <<hubs, requests, cursor, command, follower, polling>>

PollStep ==
  /\ poll \in {"start", "seedHealth", "sleep", "events"} /\ ~call["poll"].on
  /\ Begin("poll")
  /\ poll' = CASE poll = "start" -> "seed" [] poll = "sleep" -> "health" [] OTHER -> poll
  /\ UNCHANGED <<world, cursor, command, follower, mark, fresh, alerted>>

\* the broadcast of a row's alert returns
AlertRow ==
  /\ poll = "alert"
  /\ alerted' = [alerted EXCEPT ![Head(fresh)[1]] = Head(fresh)[2]]
  /\ fresh' = Tail(fresh)
  /\ poll' = IF Tail(fresh) = <<>> THEN "sleep" ELSE "alert"
  /\ UNCHANGED <<world, cursor, call, command, follower, mark>>

\* a slip that FollowsALiveHub must notice: the stream is always the primary's
Primary == 1

StreamHub == cursor

Dial ==
  /\ ws = "down"
  /\ ws' = "dial" /\ wsHub' = StreamHub
  /\ UNCHANGED <<world, cursor, call, command, polling>>

Opens ==
  /\ ws = "dial" /\ wsHub \in up
  /\ ws' = "open"
  /\ UNCHANGED <<world, cursor, call, command, wsHub, polling>>

\* the hub cannot be reached, or the open stream breaks: a health probe
Probe ==
  /\ \/ ws = "dial" /\ wsHub \notin up
     \/ ws = "open" /\ wsHub = 0
  /\ ws' = "probe" /\ wsHub' = 0
  /\ Begin("ws")
  /\ UNCHANGED <<world, cursor, command, polling>>

-----------------------------------------------------------------------------
(* The hubs.                                                               *)

Crash(h) ==
  /\ h \in up /\ timeouts + outages < MaxFaults
  /\ outages' = outages + 1
  /\ up' = up \ {h}
  /\ call' = [k \in Users |-> IF call[k].hub = h THEN [call[k] EXCEPT !.hub = 0] ELSE call[k]]
  /\ late' = {l \in late : l[1] # h}
  /\ alone' = FALSE
  /\ wsHub' = IF wsHub = h THEN 0 ELSE wsHub
  /\ UNCHANGED <<rows, timeouts, done, lost, cursor, command, ws, polling>>

Boot(h) ==
  /\ h \notin up
  /\ up' = up \union {h}
  /\ alone' = FALSE
  /\ UNCHANGED <<rows, timeouts, outages, requests, cursor, call, command, follower, polling>>

NewRow(h) ==
  /\ h \in up /\ FoldFunction(+, 0, rows) < MaxRows
  /\ rows' = [rows EXCEPT ![h] = @ + 1]
  /\ UNCHANGED <<up, timeouts, outages, requests, cursor, call, command, follower, polling,
                 alone>>

-----------------------------------------------------------------------------

CallEnds(k) == Answer(k) \/ Refuse(k) \/ ConnFails(k)
WsSteps == Dial \/ Opens \/ Probe \/ CallEnds("ws")
PollSteps == PollStep \/ AlertRow \/ CallEnds("poll")
HandlerSteps == BotStep \/ Carry \/ CallEnds("bot")
Inputs == \/ Command
          \/ \E h \in Hubs : Source(h) \/ Crash(h) \/ Boot(h) \/ NewRow(h)
          \/ \E k \in Users : ReadTimeout(k)
          \/ \E l \in late : LateCarry(l[1], l[2])

CallsNext == WsSteps \/ PollSteps \/ HandlerSteps \/ Inputs

CallsSpec == CallsInit /\ [][CallsNext]_callsVars

\* calls end, and the three activities go on
FairCallsSpec ==
  CallsSpec /\ WF_callsVars(WsSteps) /\ WF_callsVars(PollSteps) /\ WF_callsVars(HandlerSteps)

-----------------------------------------------------------------------------

GivesUp == alone /\ call["bot"].on /\ ~Reaches("bot") /\ ~call'["bot"].on

\* A command that no other call's failure, no outage, no timeout and no /source
\* disturbed reaches a hub that is up: it gives up only when none is
\* (FailoverHub._call; concurrent failures do make a call skip the live hub).
LoneCallAnswered == [][GivesUp => up = {}]_callsVars

\* A POST of a command is carried out more than once only if it was given up on: of the
\* attempts that a hub has carried out, also late, at most one was not ended by a timeout or a
\* broken connection (FailoverHub repeats a POST after these, and after nothing else).
TwiceOnlyIfLost == \A a, b \in done \ lost : SameCall(a, b) => a = b

\* No row of a hub is alerted twice, however the polls move between the hubs
\* (EventRelay._last_event_id is one mark for both hubs' row numbers).
NoReplay ==
  /\ \A i \in DOMAIN fresh : fresh[i][2] > alerted[fresh[i][1]]
  /\ \A i, j \in DOMAIN fresh : i < j => fresh[i][2] < fresh[j][2]

\* When outages have ceased with a hub up, and calls no longer overlap, the relay's
\* WebSocket comes to an open stream from a hub that is up, and stays
\* (EventRelay._ws_loop; a call that fails while another does moves the shared
\* cursor back to the dead hub, and may do so time and again).
Overlap == \E j, k \in Users : j # k /\ call[j].on /\ call[k].on
FollowsALiveHub == <>[](up # {} /\ ~Overlap) => <>[](ws = "open" /\ wsHub \in up)
=============================================================================
