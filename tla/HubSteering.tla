---------------------------- MODULE HubSteering ----------------------------
(***************************************************************************)
(* Steering a board from any of its hubs: POST /nodes/{id}/hub             *)
(* (api/rest.py), Hub.send_hub_directive and _relay_directive (core.py),   *)
(* composed with the board of HubSelector.                                 *)
(*                                                                         *)
(* A hub that lists the board sends it the directive; one that does not    *)
(* asks its peers, over the same REST call, with a header that forbids     *)
(* them to ask theirs.                                                     *)
(*                                                                         *)
(* What a directive says is chosen when the board obeys it: nothing reads  *)
(* it before.  Left out: the poller that shows the peers' boards, and a    *)
(* peer that takes up a call after its caller stopped waiting for it.      *)
(***************************************************************************)
EXTENDS HubSelector

CONSTANTS
  Peers,     \* of each hub, config.PROCESS.hub_peers
  MaxFrames  \* bound: directives on their way to the board

ASSUME PeersAssumption == Peers \in [Labels -> Seq(Labels)]
ASSUME FramesAssumption == MaxFrames \in Nat \ {0}

VARIABLES
  holds,   \* the hubs whose registry has the board online
  frames,  \* directives sent and not yet read by the board
  calls    \* the operator's request: the REST calls it waits in, the last one running,
           \* each [hub, relays (it asks its peers), left (the peers still to ask)]

hubs == <<holds, frames, calls>>
svars == <<vars, hubs>>

SteeringInit == Init /\ holds = {} /\ frames = 0 /\ calls = <<>>

-----------------------------------------------------------------------------
(* The board and the sessions.                                             *)

Dials == (DialReaches \/ DialFails) /\ UNCHANGED hubs

Expires == LeaseGoesBad /\ UNCHANGED hubs

\* the board leaves, and what was sent to it is lost; its hub does not know yet
Leaves == (Drop \/ Restart) /\ frames' = 0 /\ UNCHANGED <<holds, calls>>

Registers == Served /\ holds' = holds \union {active} /\ UNCHANGED <<frames, calls>>

Serves(h) == session = "served" /\ active = h

\* the hub sees the connection closed, or hears nothing for too long
MarksOffline(h) ==
  /\ h \in holds /\ ~Serves(h)
  /\ holds' = holds \ {h}
  /\ UNCHANGED <<vars, frames, calls>>

\* the board reads a directive; one that moves it ends the session
Directed ==
  /\ frames > 0 /\ lease
  /\ \/ Unpin /\ frames' = frames - 1
     \/ \E h \in Labels : (Switch(h) \/ Prefer(h) \/ Pin(h)) /\ frames' = 0
  /\ UNCHANGED <<holds, calls>>

\* a hub that stops or restarts forgets the board; a call it was running fails
HubTurns(h, s) ==
  /\ HubChanges(h, s)
  /\ holds' = holds \ {h}
  /\ frames' = IF h = active THEN 0 ELSE frames
  /\ \E k \in 0..Len(calls) :
       /\ \A i \in 1..k : calls[i].hub # h
       /\ k < Len(calls) => calls[k + 1].hub = h
       /\ calls' = SubSeq(calls, 1, k)

-----------------------------------------------------------------------------
(* The request.                                                            *)

Call(h) == [hub |-> h, relays |-> FALSE, left |-> Peers[h]]
Running == calls[Len(calls)]
Returned == SubSeq(calls, 1, Len(calls) - 1)
WithRunning(c) == Append(Returned, c)

Post(h) ==
  /\ calls = <<>> /\ hub[h] # "down"
  /\ calls' = <<Call(h)>>
  /\ UNCHANGED <<vars, holds, frames>>

\* slips that TypeOK of the composition and Takeover must notice: the header is not
\* heeded, and it is always there
AnyRelays == TRUE
NoneRelays == FALSE

\* x-picotty-relay: only the call that the operator made may ask the peers
AllowRelay == Len(calls) = 1

\* send_control: the frame is written, and reaches the board if it is still there; ok
\* answers every call, unless a caller has stopped waiting and asks the next peer
Sends ==
  /\ calls # <<>> /\ ~Running.relays /\ Running.hub \in holds
  /\ frames < MaxFrames
  /\ frames' = IF Serves(Running.hub) THEN frames + 1 ELSE frames
  /\ calls' \in {<<>>, Returned}
  /\ UNCHANGED <<vars, holds>>

\* not held here
Declines ==
  /\ calls # <<>> /\ ~Running.relays /\ Running.hub \notin holds
  /\ calls' = IF AllowRelay THEN WithRunning([Running EXCEPT !.relays = TRUE]) ELSE Returned
  /\ UNCHANGED <<vars, holds, frames>>

\* _relay_directive asks the next peer, and skips one that is down
Relays ==
  /\ calls # <<>> /\ Running.relays /\ Running.left # <<>>
  /\ LET peer == Head(Running.left)
         rest == WithRunning([Running EXCEPT !.left = Tail(@)])
     IN  calls' = IF hub[peer] = "down" THEN rest ELSE Append(rest, Call(peer))
  /\ UNCHANGED <<vars, holds, frames>>

\* no peer has it: node_offline
GivesUp ==
  /\ calls # <<>> /\ Running.relays /\ Running.left = <<>>
  /\ calls' = Returned
  /\ UNCHANGED <<vars, holds, frames>>

Answers == Sends \/ Declines \/ Relays \/ GivesUp

SteeringNext ==
  \/ Dials \/ Expires \/ Leaves \/ Registers \/ Directed \/ Sends \/ Declines \/ Relays \/ GivesUp
  \/ \E h \in Labels :
       \/ MarksOffline(h) \/ Post(h)
       \/ \E s \in {"down", "rejects", "accepts"} : HubTurns(h, s)

\* the connect loop and the handlers go on; a hub answers a hello one way or the other,
\* and finds out that the board is gone
Fairness ==
  /\ WF_svars(Dials) /\ WF_svars(Registers) /\ WF_svars(Doomed /\ Leaves)
  /\ WF_svars(Directed) /\ WF_svars(Answers)
  /\ \A h \in Labels : WF_svars(MarksOffline(h))

SteeringSpec == SteeringInit /\ [][SteeringNext]_svars /\ Fairness

-----------------------------------------------------------------------------
(* Properties *)

\* Every variable has its type, the board's included, and no hub waits for itself:
\* "The relay header stops the peer from relaying again (no loop)" (core.py).
SteeringTypeOK ==
  /\ TypeOK
  /\ holds \subseteq Labels /\ frames \in 0..MaxFrames
  /\ frames > 0 => session = "served"
  /\ calls \in Seq([hub : Labels, relays : BOOLEAN, left : Seq(Labels)])
  /\ IsInjective([i \in DOMAIN calls |-> calls[i].hub])

\* The hubs serve, the address is good, the board leaves a hub only for a directive, and
\* every directive moves it to h.
Wanted(h) ==
  /\ \A g \in Labels : <>[](hub[g] = "accepts")
  /\ <>[]lease
  /\ <>[][~Leaves /\ (Directed => pending' = h)]_svars

\* "On-demand takeover" from either hub (docs/dual-hub.md): if the operator goes on
\* asking, at whichever hub, the directives get to the board and it comes to the hub
\* they name, whatever pins, stale registrations and lost answers came before.
Takeover ==
  \A h \in Labels :
    Wanted(h) /\ []<><<\E g \in Labels : Post(g)>>_svars => []<>(Serves(h))

=============================================================================
