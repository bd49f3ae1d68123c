---------------------------- MODULE SerialBridge ----------------------------
(***************************************************************************)
(* The listeners of the raw serial bridge (serialbridge.py) and the requests *)
(* that change which there should be (rest.py): the setting that enables     *)
(* the bridge, and the ports assigned to nodes.                             *)
(*                                                                         *)
(* Each request writes the database and then calls reconcile, which awaits  *)
(* the database, the end of a listener and the start of one: requests that   *)
(* are served at once interleave there.                                     *)
(*                                                                         *)
(* Left out: the clients of a listener, audit rows, and what the bridge      *)
(* carries (CommandPath).                                                   *)
(***************************************************************************)
EXTENDS Naturals, Sequences

CONSTANTS
  Nodes, Ports,
  NoPort,       \* no listener, or no port assigned
  MaxRequests   \* bound: requests that change the setting or the assignments

VARIABLES
  setting,    \* serial_bridge_enabled in the settings table
  enabled,    \* the same in hub.settings
  table,      \* the serial_bridge table: each node's port
  servers,    \* SerialBridge._servers: the port of each node's listener
  bound,      \* the listeners that there really are, as <<port, node>>
  requests    \* each request so far: where it stands, the ports it wants bound, nodes
              \* that its loop has still to visit, and the node it is at

vars == <<setting, enabled, table, servers, bound, requests>>
asked == <<setting, enabled, table>>
listeners == <<servers, bound>>

Nowhere == [n \in Nodes |-> NoPort]
Bound(ports) == {<<ports[n], n>> : n \in {m \in Nodes : ports[m] # NoPort}}
Unique(ports) == \A m, n \in Nodes : ports[m] = ports[n] /\ m # n => ports[n] = NoPort

\* start: the listeners of the table are there if the bridge is enabled
Init ==
  /\ setting \in BOOLEAN /\ enabled = setting
  /\ table \in {t \in [Nodes -> Ports \union {NoPort}] : Unique(t)}
  /\ servers = IF enabled THEN table ELSE Nowhere
  /\ bound = Bound(servers)
  /\ requests = <<>>

At(r, place) == requests[r].at = place
Goes(r, place) == requests' = [requests EXCEPT ![r].at = place]
Node(r) == requests[r].node

Begins(place, ports) ==
  /\ Len(requests) < MaxRequests
  /\ requests' = Append(requests, [at |-> place, node |-> NoPort, want |-> ports, left |-> {}])

-----------------------------------------------------------------------------
(* The requests, up to their call of reconcile.                             *)

PatchSettings(on) ==
  /\ Begins("load", Nowhere) /\ setting' = on
  /\ UNCHANGED <<enabled, table, listeners>>

LoadSettings(r) ==
  /\ At(r, "load") /\ Goes(r, "reconcile")
  /\ enabled' = setting
  /\ UNCHANGED <<setting, table, listeners>>

\* bridge_assign has found that no other node has the port ...
BridgeAssign(n, p) ==
  /\ \A m \in Nodes \ {n} : table[m] # p
  /\ Begins("assign", [Nowhere EXCEPT ![n] = p])
  /\ UNCHANGED <<asked, listeners>>

\* ... and writes it: the column is UNIQUE, and an error ends the request
AssignBridgePort(r) ==
  /\ At(r, "assign")
  /\ LET new == [n \in Nodes |-> IF requests[r].want[n] = NoPort THEN table[n]
                                 ELSE requests[r].want[n]]
     IN IF Unique(new) THEN table' = new /\ Goes(r, "reconcile")
        ELSE UNCHANGED table /\ Goes(r, "over")
  /\ UNCHANGED <<setting, enabled, listeners>>

BridgeUnassign(n) ==
  /\ Begins("reconcile", Nowhere)
  /\ table' = [table EXCEPT ![n] = NoPort]
  /\ UNCHANGED <<setting, enabled, listeners>>

-----------------------------------------------------------------------------
(* reconcile.  Both of its loops pass over nodes that need nothing without   *)
(* an await.                                                                *)

Starts(r, want, left) ==
  /\ requests' = [requests EXCEPT ![r] = [@ EXCEPT !.at = "unbind", !.want = want, !.left = left]]
  /\ UNCHANGED <<asked, listeners>>

Listening == {n \in Nodes : servers[n] # NoPort}

Reconcile(r) ==
  /\ At(r, "reconcile")
  /\ IF enabled THEN Goes(r, "list") /\ UNCHANGED <<asked, listeners>>
     ELSE Starts(r, Nowhere, Listening)

ListBridgePorts(r) == At(r, "list") /\ Starts(r, table, Listening)

Wrong(r) == {n \in requests[r].left \intersect Listening : servers[n] # requests[r].want[n]}
Wanted(r) == {n \in Nodes : requests[r].want[n] # NoPort}

\* the next listener that is not wanted is closed, and its end awaited
Unbind(r) ==
  /\ At(r, "unbind")
  /\ \E n \in Wrong(r), passed \in SUBSET (requests[r].left \ Wrong(r)) :
       /\ requests' = [requests EXCEPT ![r].left = @ \ ({n} \union passed)]
       /\ servers' = [servers EXCEPT ![n] = NoPort]
       /\ bound' = bound \ {<<servers[n], n>>}
  /\ UNCHANGED asked

Unbound(r) ==
  /\ At(r, "unbind") /\ Wrong(r) = {}
  /\ requests' = [requests EXCEPT ![r].at = "bind", ![r].left = Wanted(r)]
  /\ UNCHANGED <<asked, listeners>>

\* the next node without a listener: start_server is called for it
Bind(r) ==
  /\ At(r, "bind")
  /\ \E n \in requests[r].left \ Listening, passed \in SUBSET (requests[r].left \intersect Listening) :
       requests' = [requests EXCEPT ![r].at = "listen", ![r].node = n,
                                      ![r].left = @ \ ({n} \union passed)]
  /\ UNCHANGED <<asked, listeners>>

\* the socket listens, or its port is taken, which is recorded
StartServer(r) ==
  /\ At(r, "listen")
  /\ LET p == requests[r].want[Node(r)] IN
     IF \E m \in Nodes : <<p, m>> \in bound
     THEN Goes(r, "bind") /\ UNCHANGED bound
     ELSE Goes(r, "register") /\ bound' = bound \union {<<p, Node(r)>>}
  /\ UNCHANGED <<asked, servers>>

\* the call has returned
Register(r) ==
  /\ At(r, "register") /\ Goes(r, "bind")
  /\ servers' = [servers EXCEPT ![Node(r)] = requests[r].want[Node(r)]]
  /\ UNCHANGED <<asked, bound>>

Done(r) ==
  /\ At(r, "bind") /\ requests[r].left \subseteq Listening /\ Goes(r, "over")
  /\ UNCHANGED <<asked, listeners>>

Next ==
  \/ \E on \in BOOLEAN : PatchSettings(on)
  \/ \E n \in Nodes : BridgeUnassign(n) \/ \E p \in Ports : BridgeAssign(n, p)
  \/ \E r \in DOMAIN requests :
       \/ LoadSettings(r) \/ AssignBridgePort(r) \/ Reconcile(r) \/ ListBridgePorts(r)
       \/ Unbind(r) \/ Unbound(r) \/ Bind(r) \/ StartServer(r) \/ Register(r) \/ Done(r)

Spec == Init /\ [][Next]_vars

-----------------------------------------------------------------------------

\* "A toggled serial_bridge_enabled must bind/unbind listeners immediately"
\* (patch_settings): once all requests are answered there is no listener that the
\* setting and the assignments do not ask for.
BoundAsWanted ==
  (\A r \in DOMAIN requests : At(r, "over"))
    => \A l \in bound : enabled /\ table[l[2]] = l[1]
=============================================================================
