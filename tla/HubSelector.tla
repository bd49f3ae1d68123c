---------------------------- MODULE HubSelector ----------------------------
(***************************************************************************)
(* Which hub a board dials (firmware hubselect.py), driven by the connect  *)
(* loop of code.py, with hubs that come and go and hub_directive frames    *)
(* that steer the board.  HubSteering composes it with the hubs that send  *)
(* those frames.                                                           *)
(*                                                                         *)
(* The board is single-threaded: next_target, connect and on_connected or  *)
(* on_failed are one step of the loop, connect being a blocking call.      *)
(*                                                                         *)
(* Left out: host names and ports, back-off, renewals of the DHCP lease,    *)
(* and the frames of a session other than hub_directive.                   *)
(***************************************************************************)
EXTENDS Naturals, Sequences, Functions

CONSTANTS
  Hubs,      \* cfg.hubs: the labels, the primary first
  Tries,     \* cfg.hub_failover_tries
  Rebind,    \* cfg.rebind_after_failures
  None       \* no hub

ASSUME HubsAssumption == /\ Hubs \in Seq(Range(Hubs)) /\ Hubs # <<>>
                         /\ \A i, j \in DOMAIN Hubs : Hubs[i] = Hubs[j] => i = j
ASSUME TriesAssumption == Tries \in Nat \ {0}
ASSUME RebindAssumption == Rebind \in Nat \ {0}
ASSUME NoneAssumption == None \notin Range(Hubs)

Labels == Range(Hubs)
N == Len(Hubs)

VARIABLES
  preemptive, \* cfg.hub_failback = "preemptive"; settings.toml, never changes
  writable,   \* the board's filesystem can be written; never changes
  \* HubSelector
  order, cursor, sticky, pin, pending, active, fails,
  pref,       \* /hub_pref.json: [primary, pin], or None
  \* the board and the hubs
  lease,      \* the board's address works
  connectFails, \* main: connects that failed since one succeeded or the address was renewed
  session,    \* "none", "dialled" (TCP is up, hello sent), "served" (registered)
  hub,        \* each hub: "down", "rejects" (closes after the hello), "accepts"
  \* observed by properties only
  home,       \* hub of the last TCP connection since the board started, or None
  misses      \* connect failures since then, up to Tries

config == <<preemptive, writable>>
selector == <<order, cursor, sticky, pin, pending, active, fails>>
network == <<lease, connectFails>>
vars == <<preemptive, writable, order, cursor, sticky, pin, pending, active, fails, pref,
          lease, connectFails, session, hub, home, misses>>

IndexIn(s, h) == CHOOSE i \in DOMAIN s : s[i] = h

\* removed, and inserted at the front
MoveToFront(s, h) ==
  [i \in DOMAIN s |-> IF i = 1 THEN h ELSE IF i <= IndexIn(s, h) THEN s[i - 1] ELSE s[i]]

-----------------------------------------------------------------------------
(* HubSelector.__init__ with _load, from the preference file p.            *)

Fresh(p) ==
  [order |-> IF p = None THEN Hubs ELSE MoveToFront(Hubs, p.primary),
   pin |-> IF p = None THEN None ELSE p.pin]

Init ==
  /\ preemptive \in BOOLEAN /\ writable \in BOOLEAN
  /\ order = Hubs /\ cursor = 1 /\ sticky = None /\ pin = None /\ pending = None
  /\ active = Hubs[1] /\ fails = 0
  /\ pref = None
  /\ session = "none" /\ lease = TRUE /\ connectFails = 0
  /\ hub \in [Labels -> {"down", "rejects", "accepts"}]
  /\ home = None /\ misses = 0

\* soft reload or power cycle: only the preference file survives; the board asks for
\* an address until it has one
Restart ==
  /\ order' = Fresh(pref).order /\ pin' = Fresh(pref).pin
  /\ active' = Fresh(pref).order[1]
  /\ cursor' = 1 /\ sticky' = None /\ pending' = None /\ fails' = 0
  /\ session' = "none" /\ lease' = TRUE /\ connectFails' = 0
  /\ home' = None /\ misses' = 0
  /\ UNCHANGED <<config, pref, hub>>

-----------------------------------------------------------------------------
(* _current_idx and the two outcomes of a connect.                         *)

Current ==
  IF pending # None THEN pending
  ELSE IF pin # None THEN pin
  ELSE IF ~preemptive /\ sticky # None THEN sticky
  ELSE order[cursor]

\* a slip that NoPullBack must notice: the failure count survives a connection
CountKept(h) ==
  /\ pending' = IF pending = h THEN None ELSE pending
  /\ IF preemptive THEN cursor' = 1 /\ UNCHANGED sticky
                   ELSE sticky' = h /\ cursor' = IndexIn(order, h)
  /\ UNCHANGED fails

\* on_connected: called once TCP is up, whatever becomes of the hello
OnConnected(h) ==
  /\ fails' = 0
  /\ pending' = IF pending = h THEN None ELSE pending
  /\ IF preemptive THEN cursor' = 1 /\ UNCHANGED sticky
                   ELSE sticky' = h /\ cursor' = IndexIn(order, h)

DialReaches ==
  /\ session = "none" /\ hub[Current] # "down" /\ lease
  /\ active' = Current
  /\ OnConnected(Current)
  /\ session' = "dialled" /\ connectFails' = 0
  /\ home' = Current /\ misses' = 0
  /\ UNCHANGED <<config, order, pin, pref, lease, hub>>

\* a slip that FindsALiveHub must notice: the cursor stops at the last hub
NoWrap(c) == IF c = N THEN N ELSE c + 1

\* self._cursor = (self._cursor + 1) % len(self._order)
Rotated(c) == (c % N) + 1

\* on_failed: a requested move is dropped at once, a hub after Tries failures
OnFailed ==
  \/ /\ pending # None
     /\ pending' = None /\ fails' = 0
     /\ UNCHANGED <<cursor, sticky>>
  \/ /\ pending = None /\ fails + 1 < Tries
     /\ fails' = fails + 1
     /\ UNCHANGED <<cursor, sticky, pending>>
  \/ /\ pending = None /\ fails + 1 >= Tries
     /\ fails' = 0 /\ sticky' = None /\ cursor' = Rotated(cursor)
     /\ UNCHANGED pending

\* too many failures in a row: the interface is set up anew, which gets an address or not
Reacquires == connectFails + 1 >= Rebind

DialFails ==
  /\ session = "none" /\ (hub[Current] = "down" \/ ~lease)
  /\ active' = Current
  /\ OnFailed
  /\ IF Reacquires THEN connectFails' = 0 /\ lease' \in BOOLEAN
     ELSE connectFails' = connectFails + 1 /\ UNCHANGED lease
  /\ misses' = IF misses < Tries THEN misses + 1 ELSE misses
  /\ UNCHANGED <<config, order, pin, pref, session, hub, home>>

\* the address is no longer good, which the board learns from failures only
LeaseGoesBad ==
  /\ lease /\ lease' = FALSE
  /\ UNCHANGED <<config, selector, pref, connectFails, session, hub, home, misses>>

-----------------------------------------------------------------------------
(* The session.                                                            *)

\* the hello is accepted and the hub serves the board
Served ==
  /\ session = "dialled" /\ hub[active] = "accepts" /\ lease
  /\ session' = "served"
  /\ UNCHANGED <<config, selector, pref, network, hub, home, misses>>

\* the hub closes, falls silent, or the link drops: no call into the selector
Drop ==
  /\ session # "none"
  /\ session' = "none"
  /\ UNCHANGED <<config, selector, pref, network, hub, home, misses>>

\* _persist, from the order and the pin it is to record
Persist(o, p) == pref' = IF writable THEN [primary |-> o[1], pin |-> p] ELSE pref

\* apply_directive; the moving ones end the session
Unpin ==
  /\ session = "served"
  /\ pin' = None
  /\ Persist(order, None)
  /\ UNCHANGED <<config, order, cursor, sticky, pending, active, fails, network, session, hub,
                 home, misses>>

Switch(h) ==
  /\ session = "served"
  /\ pending' = h /\ session' = "none"
  /\ UNCHANGED <<config, order, cursor, sticky, pin, active, fails, pref, network, hub, home, misses>>

Prefer(h) ==
  /\ session = "served"
  /\ order' = MoveToFront(order, h) /\ cursor' = 1
  /\ pending' = h /\ session' = "none"
  /\ Persist(order', pin)
  /\ UNCHANGED <<config, sticky, pin, active, fails, network, hub, home, misses>>

Pin(h) ==
  /\ session = "served"
  /\ pin' = h
  /\ pending' = h /\ session' = "none"
  /\ Persist(order, h)
  /\ UNCHANGED <<config, order, cursor, sticky, active, fails, network, hub, home, misses>>

\* a hub goes down, comes back, or has the wrong token: its sessions end
HubChanges(h, s) ==
  /\ s # hub[h]
  /\ hub' = [hub EXCEPT ![h] = s]
  /\ session' = IF h = active THEN "none" ELSE session
  /\ UNCHANGED <<config, selector, pref, network, home, misses>>

Next ==
  \/ Restart \/ DialReaches \/ DialFails \/ LeaseGoesBad \/ Served \/ Drop \/ Unpin
  \/ \E h \in Labels :
       \/ Switch(h) \/ Prefer(h) \/ Pin(h)
       \/ \E s \in {"down", "rejects", "accepts"} : HubChanges(h, s)

Spec == Init /\ [][Next]_vars

\* sessions that cannot last
Doomed == ~lease \/ (session = "dialled" /\ hub[active] = "rejects")

-----------------------------------------------------------------------------
(* Properties *)

\* Every variable has its type: the order stays a permutation of the hubs
\* through promotions and restarts, and the count stays below the limit.
TypeOK ==
  /\ preemptive \in BOOLEAN /\ writable \in BOOLEAN
  /\ order \in [1..N -> Labels] /\ Range(order) = Labels
  /\ cursor \in 1..N
  /\ {sticky, pin, pending, home} \subseteq Labels \union {None}
  /\ active \in Labels
  /\ fails \in 0..(Tries - 1)
  /\ pref \in [primary : Labels, pin : Labels \union {None}] \union {None}
  /\ lease \in BOOLEAN /\ connectFails \in 0..(Rebind - 1)
  /\ session \in {"none", "dialled", "served"}
  /\ hub \in [Labels -> {"down", "rejects", "accepts"}]
  /\ misses \in 0..Tries

\* "A recovered primary does NOT pull us back" (hubselect.py): in sticky mode
\* the board leaves the hub it was on only for a directive, a pin, or after
\* Tries connects to it failed since; whatever happened before does not count.
NoPullBack ==
  [][~preemptive /\ active' # active /\ home # None /\ home' # None
       => active' = home \/ pending # None \/ pin # None \/ misses >= Tries]_vars

\* From some moment on the board is not restarted, nobody pins it, an address that it
\* has or asks for is good, and one hub would serve it.
Calm ==
  /\ <>[][~Restart /\ (lease => lease') /\ (Reacquires /\ DialFails => lease')]_vars
  /\ <>[](pin = None)
  /\ \E h \in Labels : <>[](hub[h] = "accepts")

\* Failover finds a hub: if one hub stays reachable and nobody pins the board,
\* it is never cut off for good, whichever hub it was on, wherever the rotation
\* stood and whether or not its address had gone bad.
FindsALiveHub == Calm => []<>(session # "none")

=============================================================================
