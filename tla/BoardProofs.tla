---------------------------- MODULE BoardProofs ----------------------------
(***************************************************************************)
(* The board, whatever its hubs and its firmware are.                      *)
(*                                                                         *)
(* Hubs: for any number of hubs, any number of tries, and any steering,    *)
(* the board's order stays a permutation of its hubs, a board that stays   *)
(* where it was put is not pulled back, and hubs that are asked to steer   *)
(* it do not ask each other in circles.  The board is proved on its own,   *)
(* and then each step of the composition is a step of the board or leaves  *)
(* it alone, so what holds of the board holds however its hubs steer it.   *)
(*                                                                         *)
(* Firmware: for any number of files, any bundles, good and bad, and any   *)
(* sequence of pushes, reboots and resets: as long as no file operation    *)
(* failed, no reset came within a loop over the files and every commit's   *)
(* result was sent, the board starts one bundle whole, one that does not   *)
(* come to a heartbeat has a good one kept behind it, and firmware that    *)
(* has proved itself is not reverted.  After such a mishap the files may   *)
(* be of two bundles.                                                      *)
(***************************************************************************)
EXTENDS HubSteering, OtaFlash, TLAPS

\* A permutation of the hubs.
Complete(s) == s \in [1..N -> Labels] /\ Range(s) = Labels /\ IsInjective(s)

\* The board keeps its hub until Tries failures were counted since it connected to it;
\* on_failed counts no more of them than there were.
Settled ==
  ~preemptive /\ home # None /\ misses < Tries => sticky = home /\ fails <= misses

Invariant == TypeOK /\ IsInjective(order) /\ Settled

\* The operator's call may wait in one call to a peer, which asks nobody.
Calls == [hub : Labels, relays : BOOLEAN, left : Seq(Labels)]
Asks(c) == Range(c.left) \subseteq Range(Peers[c.hub])
Chain(q) ==
  /\ q \in Seq(Calls) /\ Len(q) <= 2
  /\ \A i \in DOMAIN q : Asks(q[i])
  /\ Len(q) = 2 => ~q[2].relays /\ q[2].hub \in Range(Peers[q[1].hub])

\* What is on its way to the board is on its way in a session.
Steered ==
  /\ Chain(calls)
  /\ holds \subseteq Labels /\ frames \in 0..MaxFrames
  /\ frames > 0 => session = "served"

\* HUB_PEERS holds "Base URLs of the OTHER hubs" (config.py).
OtherHubs == \A h \in Labels : h \notin Range(Peers[h])

-----------------------------------------------------------------------------
(* The order of the hubs.                                                  *)

\* The board knows one hub at least, each once.
LEMMA HubFacts ==
  /\ N \in Nat \ {0} /\ Complete(Hubs) /\ Hubs[1] \in Labels /\ None \notin Labels
<1>1. /\ Hubs \in Seq(Labels) /\ Hubs # <<>>
      /\ \A i, j \in DOMAIN Hubs : Hubs[i] = Hubs[j] => i = j
  BY HubsAssumption DEF Labels
<1>2. N \in Nat \ {0} /\ Hubs \in [1..N -> Labels]
  BY <1>1 DEF N
<1>3. Complete(Hubs)
  BY <1>1, <1>2 DEF Complete, IsInjective, Labels
<1>. QED BY <1>2, <1>3, NoneAssumption DEF Labels

\* Every hub has its place in a complete order.
LEMMA IndexFacts ==
  ASSUME NEW s \in [1..N -> Labels], Range(s) = Labels, NEW h \in Labels
  PROVE  IndexIn(s, h) \in 1..N /\ s[IndexIn(s, h)] = h
<1>1. \E i \in DOMAIN s : s[i] = h
  BY DEF Range
<1>. QED BY <1>1 DEF IndexIn

\* A promoted hub comes first, and the order stays complete.
LEMMA MoveFacts ==
  ASSUME NEW s, Complete(s), NEW h \in Labels
  PROVE  Complete(MoveToFront(s, h)) /\ MoveToFront(s, h)[1] \in Labels
<1> DEFINE k == IndexIn(s, h)
           m == MoveToFront(s, h)
<1>1. /\ s \in [1..N -> Labels] /\ DOMAIN s = 1..N /\ N \in Nat \ {0}
      /\ \A i, j \in 1..N : s[i] = s[j] => i = j
      /\ \A g \in Labels : \E i \in 1..N : g = s[i]
  BY HubFacts DEF Complete, IsInjective, Range
<1>2. k \in 1..N /\ s[k] = h
  BY IndexFacts DEF Complete
<1>3. m = [i \in 1..N |-> IF i = 1 THEN h ELSE IF i <= k THEN s[i - 1] ELSE s[i]]
  BY <1>1 DEF MoveToFront
<1> HIDE DEF k, m
<1>4. m \in [1..N -> Labels] /\ m[1] = h /\ DOMAIN m = 1..N
  BY <1>1, <1>2, <1>3
<1>5. \A i \in 1..N : i # 1 => m[i] = IF i <= k THEN s[i - 1] ELSE s[i]
  BY <1>3
<1>6. ASSUME NEW g \in Labels PROVE \E i \in 1..N : m[i] = g
  <2>1. PICK j \in 1..N : g = s[j]
    BY <1>1
  <2>2. CASE j = k
    BY <1>1, <1>2, <1>4, <2>1, <2>2
  <2>3. CASE j < k
    <3>1. j + 1 \in 1..N /\ j + 1 # 1 /\ j + 1 <= k /\ (j + 1) - 1 = j
      BY <1>1, <1>2, <2>3
    <3>. QED BY <1>5, <2>1, <3>1
  <2>4. CASE j > k
    <3>1. j # 1 /\ ~(j <= k)
      BY <1>1, <1>2, <2>4
    <3>. QED BY <1>5, <2>1, <3>1
  <2>. QED BY <1>2, <2>2, <2>3, <2>4
<1>7. Range(m) = Labels
  BY <1>4, <1>6 DEF Range
<1>8. \A i \in 1..N : i # 1 => m[i] # h
  BY <1>1, <1>2, <1>5
<1>9. ASSUME NEW i \in 1..N, NEW j \in 1..N, i # 1, j # 1, m[i] = m[j] PROVE i = j
  BY <1>1, <1>2, <1>5, <1>9
<1>10. IsInjective(m)
  BY <1>4, <1>8, <1>9 DEF IsInjective
<1>. QED BY <1>4, <1>7, <1>10 DEF Complete, m

\* The hub the board dials is one of its hubs.
LEMMA CurrentFacts ==
  ASSUME TypeOK
  PROVE  Current \in Labels
BY DEF TypeOK, Current

-----------------------------------------------------------------------------
(* The board.                                                              *)

\* A restart reads the order from the preference file.
LEMMA RestartPreserves ==
  ASSUME Invariant, Restart
  PROVE  Invariant'
<1>1. CASE pref = None
  <2>1. order' = Hubs /\ pin' = None /\ active' = Hubs[1]
    BY <1>1 DEF Restart, Fresh
  <2>. QED BY <2>1, HubFacts, TriesAssumption, RebindAssumption
       DEF Invariant, TypeOK, Restart, Complete, Settled, config
<1>2. CASE pref # None
  <2>1. pref \in [primary : Labels, pin : Labels \union {None}]
    BY <1>2 DEF Invariant, TypeOK
  <2>2. /\ order' = MoveToFront(Hubs, pref.primary) /\ pin' = pref.pin
        /\ active' = MoveToFront(Hubs, pref.primary)[1]
    BY <1>2 DEF Restart, Fresh
  <2>3. Complete(order') /\ active' \in Labels /\ pin' \in Labels \union {None}
    BY <2>1, <2>2, HubFacts, MoveFacts
  <2>. QED BY <2>3, HubFacts, TriesAssumption, RebindAssumption
       DEF Invariant, TypeOK, Restart, Complete, Settled, config
<1>. QED BY <1>1, <1>2

\* A connection resets the count, and is where the board stays.
LEMMA ReachesPreserves ==
  ASSUME Invariant, DialReaches
  PROVE  Invariant'
<1>1. Current \in Labels
  BY CurrentFacts DEF Invariant
<1>2. IndexIn(order, Current) \in 1..N
  BY <1>1, IndexFacts DEF Invariant, TypeOK
<1>3. TypeOK'
  BY <1>1, <1>2, HubFacts, TriesAssumption, RebindAssumption
  DEF Invariant, TypeOK, DialReaches, OnConnected, config
<1>4. Settled'
  BY <1>1, HubFacts DEF Invariant, TypeOK, DialReaches, OnConnected, config, Settled
<1>. QED BY <1>3, <1>4 DEF Invariant, DialReaches

\* A failure is counted, and Tries of them rotate the order.
LEMMA FailsPreserves ==
  ASSUME Invariant, DialFails
  PROVE  Invariant'
<1>1. /\ Current \in Labels /\ Tries \in Nat \ {0} /\ Rebind \in Nat \ {0} /\ N \in Nat \ {0}
  BY CurrentFacts, HubFacts, TriesAssumption, RebindAssumption DEF Invariant
<1>2. Rotated(cursor) \in 1..N
  BY <1>1 DEF Rotated, Invariant, TypeOK
<1>3. /\ fails' \in 0..(Tries - 1) /\ cursor' \in 1..N
      /\ sticky' \in Labels \union {None} /\ pending' \in Labels \union {None}
  BY <1>1, <1>2 DEF DialFails, OnFailed, Invariant, TypeOK
<1>4. connectFails' \in 0..(Rebind - 1) /\ lease' \in BOOLEAN /\ misses' \in 0..Tries
  BY <1>1 DEF DialFails, Reacquires, Invariant, TypeOK
<1>5. TypeOK'
  BY <1>1, <1>3, <1>4 DEF Invariant, TypeOK, DialFails, config
<1>6. Settled'
  BY <1>1 DEF Invariant, TypeOK, DialFails, OnFailed, config, Settled
<1>. QED BY <1>5, <1>6 DEF Invariant, DialFails

\* A directive moves the board, and may promote or pin a hub for good.
LEMMA DirectivePreserves ==
  ASSUME Invariant, NEW h \in Labels, Switch(h) \/ Prefer(h) \/ Pin(h) \/ Unpin
  PROVE  Invariant'
<1>1. N \in Nat \ {0} /\ order[1] \in Labels
  BY HubFacts DEF Invariant, TypeOK
<1>2. CASE Prefer(h)
  <2>1. Complete(order') /\ order'[1] \in Labels
    BY <1>2, MoveFacts DEF Invariant, TypeOK, Complete, Prefer
  <2>2. pref' \in [primary : Labels, pin : Labels \union {None}] \union {None}
    BY <1>2, <2>1 DEF Prefer, Persist, Invariant, TypeOK
  <2>. QED BY <1>1, <1>2, <2>1, <2>2
       DEF Invariant, TypeOK, Prefer, Complete, Settled, config, network
<1>3. CASE Switch(h) \/ Pin(h) \/ Unpin
  <2>1. pref' \in [primary : Labels, pin : Labels \union {None}] \union {None}
    BY <1>1, <1>3 DEF Switch, Pin, Unpin, Persist, Invariant, TypeOK
  <2>. QED BY <1>1, <1>3, <2>1
       DEF Invariant, TypeOK, Switch, Pin, Unpin, Settled, config, network
<1>. QED BY <1>2, <1>3

\* The address, the sessions and the hubs change without the board.
LEMMA WorldPreserves ==
  ASSUME Invariant,
         \/ LeaseGoesBad \/ Served \/ Drop \/ UNCHANGED vars
         \/ \E h \in Labels, s \in {"down", "rejects", "accepts"} : HubChanges(h, s)
  PROVE  Invariant'
<1>1. CASE LeaseGoesBad
  BY <1>1 DEF Invariant, TypeOK, Settled, LeaseGoesBad, config, selector
<1>2. CASE Served \/ Drop
  BY <1>2 DEF Invariant, TypeOK, Settled, Served, Drop, config, selector, network
<1>3. CASE UNCHANGED vars
  BY <1>3 DEF Invariant, TypeOK, Settled, vars
<1>4. ASSUME NEW h \in Labels, NEW s \in {"down", "rejects", "accepts"}, HubChanges(h, s)
      PROVE  Invariant'
  <2>1. hub' \in [Labels -> {"down", "rejects", "accepts"}]
    BY <1>4 DEF Invariant, TypeOK, HubChanges
  <2>. QED BY <1>4, <2>1 DEF Invariant, TypeOK, Settled, HubChanges, config, selector, network
<1>. QED BY <1>1, <1>2, <1>3, <1>4

\* The board keeps its order complete and its count right.
THEOREM BoardInvariant == Spec => []Invariant
<1>1. Init => Invariant
  BY HubFacts, TriesAssumption, RebindAssumption
  DEF Init, Invariant, TypeOK, Settled, Complete
<1>2. Invariant /\ [Next]_vars => Invariant'
  BY RestartPreserves, ReachesPreserves, FailsPreserves, DirectivePreserves, WorldPreserves,
     HubFacts DEF Next
<1>. QED BY <1>1, <1>2, PTL DEF Spec

\* "A recovered primary does NOT pull us back" (hubselect.py): for any number of hubs and
\* tries the board dials another hub than the one it was on only when told to, or after
\* as many failures as it was to try.
THEOREM NoPullBackHolds == Spec => NoPullBack
<1>1. Invariant /\ [Next]_vars =>
        [~preemptive /\ active' # active /\ home # None /\ home' # None
           => active' = home \/ pending # None \/ pin # None \/ misses >= Tries]_vars
  <2>. SUFFICES ASSUME Invariant, [Next]_vars, ~preemptive, active' # active,
                       home # None, home' # None, pending = None, pin = None,
                       ~(misses >= Tries)
                PROVE  active' = home
    OBVIOUS
  <2>1. Current = home
    BY TriesAssumption DEF Current, Invariant, TypeOK, Settled
  <2>2. DialReaches \/ DialFails
    BY DEF Next, vars, Restart, LeaseGoesBad, Served, Drop, Unpin, Switch, Prefer, Pin,
           HubChanges, selector
  <2>. QED BY <2>1, <2>2 DEF DialReaches, DialFails
<1>. QED BY <1>1, BoardInvariant, PTL DEF Spec, NoPullBack

-----------------------------------------------------------------------------
(* The composition.                                                        *)

\* However the hubs steer it, the board behaves as the board alone.
THEOREM SteeringIsBoard == SteeringSpec => Spec
<1>1. SteeringInit => Init
  BY DEF SteeringInit
<1>2. [SteeringNext]_svars => [Next]_vars
  <2>. SUFFICES ASSUME [SteeringNext]_svars PROVE [Next]_vars
    OBVIOUS
  <2>1. CASE Dials \/ Expires \/ Leaves \/ Registers \/ Directed
    BY <2>1 DEF Dials, Expires, Leaves, Registers, Directed, Next
  <2>2. CASE Sends \/ Declines \/ Relays \/ GivesUp
    BY <2>2 DEF Sends, Declines, Relays, GivesUp
  <2>3. ASSUME NEW h \in Labels, MarksOffline(h) \/ Post(h) PROVE [Next]_vars
    BY <2>3 DEF MarksOffline, Post
  <2>4. ASSUME NEW h \in Labels, NEW s \in {"down", "rejects", "accepts"}, HubTurns(h, s)
        PROVE  [Next]_vars
    BY <2>4 DEF HubTurns, Next
  <2>5. CASE UNCHANGED svars
    BY <2>5 DEF svars
  <2>. QED BY <2>1, <2>2, <2>3, <2>4, <2>5 DEF SteeringNext
<1>. QED BY <1>1, <1>2, PTL DEF SteeringSpec, Spec

\* The calls that are left when a hub stops, or when the last one returns.
LEMMA PrefixFacts ==
  ASSUME NEW q, Chain(q), NEW k \in 0..Len(q)
  PROVE  Chain(SubSeq(q, 1, k))
<1>1. q \in Seq(Calls) /\ Len(q) \in Nat /\ DOMAIN q = 1..Len(q)
  BY DEF Chain
<1>2. /\ SubSeq(q, 1, k) \in Seq(Calls) /\ Len(SubSeq(q, 1, k)) = k
      /\ DOMAIN SubSeq(q, 1, k) = 1..k
      /\ \A i \in 1..k : SubSeq(q, 1, k)[i] = q[i]
  BY <1>1
<1>. QED BY <1>1, <1>2 DEF Chain

\* The operator's call alone, and with a call to a peer.
LEMMA ChainFacts ==
  ASSUME NEW c \in Calls, Asks(c)
  PROVE  /\ Chain(<<>>) /\ Chain(<<c>>)
         /\ \A d \in Calls : Asks(d) /\ ~d.relays /\ d.hub \in Range(Peers[c.hub])
              => Chain(Append(<<c>>, d))
<1>1. Chain(<<>>) /\ Chain(<<c>>)
  BY DEF Chain
<1>2. ASSUME NEW d \in Calls, Asks(d), ~d.relays, d.hub \in Range(Peers[c.hub])
      PROVE  Chain(Append(<<c>>, d))
  <2>1. <<c>> \in Seq(Calls) /\ Len(<<c>>) = 1 /\ <<c>>[1] = c
    OBVIOUS
  <2>2. /\ Append(<<c>>, d) \in Seq(Calls) /\ Len(Append(<<c>>, d)) = 2
        /\ DOMAIN Append(<<c>>, d) = 1..2
        /\ Append(<<c>>, d)[1] = c /\ Append(<<c>>, d)[2] = d
    BY <2>1
  <2>. QED BY <1>2, <2>2 DEF Chain
<1>. QED BY <1>1, <1>2

\* The call that runs, with those that wait for it.
LEMMA RunningFacts ==
  ASSUME Chain(calls), calls # <<>>
  PROVE  /\ Running \in Calls /\ Asks(Running) /\ Chain(Returned) /\ Chain(<<>>)
         /\ AllowRelay \/ Running.relays => Returned = <<>> /\ \A c : WithRunning(c) = <<c>>
<1>0. calls \in Seq(Calls) /\ Len(calls) \in Nat \ {0} /\ DOMAIN calls = 1..Len(calls)
  BY DEF Chain
<1>1. /\ calls \in Seq(Calls) /\ Len(calls) \in 1..2 /\ DOMAIN calls = 1..Len(calls)
      /\ Len(calls) = 2 => ~calls[2].relays
      /\ \A i \in 1..Len(calls) : Asks(calls[i])
  BY <1>0 DEF Chain
<1>2. Running \in Calls /\ Asks(Running)
  BY <1>1 DEF Running
<1>3. Chain(Returned)
  <2>1. Len(calls) - 1 \in 0..Len(calls)
    BY <1>1
  <2>. QED BY <2>1, PrefixFacts DEF Returned
<1>4. ASSUME AllowRelay \/ Running.relays PROVE Returned = <<>>
  <2>1. Len(calls) = 1
    BY <1>1, <1>4 DEF AllowRelay, Running
  <2>. QED BY <1>1, <2>1 DEF Returned
<1>5. \A c : Append(<<>>, c) = <<c>>
  OBVIOUS
<1>. QED BY <1>2, <1>3, <1>4, <1>5, ChainFacts DEF WithRunning

\* A hub that is asked, by the operator or by a peer.
LEMMA CallFacts ==
  ASSUME NEW h \in Labels
  PROVE  Call(h) \in Calls /\ Asks(Call(h)) /\ ~Call(h).relays /\ Call(h).hub = h
BY PeersAssumption DEF Call, Calls, Asks

\* A step of the request keeps the chain.
LEMMA AnswersPreserve ==
  ASSUME Steered, TypeOK, Answers
  PROVE  Steered'
<1>1. /\ UNCHANGED <<vars, holds>> /\ calls # <<>>
      /\ Running \in Calls /\ Asks(Running) /\ Chain(Returned) /\ Chain(<<>>)
      /\ AllowRelay \/ Running.relays => Returned = <<>> /\ \A c : WithRunning(c) = <<c>>
  BY RunningFacts DEF Steered, Answers, Sends, Declines, Relays, GivesUp
<1>2. CASE Sends
  <2>1. frames' \in 0..MaxFrames /\ (frames' > 0 => session' = "served")
    BY <1>1, <1>2, FramesAssumption DEF Sends, Steered, Serves, vars
  <2>. QED BY <1>1, <1>2, <2>1 DEF Sends, Steered
<1>3. CASE Declines
  <2>1. /\ [Running EXCEPT !.relays = TRUE] \in Calls
        /\ Asks([Running EXCEPT !.relays = TRUE])
    BY <1>1 DEF Calls, Asks
  <2>2. Chain(calls')
    BY <1>1, <1>3, <2>1, ChainFacts DEF Declines
  <2>. QED BY <1>1, <1>3, <2>2 DEF Declines, Steered, vars
<1>4. CASE Relays
  <2> DEFINE peer == Head(Running.left)
             c == [Running EXCEPT !.left = Tail(@)]
  <2>1. /\ Running.left \in Seq(Labels) /\ Running.left # <<>> /\ Running.relays
        /\ calls' = IF hub[peer] = "down" THEN WithRunning(c)
                    ELSE Append(WithRunning(c), Call(peer))
    BY <1>1, <1>4 DEF Relays, Calls
  <2>2. /\ peer \in Labels /\ peer \in Range(Running.left)
        /\ Tail(Running.left) \in Seq(Labels)
        /\ Range(Tail(Running.left)) \subseteq Range(Running.left)
    <3>1. ASSUME NEW l \in Seq(Labels), l # <<>>
          PROVE  /\ Head(l) \in Labels /\ Head(l) \in Range(l) /\ Tail(l) \in Seq(Labels)
                 /\ Range(Tail(l)) \subseteq Range(l)
      <4>1. /\ Len(l) \in Nat \ {0} /\ DOMAIN l = 1..Len(l) /\ Head(l) = l[1]
            /\ Tail(l) \in Seq(Labels) /\ DOMAIN Tail(l) = 1..(Len(l) - 1)
            /\ \A i \in 1..(Len(l) - 1) : Tail(l)[i] = l[i + 1]
            /\ \A i \in 1..Len(l) : l[i] \in Labels
        BY <3>1
      <4>. QED BY <4>1 DEF Range
    <3>. QED BY <2>1, <3>1
  <2>3. c \in Calls /\ Asks(c) /\ c.hub = Running.hub
    BY <1>1, <2>1, <2>2 DEF Calls, Asks
  <2>4. peer \in Range(Peers[c.hub])
    BY <1>1, <2>2, <2>3 DEF Asks
  <2> HIDE DEF peer, c
  <2>5. WithRunning(c) = <<c>>
    BY <1>1, <2>1
  <2>6. Chain(<<c>>) /\ Chain(Append(<<c>>, Call(peer)))
    BY <2>2, <2>3, <2>4, ChainFacts, CallFacts
  <2>. QED BY <1>1, <1>4, <2>1, <2>5, <2>6 DEF Relays, Steered, vars
<1>5. CASE GivesUp
  BY <1>1, <1>5 DEF GivesUp, Steered, vars
<1>. QED BY <1>2, <1>3, <1>4, <1>5 DEF Answers

\* The board and its hubs move.
LEMMA MovesPreserve ==
  ASSUME Steered, TypeOK,
         \/ Dials \/ Expires \/ Leaves \/ Registers \/ Directed \/ UNCHANGED svars
         \/ \E h \in Labels : MarksOffline(h)
  PROVE  Steered'
<1>1. CASE Dials \/ Expires \/ Leaves \/ Registers
  BY <1>1, FramesAssumption
  DEF Dials, Expires, Leaves, Registers, Steered, TypeOK, hubs, DialReaches, DialFails,
      LeaseGoesBad, Served
<1>2. CASE Directed
  BY <1>2, FramesAssumption DEF Directed, Steered, Unpin
<1>3. ASSUME NEW h \in Labels, MarksOffline(h) PROVE Steered'
  BY <1>3 DEF MarksOffline, Steered, vars
<1>4. CASE UNCHANGED svars
  BY <1>4 DEF svars, vars, hubs, Steered
<1>. QED BY <1>1, <1>2, <1>3, <1>4

\* A hub turns, or the operator asks one.
LEMMA HubPreserves ==
  ASSUME Steered, TypeOK, NEW h \in Labels, NEW s, HubTurns(h, s) \/ Post(h)
  PROVE  Steered'
<1>1. CASE HubTurns(h, s)
  <2>1. Chain(calls')
    BY <1>1, PrefixFacts DEF HubTurns, Steered
  <2>2. frames' > 0 => frames' = frames /\ session' = session
    BY <1>1 DEF HubTurns, HubChanges
  <2>. QED BY <1>1, <2>1, <2>2, FramesAssumption DEF HubTurns, Steered
<1>2. CASE Post(h)
  <2>1. Chain(calls')
    BY <1>2, CallFacts, ChainFacts DEF Post
  <2>. QED BY <1>2, <2>1 DEF Post, Steered, vars
<1>. QED BY <1>1, <1>2

\* "The relay header stops the peer from relaying again (no loop)" (core.py): with any
\* number of hubs and any peers among them, a request waits in two of them at most.
THEOREM RelayEnds == SteeringSpec => []Steered
<1>1. SteeringInit => Steered
  BY FramesAssumption DEF SteeringInit, Steered, Chain
<1>2. Steered /\ Invariant /\ [SteeringNext]_svars => Steered'
  BY AnswersPreserve, MovesPreserve, HubPreserves DEF SteeringNext, Answers, Invariant
<1>. QED BY <1>1, <1>2, SteeringIsBoard, BoardInvariant, PTL DEF SteeringSpec

\* Every variable has its type however the board is steered, its order a permutation of
\* its hubs; and if no hub is its own peer, none waits for itself.
THEOREM SteeringTypeCorrect ==
  ASSUME OtherHubs
  PROVE  SteeringSpec => []SteeringTypeOK
<1>1. Steered /\ Invariant => SteeringTypeOK
  <2>. SUFFICES ASSUME Steered, Invariant PROVE SteeringTypeOK
    OBVIOUS
  <2>0. /\ calls \in Seq(Calls) /\ Len(calls) \in Nat /\ DOMAIN calls = 1..Len(calls)
    BY DEF Steered, Chain
  <2>1. /\ calls \in Seq(Calls) /\ Len(calls) \in 0..2 /\ DOMAIN calls = 1..Len(calls)
        /\ Len(calls) = 2 => calls[2].hub \in Range(Peers[calls[1].hub])
    BY <2>0 DEF Steered, Chain
  <2>2. ASSUME Len(calls) = 2 PROVE calls[1].hub # calls[2].hub
    <3>1. calls[1] \in Calls
      BY <2>0, <2>2
    <3>2. calls[1].hub \in Labels
      BY <3>1 DEF Calls
    <3>. QED BY <2>1, <2>2, <3>2 DEF OtherHubs
  <2>3. IsInjective([i \in DOMAIN calls |-> calls[i].hub])
    BY <2>1, <2>2 DEF IsInjective
  <2>. QED BY <2>1, <2>3 DEF Steered, Invariant, SteeringTypeOK, Calls
<1>. QED BY <1>1, RelayEnds, SteeringIsBoard, BoardInvariant, PTL

\* However many hubs steer it, the board is not pulled back.
THEOREM SteeredNoPullBack == SteeringSpec => NoPullBack
BY SteeringIsBoard, NoPullBackHolds, PTL

-----------------------------------------------------------------------------
(* The firmware: a state disjoint from that of the hub selection.          *)

\* A bundle names each file once.
Distinct == IsInjective(Manifest)

Whole(img, v) == \A f \in Files : img[f] = v

\* Outside the loops that write files the installed firmware is one bundle.  It is one
\* that runs, or the .bak files are, and the marker says so.
Installed ==
  pc \in {"boot", "start", "run", "hung", "stopped", "finalize"} =>
    /\ marker # "torn"
    /\ \E v \in Versions : Whole(live, v)
    /\ marker = "listed" /\ pc # "finalize" => Healthy(bak)
    /\ pc \in {"boot", "start"} /\ marker = "none" => Healthy(live)
    /\ pc \in {"hung", "stopped"} => marker = "listed"
    /\ pc \in {"run", "finalize"} => Healthy(live) /\ image = live

\* A commit has swapped the files that it has left behind, the old ones kept; of
\* the file it is at, the old one may be moved already.
Swapping ==
  pc = "commit" =>
    \E v \in Bundles, w \in good : \A f \in Files :
      IF f \in Range(todo)
      THEN /\ staged[f] = v
           /\ live[f] = w \/ (f = Head(todo) /\ live[f] = NoFile /\ bak[f] = w)
      ELSE live[f] = v /\ bak[f] = w

\* A recovery has put back the files that it has left behind.
Restoring ==
  pc = "recover" =>
    \E w \in good : \A f \in Files : IF f \in Range(todo) THEN bak[f] = w ELSE live[f] = w

\* Firmware that has proved itself has no marker, or is just removing it.
Trusted == proven => pc \notin {"commit", "recover"} /\ (pc # "finalize" => marker = "none")

Sound == Installed /\ Swapping /\ Restoring /\ Trusted /\ IsInjective(todo)

FlashInvariant == FlashTypeOK /\ (mishaps = 0 => Sound /\ transfer # "spent")

-----------------------------------------------------------------------------
(* The types.                                                              *)

\* Files, versions, and the marks for the lack of one.
LEMMA ContentFacts ==
  /\ Manifest \in Seq(Files) /\ Manifest # <<>> /\ Range(Manifest) = Files
  /\ <<>> \in Seq(Files)
  /\ Versions \subseteq Nat /\ Bundles \subseteq Versions /\ 0 \in Versions
  /\ NoFile \notin Versions /\ Corrupt \notin Versions /\ NoFile # Corrupt
<1>1. /\ Manifest \in Seq(Files) /\ Range(Manifest) = Files /\ Flasher \in Files
  BY ManifestAssumption DEF Files
<1>2. Manifest # <<>>
  BY <1>1 DEF Range
<1>3. <<>> \in Seq(Files)
  OBVIOUS
<1>. QED BY <1>1, <1>2, <1>3, BundlesAssumption DEF Versions, NoFile, Corrupt

\* A loop goes on with what is behind the first file.
LEMMA TailFacts ==
  ASSUME NEW q \in Seq(Files), q # <<>>
  PROVE  /\ Head(q) \in Files /\ Head(q) \in Range(q) /\ Tail(q) \in Seq(Files)
         /\ IsInjective(q) => /\ IsInjective(Tail(q))
                              /\ Range(Tail(q)) = Range(q) \ {Head(q)}
<1>1. /\ Len(q) \in Nat \ {0} /\ DOMAIN q = 1..Len(q) /\ Head(q) = q[1]
      /\ Tail(q) \in Seq(Files) /\ Len(Tail(q)) = Len(q) - 1
      /\ DOMAIN Tail(q) = 1..(Len(q) - 1)
      /\ \A i \in 1..(Len(q) - 1) : Tail(q)[i] = q[i + 1]
      /\ \A i \in 1..Len(q) : q[i] \in Files
  OBVIOUS
<1>2. Head(q) \in Files /\ Head(q) \in Range(q)
  BY <1>1 DEF Range
<1>3. ASSUME IsInjective(q)
      PROVE  IsInjective(Tail(q)) /\ Range(Tail(q)) = Range(q) \ {Head(q)}
  <2>1. \A i, j \in 1..Len(q) : q[i] = q[j] => i = j
    BY <1>1, <1>3 DEF IsInjective
  <2>2. IsInjective(Tail(q))
    BY <1>1, <2>1 DEF IsInjective
  <2>3. ASSUME NEW f PROVE f \in Range(Tail(q)) <=> f \in Range(q) /\ f # Head(q)
    <3>1. ASSUME f \in Range(Tail(q)) PROVE f \in Range(q) /\ f # Head(q)
      <4>1. PICK i \in 1..(Len(q) - 1) : f = Tail(q)[i]
        BY <1>1, <3>1 DEF Range
      <4>2. i + 1 \in 1..Len(q) /\ f = q[i + 1] /\ i + 1 # 1 /\ 1 \in 1..Len(q)
        BY <1>1, <4>1
      <4>. QED BY <1>1, <2>1, <4>2 DEF Range
    <3>2. ASSUME f \in Range(q), f # Head(q) PROVE f \in Range(Tail(q))
      <4>1. PICK i \in 1..Len(q) : f = q[i]
        BY <1>1, <3>2 DEF Range
      <4>2. i - 1 \in 1..(Len(q) - 1) /\ i = (i - 1) + 1
        BY <1>1, <3>2, <4>1
      <4>. QED BY <1>1, <4>1, <4>2 DEF Range
    <3>. QED BY <3>1, <3>2
  <2>. QED BY <2>2, <2>3
<1>. QED BY <1>1, <1>2, <1>3

\* The board as it is deployed.
LEMMA InitialTypes == FlashInit => FlashTypeOK
<1>. SUFFICES ASSUME FlashInit PROVE FlashTypeOK
  OBVIOUS
<1>1. /\ \A v \in Versions \union {Corrupt, NoFile} :
           [f \in Files |-> v] \in [Files -> Versions \union {Corrupt, NoFile}]
      /\ 0 \in Versions
  BY ContentFacts
<1>2. /\ live \in [Files -> Versions \union {Corrupt, NoFile}]
      /\ bak \in [Files -> Versions \union {Corrupt, NoFile}]
      /\ image \in [Files -> Versions \union {Corrupt, NoFile}]
      /\ staged \in [Files -> Versions \union {Corrupt, NoFile}]
  BY <1>1 DEF FlashInit, NoFirmware
<1>3. mishaps \in 0..MaxMishaps
  BY MishapsAssumption DEF FlashInit
<1>. QED BY <1>2, <1>3, ContentFacts DEF FlashInit, FlashTypeOK, Verified

\* A mishap counts.
LEMMA NoMishap ==
  ASSUME mishaps = 0, mishaps' = 0
  PROVE  ~Mishap
BY DEF Mishap

\* Mishaps are counted up to the bound, so the first one is seen for ever.
LEMMA MishapFacts ==
  ASSUME FlashTypeOK, [FlashNext]_flashVars
  PROVE  mishaps' \in 0..MaxMishaps /\ (mishaps' = 0 => mishaps = 0)
<1>1. UNCHANGED mishaps \/ Mishap
  BY DEF FlashNext, flashVars, Working, Boot, RecoverFile, RecoverFails, Reverted, Start,
     SwapFile, OpenMarker, CommitRaises, Committed, FinalizeFile, Finalized, Interrupt,
     WatchdogReset, Reset, Begin, Commit, FirstHeartbeat, Reload, Chunks
<1>. QED BY <1>1, MishapsAssumption DEF Mishap, FlashTypeOK

\* Every variable keeps its type, whenever resets strike and whatever fails; only what
\* verified is committed, and without a mishap that is the whole bundle (otaflash.py).
THEOREM FlashTypeCorrect == FlashSpec => []FlashTypeOK
<1>1. FlashInit => FlashTypeOK
  BY InitialTypes
<1>2. FlashTypeOK /\ [FlashNext]_flashVars => FlashTypeOK'
  <2>. SUFFICES ASSUME FlashTypeOK, [FlashNext]_flashVars PROVE FlashTypeOK'
    OBVIOUS
  <2>0. mishaps' \in 0..MaxMishaps /\ (mishaps' = 0 => mishaps = 0)
    BY MishapFacts
  <2>1. CASE UNCHANGED flashVars
    BY <2>1 DEF flashVars, FlashTypeOK, Verified
  <2>2. CASE Boot
    BY <2>0, <2>2, ContentFacts DEF FlashTypeOK, Boot, disk, Verified
  <2>3. CASE RecoverFile \/ RecoverFails
    <3>1. /\ pc' = pc /\ pc = "recover" /\ todo # <<>> /\ todo \in Seq(Files)
          /\ todo' \in {todo, Tail(todo)} /\ Head(todo) \in Files
          /\ UNCHANGED <<good, staged, marker, cause, armed, image, done, transfer, proven>>
      BY <2>3, TailFacts DEF FlashTypeOK, RecoverFile, RecoverFails, disk
    <3>2. /\ live' \in [Files -> Versions \union {Corrupt, NoFile}]
          /\ bak' \in [Files -> Versions \union {Corrupt, NoFile}]
      BY <2>3, <3>1 DEF FlashTypeOK, RecoverFile, RecoverFails, disk
    <3>3. todo' \in Seq(Files)
      BY <3>1, TailFacts
    <3>. QED BY <2>0, <3>1, <3>2, <3>3 DEF FlashTypeOK, Verified
  <2>4. CASE Reverted
    BY <2>0, <2>4 DEF FlashTypeOK, Reverted, Verified
  <2>5. CASE Start
    BY <2>0, <2>5 DEF FlashTypeOK, Start, disk, Verified
  <2>6. CASE SwapFile
    <3>1. /\ pc' = pc /\ pc = "commit" /\ todo # <<>> /\ todo \in Seq(Files)
          /\ todo' \in {todo, Tail(todo)} /\ Head(todo) \in Files /\ Verified
          /\ UNCHANGED <<good, marker, cause, armed, image, done, transfer, proven>>
      BY <2>6, TailFacts DEF FlashTypeOK, SwapFile
    <3>2. /\ live' \in [Files -> Versions \union {Corrupt, NoFile}]
          /\ bak' \in [Files -> Versions \union {Corrupt, NoFile}]
          /\ staged' \in [Files -> Versions \union {Corrupt, NoFile}]
      <4>1. /\ live \in [Files -> Versions \union {Corrupt, NoFile}]
            /\ bak \in [Files -> Versions \union {Corrupt, NoFile}]
            /\ staged \in [Files -> Versions \union {Corrupt, NoFile}]
        BY <3>1, ContentFacts DEF FlashTypeOK
      <4>2. \/ bak' = [bak EXCEPT ![Head(todo)] = NoFile] /\ UNCHANGED <<live, staged>>
            \/ /\ bak' = [bak EXCEPT ![Head(todo)] = live[Head(todo)]]
               /\ live' = [live EXCEPT ![Head(todo)] = NoFile] /\ UNCHANGED staged
            \/ /\ live' = [live EXCEPT ![Head(todo)] = staged[Head(todo)]]
               /\ staged' = [staged EXCEPT ![Head(todo)] = NoFile] /\ UNCHANGED bak
        BY <2>6 DEF SwapFile
      <4>. QED BY <3>1, <4>1, <4>2
    <3>3. todo' \in Seq(Files)
      BY <3>1, TailFacts
    <3>. QED BY <2>0, <3>1, <3>2, <3>3 DEF FlashTypeOK, Verified
  <2>7. CASE OpenMarker
    BY <2>0, <2>7 DEF FlashTypeOK, OpenMarker, Verified
  <2>8. CASE CommitRaises
    BY <2>0, <2>8, ContentFacts DEF FlashTypeOK, CommitRaises, disk, Verified
  <2>9. CASE Committed
    BY <2>0, <2>9, ContentFacts DEF FlashTypeOK, Committed, NoFirmware, Verified
  <2>10. CASE FinalizeFile \/ Finalized
    <3>1. /\ pc = "finalize" /\ pc' \in {"finalize", "run"} /\ marker' \in {marker, "none"}
          /\ UNCHANGED <<good, live, staged, cause, armed, image, done, transfer, proven>>
      BY <2>10 DEF FinalizeFile, Finalized
    <3>2. bak' \in [Files -> Versions \union {Corrupt, NoFile}]
      BY <2>10 DEF FlashTypeOK, FinalizeFile, Finalized
    <3>3. todo' \in Seq(Files)
      BY <2>10, TailFacts DEF FlashTypeOK, FinalizeFile, Finalized
    <3>. QED BY <2>0, <3>1, <3>2, <3>3 DEF FlashTypeOK, Verified
  <2>11. CASE Interrupt \/ WatchdogReset
    <3>1. PICK why \in {"power", "watchdog"} : Reset(why)
      BY <2>11 DEF Interrupt, WatchdogReset
    <3>. QED BY <2>0, <3>1, ContentFacts DEF FlashTypeOK, Reset, disk, NoFirmware, Verified
  <2>12. CASE Begin
    BY <2>0, <2>12, ContentFacts DEF FlashTypeOK, Begin, Verified
  <2>13. CASE Commit
    BY <2>0, <2>13, ContentFacts DEF FlashTypeOK, Commit, disk, Verified
  <2>14. CASE FirstHeartbeat
    BY <2>0, <2>14, ContentFacts DEF FlashTypeOK, FirstHeartbeat, disk, Verified
  <2>15. CASE Reload
    BY <2>0, <2>15 DEF FlashTypeOK, Reload, disk, NoFirmware, Verified
  <2>16. ASSUME NEW v \in Bundles, Chunks(v) PROVE FlashTypeOK'
    BY <2>0, <2>16, ContentFacts, MishapFacts, NoMishap DEF FlashTypeOK, Chunks, Verified
  <2>. QED BY <2>1, <2>2, <2>3, <2>4, <2>5, <2>6, <2>7, <2>8, <2>9, <2>10, <2>11, <2>12,
              <2>13, <2>14, <2>15, <2>16 DEF FlashNext, Working
<1>. QED BY <1>1, <1>2, PTL DEF FlashSpec

-----------------------------------------------------------------------------
(* The steps of a board that has had no mishap.                            *)

\* Firmware that is there is whole, and none of its files is missing.
LEMMA WholeFacts ==
  ASSUME FlashTypeOK
  PROVE  /\ good \subseteq Versions
         /\ \A w \in good : \A img : Whole(img, w) => Healthy(img)
         /\ \A img : Healthy(img) => \E w \in good : Whole(img, w)
         /\ \A v \in Versions, f \in Files : Whole(live, v) => live[f] = v /\ live[f] # NoFile
BY ContentFacts DEF FlashTypeOK, Whole, Healthy

\* A reset outside the loops finds a whole firmware.
LEMMA ResetPreserves ==
  ASSUME Distinct, FlashInvariant, mishaps = 0, mishaps' = 0, NEW why, Reset(why)
  PROVE  Sound'
<1>1. /\ pc' = "boot" /\ todo' = <<>> /\ UNCHANGED <<good, disk, proven>>
      /\ pc \in {"boot", "start", "run", "hung", "stopped"}
      /\ Installed /\ Trusted
  BY DEF Reset, Mishap, FlashInvariant, FlashTypeOK, Sound
<1>2. Installed'
  BY <1>1 DEF Installed, disk, Whole, Healthy
<1>3. Trusted'
  BY <1>1 DEF Trusted, disk
<1>4. Swapping' /\ Restoring'
  BY <1>1 DEF Swapping, Restoring
<1>5. IsInjective(todo)'
  BY <1>1 DEF IsInjective
<1>. QED BY <1>2, <1>3, <1>4, <1>5 DEF Sound

\* The marker is read: a firmware that has proved itself has none.
LEMMA BootPreserves ==
  ASSUME Distinct, FlashInvariant, mishaps = 0, mishaps' = 0, Boot
  PROVE  Sound'
<1>1. /\ pc = "boot" /\ UNCHANGED <<good, live, bak, staged, marker, image, proven>>
      /\ FlashTypeOK /\ Installed /\ Trusted /\ IsInjective(todo)
  BY DEF Boot, FlashInvariant, Sound, disk
<1>2. CASE pc' = "start" /\ UNCHANGED todo
  <2>1. Installed' /\ Trusted'
    BY <1>1, <1>2 DEF Installed, Trusted, Whole, Healthy
  <2>. QED BY <1>1, <1>2, <2>1 DEF Swapping, Restoring, Sound
<1>3. CASE marker = "listed" /\ pc' = "recover" /\ todo' = Manifest
  <2>1. Healthy(bak)
    BY <1>1, <1>3 DEF Installed
  <2>2. PICK w \in good : Whole(bak, w)
    BY <1>1, <2>1, WholeFacts
  <2>3. Restoring'
    BY <1>1, <1>3, <2>2, ContentFacts DEF Restoring, Whole
  <2>4. IsInjective(todo)'
    BY <1>3 DEF Distinct
  <2>5. Installed' /\ Swapping'
    BY <1>3 DEF Installed, Swapping
  <2>6. Trusted'
    BY <1>1, <1>3 DEF Trusted
  <2>. QED BY <2>3, <2>4, <2>5, <2>6 DEF Sound
<1>4. marker \in {"none", "torn", "listed"}
  BY <1>1 DEF FlashTypeOK
<1>. QED BY <1>2, <1>3, <1>4 DEF Boot

\* A recovery puts back one file after the other, from .bak files that are all there.
LEMMA RecoverPreserves ==
  ASSUME Distinct, FlashInvariant, mishaps = 0, mishaps' = 0, RecoverFile \/ Reverted
  PROVE  Sound'
<1>1. /\ pc = "recover" /\ UNCHANGED <<good, staged, image, proven>>
      /\ FlashTypeOK /\ Restoring /\ ~proven /\ IsInjective(todo)
  BY DEF RecoverFile, Reverted, FlashInvariant, Sound, Trusted
<1>2. PICK w \in good :
        \A f \in Files : IF f \in Range(todo) THEN bak[f] = w ELSE live[f] = w
  BY <1>1 DEF Restoring
<1>3. w \in Versions /\ w # NoFile
  BY <1>1, <1>2, ContentFacts DEF FlashTypeOK
<1>4. CASE RecoverFile
  <2>1. /\ pc' = "recover" /\ todo # <<>> /\ todo \in Seq(Files)
    BY <1>1, <1>4 DEF RecoverFile, FlashTypeOK
  <2>2. /\ Head(todo) \in Files /\ Head(todo) \in Range(todo)
        /\ IsInjective(Tail(todo)) /\ Range(Tail(todo)) = Range(todo) \ {Head(todo)}
    BY <1>1, <2>1, TailFacts
  <2>3. bak[Head(todo)] = w /\ bak[Head(todo)] # NoFile
    BY <1>2, <1>3, <2>2
  <2>4. \/ live' = [live EXCEPT ![Head(todo)] = NoFile] /\ UNCHANGED <<bak, todo>>
        \/ /\ live' = [live EXCEPT ![Head(todo)] = w]
           /\ bak' = [bak EXCEPT ![Head(todo)] = NoFile]
           /\ todo' = Tail(todo)
    BY <1>4, <2>3 DEF RecoverFile
  <2>5. \A f \in Files : IF f \in Range(todo') THEN bak'[f] = w ELSE live'[f] = w
    BY <1>1, <1>2, <2>2, <2>4 DEF FlashTypeOK
  <2>6. Restoring' /\ IsInjective(todo)'
    BY <1>1, <1>2, <2>2, <2>4, <2>5 DEF Restoring
  <2>. QED BY <1>1, <2>1, <2>6 DEF Installed, Swapping, Trusted, Sound
<1>5. CASE Reverted
  <2>1. /\ pc' = "start" /\ marker' = "none" /\ todo = <<>> /\ UNCHANGED <<live, bak, todo>>
    BY <1>5, NoMishap DEF Reverted
  <2>2. Whole(live, w)'
    BY <1>2, <2>1 DEF Range, Whole
  <2>3. Healthy(live)'
    BY <1>1, <1>2, <2>2 DEF Whole, Healthy
  <2>4. Installed'
    BY <1>3, <2>1, <2>2, <2>3 DEF Installed
  <2>. QED BY <1>1, <2>1, <2>4 DEF Swapping, Restoring, Trusted, Sound
<1>. QED BY <1>4, <1>5

\* What starts is whole, and has a good firmware behind it if it hangs.
LEMMA StartPreserves ==
  ASSUME Distinct, FlashInvariant, mishaps = 0, mishaps' = 0, Start
  PROVE  Sound'
<1>1. /\ pc = "start" /\ image' = live
      /\ UNCHANGED <<good, live, bak, staged, marker, todo, proven>>
      /\ FlashTypeOK /\ Installed /\ Trusted /\ IsInjective(todo)
  BY DEF Start, FlashInvariant, Sound, disk
<1>2. PICK v \in Versions : Whole(live, v)
  BY <1>1 DEF Installed
<1>3. pc' \in IF Healthy(live) THEN {"run"} ELSE {"hung", "stopped"}
  BY <1>2 DEF Start, Uniform, Whole
<1>4. ~Healthy(live) => marker = "listed"
  BY <1>1 DEF Installed, FlashTypeOK
<1>5. Healthy(live)' <=> Healthy(live)
  BY <1>1 DEF Healthy
<1>6. Installed'
  BY <1>1, <1>3, <1>4, <1>5 DEF Installed, Whole, Healthy
<1>. QED BY <1>1, <1>3, <1>6 DEF Swapping, Restoring, Trusted, Sound

\* A commit begins, with a whole bundle in the staging area and a firmware that runs.
LEMMA CommitPreserves ==
  ASSUME Distinct, FlashInvariant, mishaps = 0, mishaps' = 0, Commit
  PROVE  Sound'
<1>1. /\ pc = "run" /\ transfer = "intact" /\ pc' = "commit" /\ todo' = Manifest
      /\ ~proven' /\ UNCHANGED <<good, live, bak, staged, marker>>
      /\ FlashTypeOK /\ Installed
  BY DEF Commit, Verified, FlashInvariant, Sound, disk
<1>2. PICK v \in Bundles : Whole(staged, v)
  BY <1>1 DEF FlashTypeOK, Whole
<1>3. PICK w \in good : Whole(live, w)
  BY <1>1, WholeFacts DEF Installed
<1>4. Swapping'
  BY <1>1, <1>2, <1>3, ContentFacts DEF Swapping, Whole
<1>5. IsInjective(todo)'
  BY <1>1 DEF Distinct
<1>. QED BY <1>1, <1>4, <1>5 DEF Installed, Restoring, Trusted, Sound

\* A commit swaps one file: away with an old .bak, the file aside, the new one in.
LEMMA SwapPreserves ==
  ASSUME Distinct, FlashInvariant, mishaps = 0, mishaps' = 0, SwapFile
  PROVE  Sound'
<1>1. /\ pc = "commit" /\ pc' = "commit" /\ UNCHANGED <<good, marker, proven>>
      /\ todo # <<>> /\ todo \in Seq(Files)
      /\ FlashTypeOK /\ Swapping /\ ~proven /\ IsInjective(todo)
  BY DEF SwapFile, FlashInvariant, Sound, Trusted, FlashTypeOK
<1>2. /\ Head(todo) \in Files /\ Head(todo) \in Range(todo)
      /\ IsInjective(Tail(todo)) /\ Range(Tail(todo)) = Range(todo) \ {Head(todo)}
  BY <1>1, TailFacts
<1>3. PICK v \in Bundles, w \in good : \A f \in Files :
        IF f \in Range(todo)
        THEN /\ staged[f] = v
             /\ live[f] = w \/ (f = Head(todo) /\ live[f] = NoFile /\ bak[f] = w)
        ELSE live[f] = v /\ bak[f] = w
  BY <1>1 DEF Swapping
<1>4. w # NoFile
  BY <1>1, <1>3, ContentFacts DEF FlashTypeOK
<1>5. Swapping' /\ IsInjective(todo)'
  <2>1. CASE live[Head(todo)] # NoFile /\ bak[Head(todo)] # NoFile
    <3>1. bak' = [bak EXCEPT ![Head(todo)] = NoFile] /\ UNCHANGED <<live, staged, todo>>
      BY <2>1 DEF SwapFile
    <3>2. \A f \in Files :
            IF f \in Range(todo')
            THEN staged'[f] = v /\ live'[f] = w
            ELSE live'[f] = v /\ bak'[f] = w
      BY <1>1, <1>2, <1>3, <2>1, <3>1 DEF FlashTypeOK
    <3>. QED BY <1>1, <1>3, <3>1, <3>2 DEF Swapping
  <2>2. CASE live[Head(todo)] # NoFile /\ bak[Head(todo)] = NoFile
    <3>1. /\ bak' = [bak EXCEPT ![Head(todo)] = live[Head(todo)]]
          /\ live' = [live EXCEPT ![Head(todo)] = NoFile] /\ UNCHANGED <<staged, todo>>
      BY <2>2 DEF SwapFile
    <3>2. live[Head(todo)] = w
      BY <1>2, <1>3, <2>2
    <3>3. \A f \in Files :
            IF f \in Range(todo')
            THEN /\ staged'[f] = v
                 /\ live'[f] = w \/ (f = Head(todo') /\ live'[f] = NoFile /\ bak'[f] = w)
            ELSE live'[f] = v /\ bak'[f] = w
      BY <1>1, <1>2, <1>3, <3>1, <3>2 DEF FlashTypeOK
    <3>. QED BY <1>1, <1>3, <3>1, <3>3 DEF Swapping
  <2>3. CASE live[Head(todo)] = NoFile
    <3>1. /\ live' = [live EXCEPT ![Head(todo)] = staged[Head(todo)]]
          /\ staged' = [staged EXCEPT ![Head(todo)] = NoFile]
          /\ todo' = Tail(todo) /\ UNCHANGED bak
      BY <2>3 DEF SwapFile
    <3>2. staged[Head(todo)] = v /\ bak[Head(todo)] = w
      BY <1>2, <1>3, <1>4, <2>3
    <3>3. \A f \in Files :
            IF f \in Range(todo')
            THEN staged'[f] = v /\ live'[f] = w
            ELSE live'[f] = v /\ bak'[f] = w
      BY <1>1, <1>2, <1>3, <3>1, <3>2 DEF FlashTypeOK
    <3>. QED BY <1>1, <1>2, <1>3, <3>1, <3>3 DEF Swapping
  <2>. QED BY <2>1, <2>2, <2>3
<1>. QED BY <1>1, <1>5 DEF Installed, Restoring, Trusted, Sound

\* The swap is done and the marker written.
LEMMA MarkerPreserves ==
  ASSUME Distinct, FlashInvariant, mishaps = 0, mishaps' = 0, OpenMarker \/ Committed
  PROVE  Sound'
<1>1. /\ pc = "commit" /\ todo = <<>> /\ UNCHANGED <<good, live, bak, staged, todo, proven>>
      /\ FlashTypeOK /\ Swapping /\ ~proven /\ IsInjective(todo)
  BY DEF OpenMarker, Committed, FlashInvariant, Sound, Trusted
<1>2. CASE OpenMarker
  <2>1. UNCHANGED pc
    BY <1>2 DEF OpenMarker
  <2>. QED BY <1>1, <2>1 DEF Installed, Swapping, Restoring, Trusted, Sound
<1>3. CASE Committed
  <2>1. pc' = "start" /\ marker' = "listed"
    BY <1>3, NoMishap DEF Committed
  <2>2. PICK v \in Bundles, w \in good : Whole(live, v) /\ Whole(bak, w)
    BY <1>1 DEF Swapping, Range, Whole
  <2>3. Healthy(bak)' /\ Whole(live, v)' /\ v \in Versions
    BY <1>1, <2>2, ContentFacts DEF Whole, Healthy
  <2>4. Installed'
    BY <2>1, <2>3 DEF Installed
  <2>. QED BY <1>1, <2>1, <2>4 DEF Swapping, Restoring, Trusted, Sound
<1>. QED BY <1>2, <1>3

\* Firmware that runs has proved itself, and its .bak files go before the marker.
LEMMA FinalizePreserves ==
  ASSUME Distinct, FlashInvariant, mishaps = 0, mishaps' = 0, FirstHeartbeat \/ FinalizeFile \/ Finalized
  PROVE  Sound'
<1>1. /\ pc \in {"run", "finalize"} /\ pc' \in {"run", "finalize"}
      /\ UNCHANGED <<good, live, image>>
      /\ FlashTypeOK /\ Installed /\ Trusted /\ IsInjective(todo)
  BY DEF FirstHeartbeat, FinalizeFile, Finalized, FlashInvariant, Sound, disk
<1>2. IsInjective(todo)'
  <2>1. todo' \in {todo, Manifest} \/ (todo # <<>> /\ todo' = Tail(todo))
    BY DEF FirstHeartbeat, FinalizeFile, Finalized
  <2>. QED BY <1>1, <2>1, TailFacts DEF Distinct, FlashTypeOK
<1>3. /\ marker' # "torn"
      /\ marker' = "listed" /\ pc' # "finalize" =>
           marker = "listed" /\ pc # "finalize" /\ UNCHANGED bak
      /\ proven' /\ pc' # "finalize" => marker' = "none"
  BY <1>1, NoMishap
     DEF FirstHeartbeat, FinalizeFile, Finalized, Installed, Trusted, disk, FlashTypeOK
<1>4. Installed'
  <2>1. Healthy(live)' /\ (image = live)' /\ \E v \in Versions : Whole(live, v)'
    BY <1>1 DEF Installed, Healthy, Whole
  <2>2. (marker = "listed" /\ pc # "finalize" => Healthy(bak))'
    BY <1>1, <1>3 DEF Installed, Healthy
  <2>. QED BY <1>1, <1>3, <2>1, <2>2 DEF Installed
<1>. QED BY <1>1, <1>2, <1>3, <1>4 DEF Swapping, Restoring, Trusted, Sound

\* The frames of a push, and a reboot, write no firmware.
LEMMA FramePreserves ==
  ASSUME Distinct, FlashInvariant, mishaps = 0, mishaps' = 0, Begin \/ (\E v \in Bundles : Chunks(v)) \/ Reload
  PROVE  Sound'
<1>1. /\ pc = "run" /\ pc' \in {"run", "start"}
      /\ UNCHANGED <<good, live, bak, marker, todo, proven>>
      /\ pc' = "run" => UNCHANGED image
      /\ Installed /\ Trusted /\ IsInjective(todo)
  BY DEF Begin, Chunks, Reload, FlashInvariant, Sound, disk
<1>2. Installed'
  BY <1>1 DEF Installed, Whole, Healthy
<1>. QED BY <1>1, <1>2 DEF Swapping, Restoring, Trusted, Sound

-----------------------------------------------------------------------------
(* The theorems.                                                           *)

\* A board without a mishap is always whole, or in a loop that knows what is left to do.
THEOREM FlashInvariantHolds ==
  ASSUME Distinct
  PROVE  FlashSpec => []FlashInvariant
<1>1. FlashInit => FlashInvariant
  <2>. SUFFICES ASSUME FlashInit, FlashTypeOK PROVE Sound /\ transfer # "spent"
    <3>1. FlashInit => FlashTypeOK
      BY InitialTypes
    <3>. QED BY <3>1 DEF FlashInvariant
  <2>1. Installed
    BY ContentFacts DEF FlashInit, Installed, Whole, Healthy
  <2>2. IsInjective(todo)
    BY DEF FlashInit, IsInjective
  <2>. QED BY <2>1, <2>2 DEF FlashInit, Swapping, Restoring, Trusted, Sound
<1>2. FlashInvariant /\ FlashTypeOK' /\ [FlashNext]_flashVars => FlashInvariant'
  <2>. SUFFICES ASSUME FlashInvariant, FlashTypeOK', [FlashNext]_flashVars, mishaps' = 0
                PROVE  Sound' /\ transfer' # "spent"
    BY DEF FlashInvariant
  <2>1. mishaps = 0 /\ ~Mishap
    BY MishapFacts, NoMishap DEF FlashInvariant
  <2>5. transfer' # "spent"
    BY <2>1 DEF FlashInvariant, FlashNext, flashVars, Working, Boot, RecoverFile, RecoverFails,
       Reverted, Start, SwapFile, OpenMarker, CommitRaises, Committed, FinalizeFile, Finalized,
       Interrupt, WatchdogReset, Reset, Begin, Commit, FirstHeartbeat, Reload, Chunks
  <2>2. CASE UNCHANGED flashVars
    BY <2>1, <2>2, <2>5 DEF flashVars, FlashInvariant, Sound, Installed, Swapping, Restoring, Trusted,
                      Whole, Healthy
  <2>3. CASE Interrupt \/ WatchdogReset
    <3>1. PICK why : Reset(why)
      BY <2>3 DEF Interrupt, WatchdogReset
    <3>. QED BY <2>5, <2>1, <3>1, ResetPreserves
  <2>4. CASE RecoverFails \/ CommitRaises
    BY <2>1, <2>4 DEF RecoverFails, CommitRaises
  <2>. QED BY <2>5, <2>1, <2>2, <2>3, <2>4, BootPreserves, RecoverPreserves, StartPreserves,
              CommitPreserves, SwapPreserves, MarkerPreserves, FinalizePreserves, FramePreserves
       DEF FlashNext, Working
<1>. QED BY <1>1, <1>2, FlashTypeCorrect, PTL DEF FlashSpec

\* For any firmware and bundles, and wherever resets fall outside the loops over the
\* files: the board starts one bundle whole, and one that does not come to a heartbeat has
\* a good one kept, and marked, behind it (otaflash.py), unless there was a mishap.
THEOREM WholeUnlessMishapHolds ==
  ASSUME Distinct
  PROVE  FlashSpec => []WholeUnlessMishap
<1>1. FlashInvariant => WholeUnlessMishap
  BY DEF FlashInvariant, Sound, Installed, WholeUnlessMishap, Whole, Uniform
<1>. QED BY <1>1, FlashInvariantHolds, PTL

\* "A later unrelated reset can never revert a firmware that already works"
\* (otaflash.py): without a mishap, no recovery begins once the firmware has run to a
\* heartbeat.
THEOREM ProvenIsKeptHolds ==
  ASSUME Distinct
  PROVE  FlashSpec => ProvenIsKept
<1>1. FlashInvariant /\ [FlashNext]_flashVars
        => [proven /\ pc = "recover" /\ mishaps = 0 => live' = live]_flashVars
  BY DEF FlashInvariant, Sound, Trusted
<1>. QED BY <1>1, FlashInvariantHolds, PTL DEF FlashSpec, ProvenIsKept

=============================================================================
