--------------------------- MODULE SidecarProofs ---------------------------
(***************************************************************************)
(* For any chats and nodes, any number of sessions, texts and dropped      *)
(* connections: the two maps of the sessions agree, an open session's node *)
(* stays subscribed, a chat gets its texts in order, and a session that    *)
(* was reported closed is silent.                                          *)
(*                                                                         *)
(* The handler and the reaper change the maps before they wait for the     *)
(* stream lock, and the subscriptions when they have it.  What makes that  *)
(* safe is that the lock is taken in the order in which it was asked for:  *)
(* an unsubscription still to come, of a node that has a session again, is *)
(* ahead of that session's subscription (Locked).                          *)
(*                                                                         *)
(* And for any number of hubs, commands and crashes (the last part): a     *)
(* POST is repeated only where an attempt was given up on, no row is       *)
(* alerted twice, and a call gives up only when it has been round all hubs.*)
(***************************************************************************)
EXTENDS ShellSessions, SidecarHubs, FiniteSetTheorems, TLAPS

Opened == 1..Len(opened)
Places == {"idle", "sleep", "fetch", "sub", "type", "unsub", "last"}

\* k waits in the queue q; j waits ahead of k; nobody waits twice.
In(k, q) == \E p \in 1..Len(q) : q[p] = k
Ahead(j, k, q) == \E p, r \in 1..Len(q) : p < r /\ q[p] = j /\ q[r] = k
Once(q) == \A p, r \in 1..Len(q) : q[p] = q[r] => p = r

\* The types of all but the texts: of the sessions and the tasks,
Registered ==
  /\ opened \in Seq(Chats \X Nodes) /\ Len(opened) <= MaxSessions
  /\ byChat \in [Chats -> 0..Len(opened)] /\ byNode \in [Nodes -> 0..Len(opened)]
  /\ pump \in [Sessions -> {"sleep", "flush", "ended"}]
  /\ task \in [Tasks -> [at : Places, s : 0..Len(opened)]]
  /\ \A k \in Tasks : /\ (task[k].s = 0) <=> (task[k].at \in {"idle", "sleep", "fetch"})
                      /\ (task[k].at = "idle") => (k = "bot")
                      /\ (task[k].at = "sleep") => (k = "reaper")
  /\ lock \in Seq(Tasks \union {"relay"})

\* and of the rest.
Ranged ==
  /\ idle \subseteq Opened /\ left \subseteq Opened /\ armed \in BOOLEAN
  /\ relay \in {"down", "set", "announce", "attach", "loop", "unset"}
  /\ stream \in BOOLEAN /\ link \in BOOLEAN
  /\ subs \subseteq Nodes /\ attach \subseteq Nodes
  /\ drops \in 0..MaxDrops

\* The two maps tell the same.
Agreed ==
  /\ \A n \in Nodes : byNode[n] # 0 => /\ NodeOf(byNode[n]) = n
                                       /\ byChat[ChatOf(byNode[n])] = byNode[n]
  /\ \A c \in Chats : byChat[c] # 0 => /\ ChatOf(byChat[c]) = c
                                       /\ byNode[NodeOf(byChat[c])] = byChat[c]

Live(s) == byChat[ChatOf(s)] = s

\* A session that is over has a pump only until the task that closes it has the lock.
Ending ==
  /\ \A k \in Tasks : task[k].at \in {"unsub", "last"} => ~Live(task[k].s)
  /\ \A s \in Opened : pump[s] = "ended" => ~Live(s)
  /\ \A s \in Opened : ~Live(s) /\ pump[s] # "ended" =>
       \E k \in Tasks : task[k].at = "unsub" /\ task[k].s = s

\* Who waits for the lock; and an unsubscription of a node that has a session again comes
\* before that session's subscription.
Subscribing(n) == task["bot"].at = "sub" /\ task["bot"].s = byNode[n]
Locked ==
  /\ Once(lock)
  /\ \A k \in Tasks : In(k, lock) <=> task[k].at \in {"sub", "unsub"}
  /\ In("relay", lock) <=> relay \in {"set", "unset"}
  /\ \A k \in Tasks : task[k].at = "unsub" /\ byNode[NodeOf(task[k].s)] # 0 =>
       Subscribing(NodeOf(task[k].s)) /\ Ahead(k, "bot", lock)

\* The node of an open session is subscribed, or will be.
Streamed ==
  /\ relay \in {"announce", "attach", "loop", "unset"} => stream
  /\ relay = "loop" => attach = {}
  /\ relay \in {"attach", "loop"} /\ link =>
       \A n \in Held : n \in subs \union attach \/ Subscribing(n)

Control == Registered /\ Ranged /\ Agreed /\ Ending /\ Locked /\ Streamed

\* What is on the wire is in the order in which it was printed.
Ordered(w, p) ==
  /\ w \in Seq(Nodes \X (1..MaxOutput)) /\ p \in 0..MaxOutput
  /\ \A i, j \in DOMAIN w : i < j => w[i][2] < w[j][2]
  /\ \A i \in DOMAIN w : w[i][2] <= p

\* The texts of a session come in order: the last one received, what is being sent,
\* what is buffered, what is on the wire.
Rising(q) == \A i, j \in DOMAIN q : i < j /\ q[i] # Note /\ q[j] # Note => q[i] < q[j]
InLine(o, b, g, w, p) ==
  /\ o \in Seq(0..MaxOutput) /\ b \in Seq(1..MaxOutput) /\ g \in 0..MaxOutput
  /\ Rising(o) /\ Rising(b)
  /\ g <= p /\ \A i \in DOMAIN w : g < w[i][2]
  /\ \A l \in DOMAIN o : /\ o[l] # Note => g < o[l]
                         /\ o[l] <= p
                         /\ \A i \in DOMAIN w : o[l] < w[i][2]
                         /\ \A r \in DOMAIN b : o[l] < b[r]
  /\ \A r \in DOMAIN b : /\ g < b[r] /\ b[r] <= p
                         /\ \A i \in DOMAIN w : b[r] < w[i][2]

Flow ==
  /\ buf \in [Sessions -> Seq(1..MaxOutput)]
  /\ outbox \in [Sessions -> Seq(0..MaxOutput)] /\ got \in [Sessions -> 0..MaxOutput]
  /\ Ordered(wire, printed)
  /\ \A s \in Sessions : InLine(outbox[s], buf[s], got[s], wire, printed)

Invariant == Control /\ Flow

-----------------------------------------------------------------------------
(* Queues.                                                                 *)

\* A queue grows at its end,
LEMMA AppendIs ==
  ASSUME NEW S, NEW q \in Seq(S), NEW e \in S
  PROVE  /\ Append(q, e) \in Seq(S) /\ Len(q) \in Nat /\ DOMAIN q = 1..Len(q)
         /\ Len(Append(q, e)) = Len(q) + 1 /\ DOMAIN Append(q, e) = 1..(Len(q) + 1)
         /\ Append(q, e)[Len(q) + 1] = e /\ \A i \in 1..Len(q) : Append(q, e)[i] = q[i]
OBVIOUS

\* and shrinks at its front.
LEMMA TailIs ==
  ASSUME NEW S, NEW q \in Seq(S), q # <<>>
  PROVE  /\ Tail(q) \in Seq(S) /\ Len(q) \in Nat \ {0} /\ DOMAIN q = 1..Len(q)
         /\ Len(Tail(q)) = Len(q) - 1 /\ DOMAIN Tail(q) = 1..(Len(q) - 1)
         /\ Head(q) = q[1] /\ 1 \in DOMAIN q
         /\ \A i \in 1..(Len(q) - 1) : Tail(q)[i] = q[i + 1]
         /\ \A i \in 1..Len(q) : q[i] \in S
OBVIOUS

-----------------------------------------------------------------------------
(* The texts: each step of theirs, for the queues that it moves.           *)

\* A flush sends texts of the buffer, in its order, and perhaps a note.
LEMMA MessagesFacts ==
  ASSUME NEW b \in Seq(1..MaxOutput), Rising(b)
  PROVE  /\ Messages(b) \in Seq(0..MaxOutput) /\ Rising(Messages(b))
         /\ \A l \in DOMAIN Messages(b) :
              Messages(b)[l] = Note \/ \E r \in DOMAIN b : Messages(b)[l] = b[r]
<1>1. /\ Len(b) \in Nat /\ DOMAIN b = 1..Len(b) /\ Ceiling \in Nat \ {0} /\ MaxOutput \in Nat
      /\ \A i \in 1..Len(b) : b[i] \in 1..MaxOutput
  BY CeilingAssumption, SessionBoundsAssumption
<1>2. CASE Len(b) > Ceiling
  <2> DEFINE first == Len(b) - Ceiling + 1
             cut == SubSeq(b, first, Len(b))
             m == Messages(b)
  <2>1. first \in 1..Len(b)
    BY <1>1, <1>2
  <2>2. /\ cut \in Seq(1..MaxOutput) /\ Len(cut) = Ceiling /\ DOMAIN cut = 1..Ceiling
        /\ \A i \in 1..Ceiling : cut[i] = b[i + first - 1]
    BY <1>1, <2>1
  <2>3. \A i \in 1..Ceiling : i + first - 1 \in 1..Len(b)
    BY <1>1, <1>2
  <2>4. m = Append(cut, Note)
    BY <1>2 DEF Messages
  <2> HIDE DEF first, cut, m
  <2>5. cut \in Seq(0..MaxOutput) /\ Note \in 0..MaxOutput
    <3>1. cut \in [1..Ceiling -> 0..MaxOutput]
      BY <1>1, <2>2
    <3>. QED BY <1>1, <2>2, <3>1 DEF Note
  <2>6. /\ m \in Seq(0..MaxOutput) /\ DOMAIN m = 1..(Ceiling + 1) /\ m[Ceiling + 1] = Note
        /\ \A i \in 1..Ceiling : m[i] = cut[i]
    BY <1>1, <2>2, <2>4, <2>5
  <2>7. ASSUME NEW l \in DOMAIN m
        PROVE  m[l] = Note \/ (l \in 1..Ceiling /\ m[l] = b[l + first - 1])
    <3>1. l = Ceiling + 1 \/ l \in 1..Ceiling
      BY <1>1, <2>6
    <3>. QED BY <2>2, <2>6, <3>1
  <2>8. ASSUME NEW i \in DOMAIN m, NEW j \in DOMAIN m, i < j, m[i] # Note, m[j] # Note
        PROVE  m[i] < m[j]
    <3>1. /\ m[i] = b[i + first - 1] /\ m[j] = b[j + first - 1]
          /\ i + first - 1 \in DOMAIN b /\ j + first - 1 \in DOMAIN b
          /\ i + first - 1 < j + first - 1
      <4>1. /\ i \in 1..Ceiling /\ j \in 1..Ceiling
            /\ m[i] = b[i + first - 1] /\ m[j] = b[j + first - 1]
        BY <2>7, <2>8
      <4>2. i \in Nat /\ j \in Nat /\ first \in Nat
        BY <1>1, <2>1, <4>1
      <4>3. i + first - 1 < j + first - 1
        BY <2>8, <4>2
      <4>. QED BY <1>1, <2>3, <4>1, <4>3
    <3>. QED BY <2>8, <3>1 DEF Rising
  <2>. QED BY <1>1, <2>3, <2>6, <2>7, <2>8 DEF m, Rising
<1>3. CASE ~(Len(b) > Ceiling)
  <2>1. b \in Seq(0..MaxOutput)
    BY <1>1
  <2>. QED BY <1>3, <2>1 DEF Messages
<1>. QED BY <1>2, <1>3

\* A flush begins.
LEMMA FlushInLine ==
  ASSUME NEW o, NEW b, NEW g, NEW w, NEW p, InLine(o, b, g, w, p), Ordered(w, p)
  PROVE  InLine(Messages(b), <<>>, g, w, p)
<1>1. /\ Messages(b) \in Seq(0..MaxOutput) /\ Rising(Messages(b))
      /\ \A l \in DOMAIN Messages(b) :
           Messages(b)[l] = 0 \/ \E r \in DOMAIN b : Messages(b)[l] = b[r]
  BY MessagesFacts DEF InLine, Note
<1>2. \A i \in DOMAIN w : 0 < w[i][2]
  BY DEF Ordered
<1>3. <<>> \in Seq(1..MaxOutput) /\ DOMAIN <<>> = {} /\ Rising(<<>>)
  BY DEF Rising
<1>. QED BY <1>1, <1>2, <1>3 DEF InLine, Ordered, Note

\* One message of it is sent, and arrives or not.
LEMMA SendInLine ==
  ASSUME NEW o, NEW b, NEW g, NEW w, NEW p, InLine(o, b, g, w, p), o # <<>>
  PROVE  /\ InLine(Tail(o), b, g, w, p)
         /\ Head(o) # Note => InLine(Tail(o), b, Head(o), w, p)
<1>0. o \in Seq(0..MaxOutput)
  BY DEF InLine
<1>1. /\ Tail(o) \in Seq(0..MaxOutput) /\ Len(o) \in Nat \ {0} /\ DOMAIN o = 1..Len(o)
      /\ DOMAIN Tail(o) = 1..(Len(o) - 1) /\ Head(o) = o[1] /\ 1 \in DOMAIN o
      /\ \A l \in 1..(Len(o) - 1) : Tail(o)[l] = o[l + 1]
      /\ \A l \in 1..Len(o) : o[l] \in 0..MaxOutput
  BY <1>0, TailIs
<1>2. \A l \in DOMAIN Tail(o) : l + 1 \in DOMAIN o /\ 1 < l + 1
  BY <1>1
<1>3. Rising(Tail(o))
  BY <1>1, <1>2 DEF InLine, Rising
<1>4. InLine(Tail(o), b, g, w, p)
  BY <1>1, <1>2, <1>3 DEF InLine
<1>5. ASSUME Head(o) # Note PROVE InLine(Tail(o), b, Head(o), w, p)
  <2>1. \A l \in DOMAIN Tail(o) : Tail(o)[l] # Note => Head(o) < Tail(o)[l]
    BY <1>1, <1>2, <1>5 DEF InLine, Rising
  <2>. QED BY <1>1, <1>4, <2>1 DEF InLine
<1>. QED BY <1>4, <1>5

\* A text comes from the wire; another session may get it.
LEMMA FeedInLine ==
  ASSUME NEW o, NEW b, NEW g, NEW w, NEW p, InLine(o, b, g, w, p), Ordered(w, p), w # <<>>
  PROVE  /\ Ordered(Tail(w), p) /\ InLine(o, b, g, Tail(w), p)
         /\ InLine(o, Append(b, Head(w)[2]), g, Tail(w), p)
<1> DEFINE text == Head(w)[2]
           c == Append(b, text)
<1>1. /\ Tail(w) \in Seq(Nodes \X (1..MaxOutput)) /\ Len(w) \in Nat \ {0} /\ DOMAIN w = 1..Len(w)
      /\ DOMAIN Tail(w) = 1..(Len(w) - 1) /\ Head(w) = w[1] /\ 1 \in DOMAIN w
      /\ \A i \in 1..(Len(w) - 1) : Tail(w)[i] = w[i + 1]
      /\ \A i \in 1..Len(w) : w[i] \in Nodes \X (1..MaxOutput)
  BY DEF Ordered
<1>2. \A i \in DOMAIN Tail(w) : i + 1 \in DOMAIN w /\ 1 < i + 1 /\ Tail(w)[i] = w[i + 1]
  BY <1>1
<1>3. Ordered(Tail(w), p)
  <2>1. \A i, j \in DOMAIN Tail(w) : i < j => i + 1 < j + 1
    BY <1>1
  <2>2. \A i, j \in DOMAIN Tail(w) : i < j => Tail(w)[i][2] < Tail(w)[j][2]
    BY <1>2, <2>1 DEF Ordered
  <2>3. \A i \in DOMAIN Tail(w) : Tail(w)[i][2] <= p
    BY <1>2 DEF Ordered
  <2>. QED BY <1>1, <2>2, <2>3 DEF Ordered
<1>4. InLine(o, b, g, Tail(w), p)
  BY <1>2 DEF InLine
<1>5. /\ text \in 1..MaxOutput /\ text <= p
      /\ \A i \in DOMAIN Tail(w) : text < Tail(w)[i][2]
  BY <1>1, <1>2 DEF Ordered
<1>6. /\ g < text /\ \A l \in DOMAIN o : o[l] < text
      /\ \A r \in DOMAIN b : b[r] < text
  BY <1>1 DEF InLine
<1>7. b \in Seq(1..MaxOutput) /\ Len(b) \in Nat /\ DOMAIN b = 1..Len(b)
  BY DEF InLine
<1> HIDE DEF text
<1>8. /\ c \in Seq(1..MaxOutput) /\ DOMAIN c = 1..(Len(b) + 1)
      /\ c[Len(b) + 1] = text /\ \A r \in 1..Len(b) : c[r] = b[r]
  BY <1>5, <1>7
<1>9. \A r \in DOMAIN c : (r \in DOMAIN b /\ c[r] = b[r]) \/ (r = Len(b) + 1 /\ c[r] = text)
  BY <1>7, <1>8
<1> HIDE DEF c
<1>10. Rising(c)
  <2>. SUFFICES ASSUME NEW i \in DOMAIN c, NEW j \in DOMAIN c, i < j, c[i] # Note, c[j] # Note
                PROVE  c[i] < c[j]
    BY DEF Rising
  <2>1. i \in DOMAIN b /\ c[i] = b[i]
    BY <1>7, <1>8, <1>9
  <2>2. CASE j = Len(b) + 1
    BY <1>6, <1>8, <2>1, <2>2
  <2>3. CASE j \in DOMAIN b /\ c[j] = b[j]
    BY <2>1, <2>3 DEF InLine, Rising
  <2>. QED BY <1>9, <2>2, <2>3
<1>11. InLine(o, c, g, Tail(w), p)
  BY <1>4, <1>5, <1>6, <1>8, <1>9, <1>10 DEF InLine
<1>. QED BY <1>3, <1>4, <1>11 DEF c, text

\* A target prints.
LEMMA PrintInLine ==
  ASSUME NEW o, NEW b, NEW g, NEW w, NEW p, InLine(o, b, g, w, p), Ordered(w, p),
         NEW n \in Nodes, p < MaxOutput
  PROVE  /\ Ordered(Append(w, <<n, p + 1>>), p + 1)
         /\ InLine(o, b, g, Append(w, <<n, p + 1>>), p + 1)
<1> DEFINE v == Append(w, <<n, p + 1>>)
<1>1. /\ w \in Seq(Nodes \X (1..MaxOutput)) /\ Len(w) \in Nat /\ DOMAIN w = 1..Len(w)
      /\ p + 1 \in 1..MaxOutput /\ p \in Nat /\ p + 1 \in 0..MaxOutput
  BY SessionBoundsAssumption DEF Ordered
<1>2. <<n, p + 1>> \in Nodes \X (1..MaxOutput) /\ <<n, p + 1>>[2] = p + 1
  BY <1>1
<1>3. /\ v \in Seq(Nodes \X (1..MaxOutput)) /\ DOMAIN v = 1..(Len(w) + 1)
      /\ v[Len(w) + 1] = <<n, p + 1>> /\ \A i \in 1..Len(w) : v[i] = w[i]
  BY <1>1, <1>2, AppendIs
<1> HIDE DEF v
<1>4. ASSUME NEW i \in DOMAIN v
      PROVE  (i \in DOMAIN w /\ v[i][2] = w[i][2]) \/ (i = Len(w) + 1 /\ v[i][2] = p + 1)
  <2>1. i \in 1..Len(w) \/ i = Len(w) + 1
    BY <1>1, <1>3
  <2>2. i \in 1..Len(w) => v[i] = w[i]
    BY <1>3
  <2>3. i = Len(w) + 1 => v[i] = <<n, p + 1>>
    BY <1>3
  <2>. QED BY <1>1, <1>2, <2>1, <2>2, <2>3
<1>5. \A i \in DOMAIN w : w[i][2] \in 1..MaxOutput /\ w[i][2] <= p
  BY <1>1 DEF Ordered
<1>6. \A i \in DOMAIN v : v[i][2] <= p + 1
  BY <1>1, <1>4, <1>5
<1>7. ASSUME NEW i \in DOMAIN v, NEW j \in DOMAIN v, i < j PROVE v[i][2] < v[j][2]
  <2>1. i \in DOMAIN w /\ v[i][2] = w[i][2]
    BY <1>1, <1>3, <1>4, <1>7
  <2>2. CASE j \in DOMAIN w /\ v[j][2] = w[j][2]
    BY <1>7, <2>1, <2>2 DEF Ordered
  <2>3. CASE v[j][2] = p + 1
    BY <1>1, <1>5, <2>1, <2>3
  <2>. QED BY <1>4, <2>2, <2>3
<1>8. Ordered(v, p + 1)
  BY <1>1, <1>3, <1>6, <1>7 DEF Ordered
<1>9. /\ \A l \in DOMAIN o : o[l] \in Nat /\ o[l] <= p
      /\ \A r \in DOMAIN b : b[r] \in Nat /\ b[r] <= p
      /\ g \in Nat /\ g <= p
  <2>1. /\ o \in Seq(0..MaxOutput) /\ b \in Seq(1..MaxOutput) /\ g \in 0..MaxOutput
        /\ MaxOutput \in Nat
    BY SessionBoundsAssumption DEF InLine
  <2>2. /\ \A l \in DOMAIN o : o[l] \in 0..MaxOutput
        /\ \A r \in DOMAIN b : b[r] \in 1..MaxOutput
    BY <2>1
  <2>. QED BY <2>1, <2>2 DEF InLine
<1>10. InLine(o, b, g, v, p + 1)
  <2>1. \A x \in Nat : x <= p => x <= p + 1 /\ x < p + 1
    BY <1>1
  <2>2. /\ g <= p + 1 /\ \A i \in DOMAIN v : g < v[i][2]
    BY <1>4, <1>9, <2>1 DEF InLine
  <2>3. \A l \in DOMAIN o : o[l] <= p + 1 /\ \A i \in DOMAIN v : o[l] < v[i][2]
    BY <1>4, <1>9, <2>1 DEF InLine
  <2>4. \A r \in DOMAIN b : b[r] <= p + 1 /\ \A i \in DOMAIN v : b[r] < v[i][2]
    BY <1>4, <1>9, <2>1 DEF InLine
  <2>. QED BY <2>2, <2>3, <2>4 DEF InLine
<1>. QED BY <1>8, <1>10 DEF v

\* What is on the wire may be lost.
LEMMA LostInLine ==
  ASSUME NEW o, NEW b, NEW g, NEW w, NEW p, InLine(o, b, g, w, p), Ordered(w, p)
  PROVE  Ordered(<<>>, p) /\ InLine(o, b, g, <<>>, p)
<1>1. <<>> \in Seq(Nodes \X (1..MaxOutput)) /\ DOMAIN <<>> = {}
  OBVIOUS
<1>. QED BY <1>1 DEF Ordered, InLine

-----------------------------------------------------------------------------
(* The texts, in the sessions.                                             *)

\* A flush of session s begins.
LEMMA FlushFlows ==
  ASSUME Flow, NEW s \in Sessions, StartFlush(s), UNCHANGED <<got, wire, printed>>
  PROVE  Flow'
<1>1. /\ outbox' = [outbox EXCEPT ![s] = Messages(buf[s])] /\ buf' = [buf EXCEPT ![s] = <<>>]
      /\ Ordered(wire, printed)
      /\ \A t \in Sessions : InLine(outbox[t], buf[t], got[t], wire, printed)
  BY DEF StartFlush, Flow
<1>2. InLine(Messages(buf[s]), <<>>, got[s], wire, printed)
  BY <1>1, FlushInLine
<1>3. Messages(buf[s]) \in Seq(0..MaxOutput) /\ <<>> \in Seq(1..MaxOutput)
  BY <1>2 DEF InLine
<1>4. /\ buf' \in [Sessions -> Seq(1..MaxOutput)] /\ outbox' \in [Sessions -> Seq(0..MaxOutput)]
      /\ buf'[s] = <<>> /\ outbox'[s] = Messages(buf[s])
      /\ \A t \in Sessions : t # s => buf'[t] = buf[t] /\ outbox'[t] = outbox[t]
  BY <1>1, <1>3 DEF Flow
<1>5. ASSUME NEW t \in Sessions PROVE InLine(outbox'[t], buf'[t], got[t], wire, printed)
  BY <1>1, <1>2, <1>4
<1>. QED BY <1>1, <1>4, <1>5 DEF Flow

\* One message of session s is sent.
LEMMA SendFlows ==
  ASSUME Flow, NEW s \in Sessions, outbox[s] # <<>>, SendOne(s), UNCHANGED <<buf, wire, printed>>
  PROVE  Flow'
<1>1. /\ outbox' = [outbox EXCEPT ![s] = Tail(outbox[s])]
      /\ \/ UNCHANGED got
         \/ Head(outbox[s]) # Note /\ got' = [got EXCEPT ![s] = Head(outbox[s])]
      /\ Ordered(wire, printed)
      /\ \A t \in Sessions : InLine(outbox[t], buf[t], got[t], wire, printed)
  BY DEF SendOne, Received, Flow
<1>2. /\ InLine(Tail(outbox[s]), buf[s], got[s], wire, printed)
      /\ Head(outbox[s]) # Note =>
           InLine(Tail(outbox[s]), buf[s], Head(outbox[s]), wire, printed)
  BY <1>1, SendInLine
<1>3. InLine(Tail(outbox[s]), buf[s], got'[s], wire, printed)
  BY <1>1, <1>2 DEF Flow
<1>4. Tail(outbox[s]) \in Seq(0..MaxOutput) /\ got'[s] \in 0..MaxOutput
  BY <1>3 DEF InLine
<1>5. /\ outbox' \in [Sessions -> Seq(0..MaxOutput)] /\ outbox'[s] = Tail(outbox[s])
      /\ got' \in [Sessions -> 0..MaxOutput]
      /\ \A t \in Sessions : t # s => got'[t] = got[t] /\ outbox'[t] = outbox[t]
  BY <1>1, <1>4 DEF Flow
<1>6. ASSUME NEW t \in Sessions PROVE InLine(outbox'[t], buf[t], got'[t], wire, printed)
  BY <1>1, <1>3, <1>5
<1>. QED BY <1>1, <1>5, <1>6 DEF Flow

\* A text comes from the wire, to the session that has its node now.
LEMMA FeedFlows ==
  ASSUME Flow, Registered, Feed
  PROVE  Flow'
<1>1. /\ wire # <<>> /\ wire' = Tail(wire) /\ UNCHANGED <<outbox, got, printed>>
      /\ Ordered(wire, printed)
      /\ \A t \in Sessions : InLine(outbox[t], buf[t], got[t], wire, printed)
  BY DEF Feed, Flow, maps
<1>2. Ordered(wire', printed)
  <2>. SUFFICES Ordered(Tail(wire), printed)
    BY <1>1
  <2>1. wire \in Seq(Nodes \X (1..MaxOutput))
    BY <1>1 DEF Ordered
  <2>2. /\ Tail(wire) \in Seq(Nodes \X (1..MaxOutput)) /\ DOMAIN wire = 1..Len(wire)
        /\ DOMAIN Tail(wire) = 1..(Len(wire) - 1) /\ Len(wire) \in Nat \ {0}
        /\ \A i \in 1..(Len(wire) - 1) : Tail(wire)[i] = wire[i + 1]
    BY <1>1, <2>1, TailIs
  <2>3. \A i \in DOMAIN Tail(wire) : i + 1 \in DOMAIN wire /\ Tail(wire)[i] = wire[i + 1]
    BY <2>2
  <2>4. \A i, j \in DOMAIN Tail(wire) : i < j => i + 1 < j + 1
    BY <2>2
  <2>5. \A i, j \in DOMAIN Tail(wire) : i < j => Tail(wire)[i][2] < Tail(wire)[j][2]
    BY <1>1, <2>3, <2>4 DEF Ordered
  <2>6. \A i \in DOMAIN Tail(wire) : Tail(wire)[i][2] <= printed
    BY <1>1, <2>3 DEF Ordered
  <2>. QED BY <1>1, <2>2, <2>5, <2>6 DEF Ordered
<1>3. \A t \in Sessions :
        /\ InLine(outbox[t], buf[t], got[t], wire', printed)
        /\ InLine(outbox[t], Append(buf[t], Head(wire)[2]), got[t], wire', printed)
  BY <1>1, FeedInLine
<1>4. Head(wire)[1] \in Nodes
  <2>1. wire \in Seq(Nodes \X (1..MaxOutput))
    BY <1>1 DEF Ordered
  <2>2. Head(wire) \in Nodes \X (1..MaxOutput)
    BY <1>1, <2>1
  <2>. QED BY <2>2
<1>5. CASE byNode[Head(wire)[1]] = 0
  <2>1. UNCHANGED buf
    BY <1>5 DEF Feed
  <2>. QED BY <1>1, <1>2, <1>3, <2>1 DEF Flow
<1>6. CASE byNode[Head(wire)[1]] # 0
  <2> DEFINE s == byNode[Head(wire)[1]]
  <2>1. s \in Sessions
    BY <1>4, <1>6, SessionBoundsAssumption DEF Registered, Sessions
  <2>2. buf' = [buf EXCEPT ![s] = Append(buf[s], Head(wire)[2])]
    BY <1>6 DEF Feed
  <2> HIDE DEF s
  <2>3. Append(buf[s], Head(wire)[2]) \in Seq(1..MaxOutput)
    BY <1>3, <2>1 DEF InLine
  <2>4. /\ buf' \in [Sessions -> Seq(1..MaxOutput)]
        /\ buf'[s] = Append(buf[s], Head(wire)[2])
        /\ \A t \in Sessions : t # s => buf'[t] = buf[t]
    BY <2>1, <2>2, <2>3 DEF Flow
  <2>5. ASSUME NEW t \in Sessions PROVE InLine(outbox[t], buf'[t], got[t], wire', printed)
    BY <1>3, <2>4
  <2>. QED BY <1>1, <1>2, <2>4, <2>5 DEF Flow
<1>. QED BY <1>5, <1>6

\* A target prints, or what is on the wire is lost.
LEMMA WireFlows ==
  ASSUME Flow, UNCHANGED <<buf, outbox, got>>,
         \/ \E n \in Nodes : Prints(n)
         \/ UNCHANGED printed /\ (wire' = <<>> \/ UNCHANGED wire)
  PROVE  Flow'
<1>1. /\ Ordered(wire, printed)
      /\ \A t \in Sessions : InLine(outbox[t], buf[t], got[t], wire, printed)
  BY DEF Flow
<1>2. ASSUME NEW n \in Nodes, Prints(n) PROVE Flow'
  <2>1. /\ printed < MaxOutput /\ printed' = printed + 1
        /\ wire' = Append(wire, <<n, printed + 1>>)
    BY <1>2 DEF Prints
  <2>2. \A t \in Sessions : InLine(outbox[t], buf[t], got[t], wire', printed')
    BY <1>1, <2>1, PrintInLine
  <2>3. Ordered(wire', printed')
    <3>1. InLine(<<>>, <<>>, 0, wire, printed)
      <4>1. <<>> \in Seq(0..MaxOutput) /\ <<>> \in Seq(1..MaxOutput) /\ DOMAIN <<>> = {}
        OBVIOUS
      <4>2. 0 <= printed /\ (\A i \in DOMAIN wire : 0 < wire[i][2]) /\ 0 \in 0..MaxOutput
        <5>1. \A i \in DOMAIN wire : wire[i] \in Nodes \X (1..MaxOutput)
          BY <1>1 DEF Ordered
        <5>. QED BY <1>1, <5>1, SessionBoundsAssumption DEF Ordered
      <4>. QED BY <4>1, <4>2 DEF InLine, Rising
    <3>. QED BY <1>1, <2>1, <3>1, PrintInLine
  <2>. QED BY <2>2, <2>3 DEF Flow
<1>3. CASE UNCHANGED printed /\ wire' = <<>>
  <2>1. Ordered(<<>>, printed)
    BY <1>1 DEF Ordered
  <2>2. \A t \in Sessions : InLine(outbox[t], buf[t], got[t], <<>>, printed)
    BY <1>1, LostInLine
  <2>. QED BY <1>3, <2>1, <2>2 DEF Flow
<1>4. CASE UNCHANGED printed /\ UNCHANGED wire
  BY <1>4 DEF Flow
<1>. QED BY <1>2, <1>3, <1>4

-----------------------------------------------------------------------------
(* The sessions, the tasks, and the lock they wait for.                    *)

\* A session is of a chat and a node.
LEMMA OpenedFacts ==
  ASSUME Registered
  PROVE  /\ Len(opened) \in Nat /\ Opened \subseteq Sessions /\ Opened \subseteq Nat \ {0}
         /\ \A s \in Opened : /\ ChatOf(s) \in Chats /\ NodeOf(s) \in Nodes
                              /\ opened[s] = <<ChatOf(s), NodeOf(s)>>
         /\ \A k \in Tasks : task[k].s # 0 => task[k].s \in Opened
<1>1. /\ opened \in Seq(Chats \X Nodes) /\ Len(opened) \in Nat /\ Len(opened) <= MaxSessions
      /\ MaxSessions \in Nat
  BY SessionBoundsAssumption DEF Registered
<1>2. \A s \in Opened : opened[s] \in Chats \X Nodes
  BY <1>1 DEF Opened
<1>3. ASSUME NEW k \in Tasks, task[k].s # 0 PROVE task[k].s \in Opened
  <2>1. task[k].s \in 0..Len(opened)
    BY DEF Registered
  <2>. QED BY <1>1, <1>3, <2>1 DEF Opened
<1>. QED BY <1>1, <1>2, <1>3 DEF Opened, Sessions, ChatOf, NodeOf

\* Who asks for the lock waits behind the others.
LEMMA JoinFacts ==
  ASSUME NEW k \in Tasks \union {"relay"}, NEW q \in Seq(Tasks \union {"relay"}), Once(q), ~In(k, q)
  PROVE  /\ Append(q, k) \in Seq(Tasks \union {"relay"}) /\ Once(Append(q, k))
         /\ \A j : In(j, Append(q, k)) <=> In(j, q) \/ j = k
         /\ \A i, j : Ahead(i, j, q) => Ahead(i, j, Append(q, k))
         /\ \A j : In(j, q) => Ahead(j, k, Append(q, k))
<1>1. /\ Append(q, k) \in Seq(Tasks \union {"relay"}) /\ Len(Append(q, k)) = Len(q) + 1
      /\ Len(q) \in Nat /\ Append(q, k)[Len(q) + 1] = k
      /\ \A p \in 1..Len(q) : Append(q, k)[p] = q[p]
  BY AppendIs
<1>2. Once(Append(q, k))
  BY <1>1 DEF Once, In
<1>3. ASSUME NEW j PROVE In(j, Append(q, k)) <=> In(j, q) \/ j = k
  BY <1>1 DEF In
<1>4. ASSUME NEW i, NEW j, Ahead(i, j, q) PROVE Ahead(i, j, Append(q, k))
  BY <1>1, <1>4 DEF Ahead
<1>5. ASSUME NEW j, In(j, q) PROVE Ahead(j, k, Append(q, k))
  BY <1>1, <1>5 DEF Ahead, In
<1>. QED BY <1>1, <1>2, <1>3, <1>4, <1>5

\* Who has had it leaves from the front, and was behind nobody.
LEMMA LeaveFacts ==
  ASSUME NEW q \in Seq(Tasks \union {"relay"}), Once(q), q # <<>>
  PROVE  /\ Tail(q) \in Seq(Tasks \union {"relay"}) /\ Once(Tail(q)) /\ In(Head(q), q)
         /\ \A j : In(j, Tail(q)) <=> In(j, q) /\ j # Head(q)
         /\ \A i, j : Ahead(i, j, q) /\ i # Head(q) => Ahead(i, j, Tail(q))
         /\ \A i : ~Ahead(i, Head(q), q)
<1>1. /\ Tail(q) \in Seq(Tasks \union {"relay"}) /\ Len(q) \in Nat \ {0}
      /\ Len(Tail(q)) = Len(q) - 1 /\ Head(q) = q[1]
      /\ \A p \in 1..(Len(q) - 1) : Tail(q)[p] = q[p + 1]
  BY TailIs
<1>2. Once(Tail(q)) /\ In(Head(q), q)
  BY <1>1 DEF Once, In
<1>3. ASSUME NEW j PROVE In(j, Tail(q)) <=> In(j, q) /\ j # Head(q)
  <2>1. ASSUME In(j, Tail(q)) PROVE In(j, q) /\ j # Head(q)
    BY <1>1, <2>1 DEF In, Once
  <2>2. ASSUME In(j, q), j # Head(q) PROVE In(j, Tail(q))
    <3>1. PICK p \in 1..Len(q) : q[p] = j
      BY <2>2 DEF In
    <3>2. p - 1 \in 1..Len(Tail(q)) /\ Tail(q)[p - 1] = q[p]
      BY <1>1, <2>2, <3>1
    <3>. QED BY <3>1, <3>2 DEF In
  <2>. QED BY <2>1, <2>2
<1>4. ASSUME NEW i, NEW j, Ahead(i, j, q), i # Head(q) PROVE Ahead(i, j, Tail(q))
  <2>1. PICK p, r \in 1..Len(q) : p < r /\ q[p] = i /\ q[r] = j
    BY <1>4 DEF Ahead
  <2>2. /\ p - 1 \in 1..Len(Tail(q)) /\ Tail(q)[p - 1] = q[p]
        /\ r - 1 \in 1..Len(Tail(q)) /\ Tail(q)[r - 1] = q[r] /\ p - 1 < r - 1
    BY <1>1, <1>4, <2>1
  <2>. QED BY <2>1, <2>2 DEF Ahead
<1>5. ASSUME NEW i PROVE ~Ahead(i, Head(q), q)
  BY <1>1 DEF Ahead, Once
<1>. QED BY <1>1, <1>2, <1>3, <1>4, <1>5

\* What a step leaves alone, and all that follows from it for the sessions.
LEMMA SessionsKept ==
  ASSUME Control, UNCHANGED <<opened, byChat, byNode, pump, task>>,
         lock' \in Seq(Tasks \union {"relay"})
  PROVE  /\ Registered' /\ Agreed' /\ Ending' /\ Held' = Held
         /\ \A n \in Nodes : Subscribing(n)' <=> Subscribing(n)
<1>1. Registered'
  BY DEF Control, Registered
<1>2. Agreed' /\ Held' = Held
  BY DEF Control, Agreed, ChatOf, NodeOf, Held
<1>3. \A t : Live(t)' <=> Live(t)
  BY DEF Live, ChatOf
<1>4. Ending'
  BY <1>3 DEF Control, Ending, Opened
<1>. QED BY <1>1, <1>2, <1>4 DEF Subscribing

\* What a task does that touches neither the sessions nor the lock.
LEMMA TaskMoves ==
  ASSUME Control, NEW k \in Tasks, task[k].at \notin {"sub", "unsub"},
         NEW a \in Places \ {"sub", "unsub", "last"}, NEW s \in 0..Len(opened),
         task' = [task EXCEPT ![k] = Doing(a, s)],
         (s = 0) <=> (a \in {"idle", "sleep", "fetch"}),
         (a = "idle") => (k = "bot"), (a = "sleep") => (k = "reaper"),
         UNCHANGED <<opened, byChat, byNode, pump, lock, relay, stream, link, subs, attach>>
  PROVE  Registered' /\ Agreed' /\ Ending' /\ Locked' /\ Streamed'
<1>1. /\ task' \in [Tasks -> [at : Places, s : 0..Len(opened)]]
      /\ task'[k].at = a /\ task'[k].s = s /\ \A j \in Tasks : j # k => task'[j] = task[j]
  BY DEF Control, Registered, Doing
<1>2. Registered'
  BY <1>1 DEF Control, Registered
<1>3. ASSUME NEW j \in Tasks
      PROVE  /\ task'[j].at \in {"sub", "unsub", "last"} => task'[j] = task[j]
             /\ task[j].at \in {"sub", "unsub"} => task'[j] = task[j]
  BY <1>1
<1>4. ASSUME NEW n \in Nodes PROVE Subscribing(n)' <=> Subscribing(n)
  <2>1. "bot" \in Tasks
    BY DEF Tasks
  <2>. QED BY <1>3, <2>1 DEF Subscribing
<1>5. Agreed'
  BY DEF Control, Agreed, ChatOf, NodeOf
<1>6. Ending'
  <2>1. \A t : Live(t) <=> byChat'[opened'[t][1]] = t
    BY DEF Live, ChatOf
  <2>2. \A j \in Tasks : task'[j].at \in {"unsub", "last"} => ~Live(task'[j].s)
    BY <1>3 DEF Control, Ending
  <2>3. ASSUME NEW t \in Opened, ~Live(t), pump[t] # "ended"
        PROVE  \E j \in Tasks : task'[j].at = "unsub" /\ task'[j].s = t
    <3>1. PICK j \in Tasks : task[j].at = "unsub" /\ task[j].s = t
      BY <2>3 DEF Control, Ending
    <3>. QED BY <1>3, <3>1
  <2>4. \A t \in Opened : pump[t] = "ended" => ~Live(t)
    BY DEF Control, Ending
  <2>. QED BY <2>1, <2>2, <2>3, <2>4 DEF Ending, Opened, Live, ChatOf
<1>7. Locked'
  <2>1. \A j \in Tasks : In(j, lock) <=> task'[j].at \in {"sub", "unsub"}
    BY <1>3 DEF Control, Locked
  <2>2. ASSUME NEW j \in Tasks, task'[j].at = "unsub", byNode[NodeOf(task'[j].s)] # 0
        PROVE  /\ task'["bot"].at = "sub" /\ task'["bot"].s = byNode[NodeOf(task'[j].s)]
               /\ Ahead(j, "bot", lock)
    <3>1. task'[j] = task[j] /\ NodeOf(task[j].s) \in Nodes
      <4>1. task'[j] = task[j]
        BY <1>3, <2>2
      <4>2. task[j].s # 0
        BY <2>2, <4>1 DEF Control, Registered
      <4>. QED BY <4>1, <4>2, OpenedFacts DEF Control
    <3>2. Subscribing(NodeOf(task[j].s)) /\ Ahead(j, "bot", lock)
      BY <2>2, <3>1 DEF Control, Locked
    <3>. QED BY <1>3, <3>1, <3>2 DEF Subscribing, NodeOf, Tasks
  <2>. QED BY <2>1, <2>2 DEF Control, Locked, NodeOf, Subscribing
<1>8. Streamed'
  BY <1>4 DEF Control, Streamed, Held
<1>. QED BY <1>2, <1>5, <1>6, <1>7, <1>8

\* A session is opened: the node and the chat had none.
LEMMA OpenKeeps ==
  ASSUME Control, NEW c \in Chats, NEW n \in Nodes, task["bot"].at = "fetch",
         Free(c, n), Len(opened) < MaxSessions, Open(c, n),
         UNCHANGED <<relay, stream, link, subs, attach>>
  PROVE  Registered' /\ Agreed' /\ Ending' /\ Locked' /\ Streamed'
<1> DEFINE s == Len(opened) + 1
<1>1. /\ opened' = Append(opened, <<c, n>>) /\ opened \in Seq(Chats \X Nodes)
      /\ byChat' = [byChat EXCEPT ![c] = s] /\ byNode' = [byNode EXCEPT ![n] = s]
      /\ pump' = [pump EXCEPT ![s] = "sleep"] /\ task' = [task EXCEPT !["bot"] = Doing("sub", s)]
      /\ lock' = Append(lock, "bot") /\ byChat[c] = 0 /\ byNode[n] = 0
  BY DEF Open, Free, Control, Registered
<1>2. /\ Len(opened) \in Nat /\ Opened \subseteq Sessions /\ "bot" \in Tasks
      /\ \A t \in Opened : t \in Nat \ {0} /\ t # s /\ ChatOf(t) \in Chats /\ NodeOf(t) \in Nodes
      /\ \A k \in Tasks : task[k].s # 0 => task[k].s \in Opened
  BY OpenedFacts DEF Control, Opened, Tasks
<1>3. /\ opened' \in Seq(Chats \X Nodes) /\ Len(opened') = s /\ opened'[s] = <<c, n>>
      /\ \A t \in Opened : opened'[t] = opened[t]
  <2>1. <<c, n>> \in Chats \X Nodes
    OBVIOUS
  <2>. QED BY <1>1, <2>1, AppendIs DEF Opened
<1>4. /\ s \in Sessions /\ s \in Nat \ {0} /\ s <= MaxSessions
      /\ \A t \in Opened' : t = s \/ t \in Opened
      /\ \A x \in 0..Len(opened) : x \in 0..s /\ (x = 0 \/ x \in Opened)
  BY <1>2, <1>3, SessionBoundsAssumption DEF Sessions, Opened
<1> HIDE DEF s
<1>5. /\ byChat' \in [Chats -> 0..s] /\ byChat'[c] = s /\ \A d \in Chats : d # c => byChat'[d] = byChat[d]
      /\ byNode' \in [Nodes -> 0..s] /\ byNode'[n] = s /\ \A m \in Nodes : m # n => byNode'[m] = byNode[m]
  BY <1>1, <1>4 DEF Control, Registered
<1>6. /\ pump' \in [Sessions -> {"sleep", "flush", "ended"}] /\ pump'[s] = "sleep"
      /\ \A t \in Sessions : t # s => pump'[t] = pump[t]
  BY <1>1, <1>4 DEF Control, Registered
<1>7. /\ task' \in [Tasks -> [at : Places, s : 0..s]] /\ task'["bot"].at = "sub" /\ task'["bot"].s = s
      /\ \A j \in Tasks : j # "bot" => task'[j] = task[j]
  <2>1. Doing("sub", s) \in [at : Places, s : 0..s]
    BY <1>4 DEF Doing, Places
  <2>2. task \in [Tasks -> [at : Places, s : 0..s]]
    <3>1. \A j \in Tasks : task[j] \in [at : Places, s : 0..Len(opened)]
      BY DEF Control, Registered
    <3>2. task = [j \in Tasks |-> task[j]]
      BY DEF Control, Registered
    <3>. QED BY <1>4, <3>1, <3>2
  <2>. QED BY <1>1, <1>2, <2>1, <2>2 DEF Doing
<1>8. /\ lock' \in Seq(Tasks \union {"relay"}) /\ Once(lock')
      /\ \A j : In(j, lock') <=> In(j, lock) \/ j = "bot"
      /\ \A j : In(j, lock) => Ahead(j, "bot", lock')
  <2>1. ~In("bot", lock) /\ lock \in Seq(Tasks \union {"relay"}) /\ Once(lock)
    BY <1>2 DEF Control, Registered, Locked
  <2>. QED BY <1>1, <1>2, <2>1, JoinFacts
<1>9. Registered'
  BY <1>3, <1>4, <1>5, <1>6, <1>7, <1>8 DEF Control, Registered
<1>10. Agreed'
  <2>1. ASSUME NEW m \in Nodes, byNode'[m] # 0
        PROVE  opened'[byNode'[m]][2] = m /\ byChat'[opened'[byNode'[m]][1]] = byNode'[m]
    <3>1. CASE m = n
      BY <1>3, <1>5, <3>1
    <3>2. CASE m # n
      <4>1. byNode'[m] = byNode[m] /\ byNode[m] \in Opened
        BY <1>4, <1>5, <2>1, <3>2 DEF Control, Registered
      <4>2. NodeOf(byNode[m]) = m /\ byChat[ChatOf(byNode[m])] = byNode[m]
        BY <2>1, <4>1 DEF Control, Agreed
      <4>3. ChatOf(byNode[m]) \in Chats \ {c}
        BY <1>1, <1>2, <4>1, <4>2
      <4>. QED BY <1>3, <1>5, <4>1, <4>2, <4>3 DEF ChatOf, NodeOf
    <3>. QED BY <3>1, <3>2
  <2>2. ASSUME NEW d \in Chats, byChat'[d] # 0
        PROVE  opened'[byChat'[d]][1] = d /\ byNode'[opened'[byChat'[d]][2]] = byChat'[d]
    <3>1. CASE d = c
      BY <1>3, <1>5, <3>1
    <3>2. CASE d # c
      <4>1. byChat'[d] = byChat[d] /\ byChat[d] \in Opened
        BY <1>4, <1>5, <2>2, <3>2 DEF Control, Registered
      <4>2. ChatOf(byChat[d]) = d /\ byNode[NodeOf(byChat[d])] = byChat[d]
        BY <2>2, <4>1 DEF Control, Agreed
      <4>3. NodeOf(byChat[d]) \in Nodes \ {n}
        BY <1>1, <1>2, <4>1, <4>2
      <4>. QED BY <1>3, <1>5, <4>1, <4>2, <4>3 DEF ChatOf, NodeOf
    <3>. QED BY <3>1, <3>2
  <2>. QED BY <2>1, <2>2 DEF Agreed, ChatOf, NodeOf
<1>11. Ending'
  <2>1. ASSUME NEW t \in Opened PROVE Live(t) <=> byChat'[opened'[t][1]] = t
    <3>1. opened'[t][1] = ChatOf(t) /\ ChatOf(t) \in Chats /\ t # 0 /\ t # s
      BY <1>2, <1>3 DEF ChatOf
    <3>. QED BY <1>1, <1>5, <3>1 DEF Live
  <2>2. byChat'[opened'[s][1]] = s
    BY <1>3, <1>5
  <2>3. ASSUME NEW j \in Tasks, task'[j].at \in {"unsub", "last"}
        PROVE  ~(byChat'[opened'[task'[j].s][1]] = task'[j].s)
    <3>1. task'[j] = task[j] /\ task[j].s \in Opened
      BY <1>2, <1>7, <2>3 DEF Control, Registered
    <3>. QED BY <2>1, <2>3, <3>1 DEF Control, Ending
  <2>4. ASSUME NEW t \in Opened', pump'[t] = "ended"
        PROVE  ~(byChat'[opened'[t][1]] = t)
    BY <1>2, <1>4, <1>6, <2>1, <2>4 DEF Control, Ending
  <2>5. ASSUME NEW t \in Opened', ~(byChat'[opened'[t][1]] = t), pump'[t] # "ended"
        PROVE  \E j \in Tasks : task'[j].at = "unsub" /\ task'[j].s = t
    <3>1. t \in Opened /\ ~Live(t) /\ pump[t] # "ended"
      BY <1>2, <1>4, <1>6, <2>1, <2>2, <2>5
    <3>2. PICK j \in Tasks : task[j].at = "unsub" /\ task[j].s = t
      BY <3>1 DEF Control, Ending
    <3>. QED BY <1>7, <3>2
  <2>. QED BY <2>3, <2>4, <2>5 DEF Ending, Live, ChatOf
<1>12. Locked'
  <2>1. \A j \in Tasks : In(j, lock') <=> task'[j].at \in {"sub", "unsub"}
    BY <1>2, <1>7, <1>8 DEF Control, Locked
  <2>2. In("relay", lock') <=> relay \in {"set", "unset"}
    BY <1>8 DEF Control, Locked
  <2>3. ASSUME NEW j \in Tasks, task'[j].at = "unsub", byNode'[opened'[task'[j].s][2]] # 0
        PROVE  /\ task'["bot"].at = "sub" /\ task'["bot"].s = byNode'[opened'[task'[j].s][2]]
               /\ Ahead(j, "bot", lock')
    <3>1. /\ task'[j] = task[j] /\ task[j].s \in Opened /\ task[j].at = "unsub"
          /\ NodeOf(task[j].s) = opened'[task'[j].s][2]
      <4>1. task'[j] = task[j] /\ task[j].s # 0
        BY <1>7, <2>3 DEF Control, Registered
      <4>. QED BY <1>2, <1>3, <2>3, <4>1 DEF NodeOf
    <3>2. In(j, lock)
      BY <3>1 DEF Control, Locked
    <3>3. NodeOf(task[j].s) = n
      <4>1. NodeOf(task[j].s) # n => byNode[NodeOf(task[j].s)] # 0
        BY <1>2, <1>5, <2>3, <3>1
      <4>. QED BY <3>1, <4>1 DEF Control, Locked, Subscribing
    <3>. QED BY <1>5, <1>7, <1>8, <3>1, <3>2, <3>3
  <2>. QED BY <1>8, <2>1, <2>2, <2>3 DEF Control, Locked, NodeOf, Subscribing
<1>13. Streamed'
  <2>. SUFFICES ASSUME relay \in {"attach", "loop"}, link, NEW m \in Nodes, byNode'[m] # 0
                PROVE  m \in subs \union attach \/ (task'["bot"].at = "sub" /\ task'["bot"].s = byNode'[m])
    BY DEF Control, Streamed, Held, Subscribing
  <2>1. CASE m = n
    BY <1>5, <1>7, <2>1
  <2>2. CASE m # n
    BY <1>5, <2>2 DEF Control, Streamed, Held, Subscribing
  <2>. QED BY <2>1, <2>2
<1>. QED BY <1>9, <1>10, <1>11, <1>12, <1>13

\* A session is closed: it leaves the maps, and who closed it waits for the lock.
LEMMA CloseKeeps ==
  ASSUME Control, NEW k \in Tasks, task[k].at \notin {"sub", "unsub"},
         NEW c \in Chats, byChat[c] # 0, Close(k, c),
         UNCHANGED <<pump, relay, stream, link, subs, attach>>
  PROVE  Registered' /\ Agreed' /\ Ending' /\ Locked' /\ Streamed'
<1> DEFINE s == byChat[c]
           n == NodeOf(s)
<1>1. /\ byChat' = [byChat EXCEPT ![c] = 0] /\ byNode' = [byNode EXCEPT ![n] = 0]
      /\ task' = [task EXCEPT ![k] = Doing("unsub", s)] /\ lock' = Append(lock, k)
      /\ opened' = opened
  BY DEF Close
<1>2. /\ Len(opened) \in Nat /\ "bot" \in Tasks
      /\ \A t \in Opened : t # 0 /\ ChatOf(t) \in Chats /\ NodeOf(t) \in Nodes
      /\ \A j \in Tasks : task[j].s # 0 => task[j].s \in Opened
  BY OpenedFacts DEF Control, Opened, Tasks
<1>3. s \in Opened /\ s \in 0..Len(opened) /\ n \in Nodes /\ ChatOf(s) = c /\ byNode[n] = s
  <2>1. s \in Opened /\ s \in 0..Len(opened)
    BY <1>2 DEF Control, Registered, Opened
  <2>. QED BY <1>2, <2>1 DEF Control, Agreed
<1>4. byNode[n] # 0 /\ byChat[c] = s /\ NodeOf(s) = n /\ Live(s) /\ s # 0
  BY <1>3 DEF Live
<1> HIDE DEF s, n
<1>5. /\ byChat' \in [Chats -> 0..Len(opened)] /\ byChat'[c] = 0
      /\ \A d \in Chats : d # c => byChat'[d] = byChat[d]
      /\ byNode' \in [Nodes -> 0..Len(opened)] /\ byNode'[n] = 0
      /\ \A m \in Nodes : m # n => byNode'[m] = byNode[m]
  BY <1>1, <1>2, <1>3 DEF Control, Registered
<1>6. /\ task' \in [Tasks -> [at : Places, s : 0..Len(opened)]]
      /\ task'[k].at = "unsub" /\ task'[k].s = s /\ \A j \in Tasks : j # k => task'[j] = task[j]
  <2>1. Doing("unsub", s) \in [at : Places, s : 0..Len(opened)]
    BY <1>3 DEF Doing, Places
  <2>. QED BY <1>1, <2>1 DEF Control, Registered, Doing
<1>7. /\ lock' \in Seq(Tasks \union {"relay"}) /\ Once(lock')
      /\ \A j : In(j, lock') <=> In(j, lock) \/ j = k
      /\ \A i, j : Ahead(i, j, lock) => Ahead(i, j, lock')
  <2>1. ~In(k, lock) /\ lock \in Seq(Tasks \union {"relay"}) /\ Once(lock)
    BY DEF Control, Registered, Locked
  <2>. QED BY <1>1, <2>1, JoinFacts
<1>8. Registered'
  BY <1>1, <1>4, <1>5, <1>6, <1>7 DEF Control, Registered
<1>9. Agreed'
  <2>1. ASSUME NEW m \in Nodes, byNode'[m] # 0
        PROVE  NodeOf(byNode'[m]) = m /\ byChat'[ChatOf(byNode'[m])] = byNode'[m]
    <3>1. m # n /\ byNode'[m] = byNode[m] /\ byNode[m] \in Opened
      BY <1>2, <1>5, <2>1 DEF Control, Registered, Opened
    <3>2. NodeOf(byNode[m]) = m /\ byChat[ChatOf(byNode[m])] = byNode[m]
      BY <2>1, <3>1 DEF Control, Agreed
    <3>3. ChatOf(byNode[m]) \in Chats \ {c}
      BY <1>2, <1>4, <3>1, <3>2
    <3>. QED BY <1>5, <3>1, <3>2, <3>3
  <2>2. ASSUME NEW d \in Chats, byChat'[d] # 0
        PROVE  ChatOf(byChat'[d]) = d /\ byNode'[NodeOf(byChat'[d])] = byChat'[d]
    <3>1. d # c /\ byChat'[d] = byChat[d] /\ byChat[d] \in Opened
      BY <1>2, <1>5, <2>2 DEF Control, Registered, Opened
    <3>2. ChatOf(byChat[d]) = d /\ byNode[NodeOf(byChat[d])] = byChat[d]
      BY <2>2, <3>1 DEF Control, Agreed
    <3>3. NodeOf(byChat[d]) \in Nodes \ {n}
      BY <1>2, <1>3, <3>1, <3>2
    <3>. QED BY <1>5, <3>1, <3>2, <3>3
  <2>. QED BY <1>1, <2>1, <2>2 DEF Agreed, ChatOf, NodeOf
<1>10. Ending'
  <2>1. \A t \in Opened : (byChat'[ChatOf(t)] = t) <=> Live(t) /\ t # s
    BY <1>2, <1>3, <1>4, <1>5 DEF Live
  <2>2. ASSUME NEW j \in Tasks, task'[j].at \in {"unsub", "last"}
        PROVE  ~(byChat'[ChatOf(task'[j].s)] = task'[j].s)
    <3>1. CASE j = k
      BY <1>3, <1>6, <2>1, <3>1
    <3>2. CASE j # k
      <4>1. task'[j] = task[j] /\ task[j].s \in Opened
        BY <1>2, <1>6, <2>2, <3>2 DEF Control, Registered
      <4>. QED BY <2>1, <2>2, <4>1 DEF Control, Ending
    <3>. QED BY <3>1, <3>2
  <2>3. \A t \in Opened : pump[t] = "ended" => ~(byChat'[ChatOf(t)] = t)
    BY <2>1 DEF Control, Ending
  <2>4. ASSUME NEW t \in Opened, ~(byChat'[ChatOf(t)] = t), pump[t] # "ended"
        PROVE  \E j \in Tasks : task'[j].at = "unsub" /\ task'[j].s = t
    <3>1. CASE t = s
      BY <1>6, <3>1
    <3>2. CASE t # s
      <4>1. PICK j \in Tasks : task[j].at = "unsub" /\ task[j].s = t
        BY <2>1, <2>4, <3>2 DEF Control, Ending
      <4>. QED BY <1>6, <4>1
    <3>. QED BY <3>1, <3>2
  <2>. QED BY <1>1, <2>2, <2>3, <2>4 DEF Ending, Live, ChatOf, Opened
<1>11. Locked'
  <2>1. \A j \in Tasks : In(j, lock') <=> task'[j].at \in {"sub", "unsub"}
    BY <1>6, <1>7 DEF Control, Locked
  <2>2. In("relay", lock') <=> relay \in {"set", "unset"}
    BY <1>7 DEF Control, Locked, Tasks
  <2>3. ASSUME NEW j \in Tasks, task'[j].at = "unsub", byNode'[NodeOf(task'[j].s)] # 0
        PROVE  /\ task'["bot"].at = "sub" /\ task'["bot"].s = byNode'[NodeOf(task'[j].s)]
               /\ Ahead(j, "bot", lock')
    <3>1. j # k
      BY <1>4, <1>5, <1>6, <2>3
    <3>2. task'[j] = task[j] /\ NodeOf(task[j].s) \in Nodes
      <4>1. task'[j] = task[j] /\ task[j].s # 0
        BY <1>6, <2>3, <3>1 DEF Control, Registered
      <4>. QED BY <1>2, <4>1
    <3>3. byNode'[NodeOf(task[j].s)] = byNode[NodeOf(task[j].s)]
      BY <1>5, <2>3, <3>2
    <3>4. Subscribing(NodeOf(task[j].s)) /\ Ahead(j, "bot", lock)
      BY <2>3, <3>2, <3>3 DEF Control, Locked
    <3>. QED BY <1>2, <1>6, <1>7, <3>2, <3>3, <3>4 DEF Subscribing
  <2>. QED BY <1>1, <1>7, <2>1, <2>2, <2>3 DEF Control, Locked, NodeOf, Subscribing
<1>12. Streamed'
  <2>. SUFFICES ASSUME relay \in {"attach", "loop"}, link, NEW m \in Nodes, byNode'[m] # 0
                PROVE  m \in subs \union attach \/ (task'["bot"].at = "sub" /\ task'["bot"].s = byNode'[m])
    BY DEF Control, Streamed, Held, Subscribing
  <2>1. byNode'[m] = byNode[m] /\ m \in Held
    BY <1>5 DEF Held
  <2>. QED BY <1>2, <1>6, <2>1 DEF Control, Streamed, Subscribing
<1>. QED BY <1>8, <1>9, <1>10, <1>11, <1>12

\* The node of a session is subscribed, once the handler has the lock.
LEMMA SubscribedKeeps ==
  ASSUME Control, Subscribed
  PROVE  Registered' /\ Agreed' /\ Ending' /\ Locked' /\ Streamed'
<1> DEFINE s == task["bot"].s
<1>1. /\ task["bot"].at = "sub" /\ lock # <<>> /\ Head(lock) = "bot" /\ lock' = Tail(lock)
      /\ subs' = IF stream /\ link THEN subs \union {NodeOf(s)} ELSE subs
      /\ task' = [task EXCEPT !["bot"] = Doing("idle", 0)]
      /\ UNCHANGED <<opened, byChat, byNode, pump, relay, stream, link, attach>>
  BY DEF Subscribed, maps, pumps, Idle, Doing
<1> HIDE DEF s
<1>2. /\ task' \in [Tasks -> [at : Places, s : 0..Len(opened)]]
      /\ task'["bot"].at = "idle" /\ task'["bot"].s = 0
      /\ \A j \in Tasks : j # "bot" => task'[j] = task[j]
  <2>1. Doing("idle", 0) \in [at : Places, s : 0..Len(opened)] /\ "bot" \in Tasks
    BY OpenedFacts DEF Control, Doing, Places, Tasks
  <2>. QED BY <1>1, <2>1 DEF Control, Registered, Doing
<1>3. /\ lock' \in Seq(Tasks \union {"relay"}) /\ Once(lock')
      /\ \A j : In(j, lock') <=> In(j, lock) /\ j # "bot"
      /\ \A j : ~Ahead(j, "bot", lock)
  <2>1. lock \in Seq(Tasks \union {"relay"}) /\ Once(lock)
    BY DEF Control, Registered, Locked
  <2>2. /\ Tail(lock) \in Seq(Tasks \union {"relay"}) /\ Once(Tail(lock))
        /\ \A j : In(j, Tail(lock)) <=> In(j, lock) /\ j # Head(lock)
        /\ \A j : ~Ahead(j, Head(lock), lock)
    BY <1>1, <2>1, LeaveFacts
  <2>. QED BY <1>1, <2>2
<1>4. Registered'
  BY <1>1, <1>2, <1>3 DEF Control, Registered
<1>5. Agreed'
  BY <1>1 DEF Control, Agreed, ChatOf, NodeOf
<1>6. Ending'
  <2>1. \A j \in Tasks : /\ task'[j].at \in {"unsub", "last"} => task'[j] = task[j]
                         /\ task[j].at = "unsub" => task'[j] = task[j]
    BY <1>1, <1>2
  <2>2. \A j \in Tasks : task'[j].at \in {"unsub", "last"} => ~Live(task'[j].s)
    BY <2>1 DEF Control, Ending
  <2>3. ASSUME NEW t \in Opened, ~Live(t), pump[t] # "ended"
        PROVE  \E j \in Tasks : task'[j].at = "unsub" /\ task'[j].s = t
    <3>1. PICK j \in Tasks : task[j].at = "unsub" /\ task[j].s = t
      BY <2>3 DEF Control, Ending
    <3>. QED BY <2>1, <3>1
  <2>4. \A t \in Opened : pump[t] = "ended" => ~Live(t)
    BY DEF Control, Ending
  <2>. QED BY <1>1, <2>2, <2>3, <2>4 DEF Ending, Live, ChatOf, Opened
<1>7. Locked'
  <2>1. \A j \in Tasks : In(j, lock') <=> task'[j].at \in {"sub", "unsub"}
    BY <1>2, <1>3 DEF Control, Locked
  <2>2. In("relay", lock') <=> relay \in {"set", "unset"}
    BY <1>3 DEF Control, Locked
  <2>3. \A j \in Tasks : task'[j].at = "unsub" => byNode[NodeOf(task'[j].s)] = 0
    <3>1. \A j \in Tasks : task'[j].at = "unsub" => task'[j] = task[j] /\ task[j].at = "unsub"
      BY <1>2
    <3>. QED BY <1>3, <3>1 DEF Control, Locked
  <2>. QED BY <1>1, <1>3, <2>1, <2>2, <2>3 DEF Locked, NodeOf
<1>8. Streamed'
  <2>. SUFFICES ASSUME relay \in {"attach", "loop"}, link, NEW m \in Nodes, byNode[m] # 0
                PROVE  m \in subs' \union attach
    BY <1>1 DEF Control, Streamed, Held
  <2>1. stream /\ subs' = subs \union {NodeOf(s)}
    BY <1>1 DEF Control, Streamed
  <2>2. m \in subs \union attach \/ s = byNode[m]
    BY DEF Control, Streamed, Held, Subscribing, s
  <2>3. NodeOf(byNode[m]) = m
    BY DEF Control, Agreed
  <2>. QED BY <2>1, <2>2, <2>3
<1>. QED BY <1>4, <1>5, <1>6, <1>7, <1>8

\* The node of a session that is over is unsubscribed: nobody has it again, or its
\* subscription is still to come.
LEMMA UnsubscribedKeeps ==
  ASSUME Control, NEW k \in Tasks, Unsubscribed(k)
  PROVE  Registered' /\ Agreed' /\ Ending' /\ Locked' /\ Streamed'
<1> DEFINE s == task[k].s
           n == NodeOf(s)
<1>1. /\ task[k].at = "unsub" /\ lock # <<>> /\ Head(lock) = k /\ lock' = Tail(lock)
      /\ subs' = IF stream /\ link THEN subs \ {n} ELSE subs
      /\ pump' = [pump EXCEPT ![s] = "ended"]
      /\ task' = [task EXCEPT ![k] = Doing("last", s)]
      /\ UNCHANGED <<opened, byChat, byNode, relay, stream, link, attach>>
  BY DEF Unsubscribed, CancelPump, maps
<1>2. s \in Opened /\ s \in Sessions /\ s # 0 /\ n \in Nodes /\ s \in 0..Len(opened) /\ ~Live(s)
  <2>1. s # 0 /\ ~Live(s) /\ s \in 0..Len(opened)
    BY <1>1 DEF Control, Registered, Ending
  <2>. QED BY <2>1, OpenedFacts DEF Control
<1>3. byNode[n] # 0 => Subscribing(n) /\ k # "bot"
  BY <1>1 DEF Control, Locked, Subscribing
<1> HIDE DEF s, n
<1>4. /\ task' \in [Tasks -> [at : Places, s : 0..Len(opened)]]
      /\ task'[k].at = "last" /\ task'[k].s = s /\ \A j \in Tasks : j # k => task'[j] = task[j]
  <2>1. Doing("last", s) \in [at : Places, s : 0..Len(opened)]
    BY <1>2 DEF Doing, Places
  <2>. QED BY <1>1, <2>1 DEF Control, Registered, Doing
<1>5. /\ pump' \in [Sessions -> {"sleep", "flush", "ended"}] /\ pump'[s] = "ended"
      /\ \A t \in Sessions : t # s => pump'[t] = pump[t]
  BY <1>1, <1>2 DEF Control, Registered
<1>6. /\ lock' \in Seq(Tasks \union {"relay"}) /\ Once(lock')
      /\ \A j : In(j, lock') <=> In(j, lock) /\ j # k
      /\ \A i, j : Ahead(i, j, lock) /\ i # k => Ahead(i, j, lock')
  <2>1. lock \in Seq(Tasks \union {"relay"}) /\ Once(lock)
    BY DEF Control, Registered, Locked
  <2>. QED BY <1>1, <2>1, LeaveFacts
<1>7. Registered'
  BY <1>1, <1>2, <1>4, <1>5, <1>6 DEF Control, Registered
<1>8. Agreed'
  BY <1>1 DEF Control, Agreed, ChatOf, NodeOf
<1>9. Ending'
  <2>1. ASSUME NEW j \in Tasks, task'[j].at \in {"unsub", "last"} PROVE ~Live(task'[j].s)
    <3>1. CASE j = k
      BY <1>2, <1>4, <3>1
    <3>2. CASE j # k
      BY <1>4, <2>1, <3>2 DEF Control, Ending
    <3>. QED BY <3>1, <3>2
  <2>2. \A t \in Opened : t \in Sessions
    BY OpenedFacts DEF Control
  <2>3. \A t \in Opened : pump'[t] = "ended" => ~Live(t)
    BY <1>2, <1>5, <2>2 DEF Control, Ending
  <2>4. ASSUME NEW t \in Opened, ~Live(t), pump'[t] # "ended"
        PROVE  \E j \in Tasks : task'[j].at = "unsub" /\ task'[j].s = t
    <3>1. t # s /\ pump[t] # "ended"
      BY <1>5, <2>2, <2>4
    <3>2. PICK j \in Tasks : task[j].at = "unsub" /\ task[j].s = t
      BY <2>4, <3>1 DEF Control, Ending
    <3>3. j # k
      BY <3>1, <3>2 DEF s
    <3>. QED BY <1>4, <3>2, <3>3
  <2>. QED BY <1>1, <2>1, <2>3, <2>4 DEF Ending, Live, ChatOf, Opened
<1>10. Locked'
  <2>1. \A j \in Tasks : In(j, lock') <=> task'[j].at \in {"sub", "unsub"}
    BY <1>4, <1>6 DEF Control, Locked
  <2>2. In("relay", lock') <=> relay \in {"set", "unset"}
    BY <1>6 DEF Control, Locked, Tasks
  <2>3. ASSUME NEW j \in Tasks, task'[j].at = "unsub", byNode[NodeOf(task'[j].s)] # 0
        PROVE  /\ task'["bot"].at = "sub" /\ task'["bot"].s = byNode[NodeOf(task'[j].s)]
               /\ Ahead(j, "bot", lock')
    <3>1. j # k /\ task'[j] = task[j]
      BY <1>4, <2>3
    <3>2. Subscribing(NodeOf(task[j].s)) /\ Ahead(j, "bot", lock)
      BY <2>3, <3>1 DEF Control, Locked
    <3>3. k # "bot" /\ "bot" \in Tasks
      BY <1>1, <3>2 DEF Subscribing, Tasks
    <3>. QED BY <1>4, <1>6, <3>1, <3>2, <3>3 DEF Subscribing
  <2>. QED BY <1>1, <1>6, <2>1, <2>2, <2>3 DEF Locked, NodeOf, Subscribing
<1>11. Streamed'
  <2>. SUFFICES ASSUME relay \in {"attach", "loop"}, link, NEW m \in Nodes, byNode[m] # 0
                PROVE  m \in subs' \union attach \/ (task'["bot"].at = "sub" /\ task'["bot"].s = byNode[m])
    BY <1>1 DEF Control, Streamed, Held, Subscribing
  <2>1. m \in subs \union attach \/ Subscribing(m)
    BY DEF Control, Streamed, Held
  <2>2. Subscribing(m) => task'["bot"].at = "sub" /\ task'["bot"].s = byNode[m]
    BY <1>1, <1>4 DEF Subscribing, Tasks
  <2>3. m = n => Subscribing(m)
    BY <1>3
  <2>. QED BY <1>1, <2>1, <2>2, <2>3
<1>. QED BY <1>7, <1>8, <1>9, <1>10, <1>11

\* A pump wakes or goes back to sleep.
LEMMA PumpKeeps ==
  ASSUME Control, NEW s \in Sessions, NEW x \in {"sleep", "flush"}, pump[s] # "ended",
         pump' = [pump EXCEPT ![s] = x],
         UNCHANGED <<opened, byChat, byNode, task, lock, relay, stream, link, subs, attach>>
  PROVE  Registered' /\ Agreed' /\ Ending' /\ Locked' /\ Streamed'
<1>1. /\ pump' \in [Sessions -> {"sleep", "flush", "ended"}]
      /\ \A t \in Sessions : (pump'[t] = "ended") <=> (pump[t] = "ended")
  BY DEF Control, Registered
<1>2. Registered' /\ Agreed'
  BY <1>1 DEF Control, Registered, Agreed, ChatOf, NodeOf
<1>3. Ending'
  <2>1. \A t \in Opened : (pump'[t] = "ended") <=> (pump[t] = "ended")
    BY <1>1, OpenedFacts DEF Control
  <2>. QED BY <2>1 DEF Control, Ending, Live, ChatOf, Opened
<1>4. Locked' /\ Streamed'
  BY DEF Control, Locked, Streamed, Subscribing, NodeOf, Held
<1>. QED BY <1>2, <1>3, <1>4

-----------------------------------------------------------------------------
(* The relay's WebSocket.                                                  *)

\* It waits for the lock behind the others,
LEMMA RelayWaits ==
  ASSUME Control, Connect \/ LoopEnds
  PROVE  Registered' /\ Agreed' /\ Ending' /\ Locked' /\ Streamed'
<1>1. /\ relay \in {"down", "loop"} /\ relay' \in {"set", "unset"} /\ lock' = Append(lock, "relay")
      /\ relay' = "unset" => relay = "loop"
      /\ UNCHANGED <<opened, byChat, byNode, pump, task, stream, attach>>
  BY DEF Connect, LoopEnds, maps, pumps
<1>2. /\ lock' \in Seq(Tasks \union {"relay"}) /\ Once(lock')
      /\ \A j : In(j, lock') <=> In(j, lock) \/ j = "relay"
      /\ \A i, j : Ahead(i, j, lock) => Ahead(i, j, lock')
  <2>1. ~In("relay", lock) /\ lock \in Seq(Tasks \union {"relay"}) /\ Once(lock)
    BY <1>1 DEF Control, Registered, Locked
  <2>. QED BY <1>1, <2>1, JoinFacts
<1>3. Registered' /\ Agreed' /\ Ending'
  BY <1>1, <1>2, SessionsKept
<1>4. Locked'
  BY <1>1, <1>2 DEF Control, Locked, Tasks, Subscribing, NodeOf
<1>5. Streamed'
  BY <1>1 DEF Control, Streamed
<1>. QED BY <1>3, <1>4, <1>5

\* and has it to change what the others read.
LEMMA RelayHas ==
  ASSUME Control, SetStream \/ ClearStream
  PROVE  Registered' /\ Agreed' /\ Ending' /\ Locked' /\ Streamed'
<1>1. /\ relay \in {"set", "unset"} /\ relay' \in {"announce", "down"}
      /\ Head(lock) = "relay" /\ lock' = Tail(lock)
      /\ relay' = "announce" => stream'
      /\ UNCHANGED <<opened, byChat, byNode, pump, task, attach>>
  BY DEF SetStream, ClearStream, maps, pumps
<1>2. /\ lock' \in Seq(Tasks \union {"relay"}) /\ Once(lock')
      /\ \A j : In(j, lock') <=> In(j, lock) /\ j # "relay"
      /\ \A i, j : Ahead(i, j, lock) /\ i # "relay" => Ahead(i, j, lock')
  <2>1. lock \in Seq(Tasks \union {"relay"}) /\ Once(lock) /\ In("relay", lock)
    BY <1>1 DEF Control, Registered, Locked
  <2>2. lock # <<>>
    BY <2>1 DEF In
  <2>. QED BY <1>1, <2>1, <2>2, LeaveFacts
<1>3. Registered' /\ Agreed' /\ Ending'
  BY <1>1, <1>2, SessionsKept
<1>4. Locked'
  <2>1. \A j \in Tasks : j # "relay"
    BY DEF Tasks
  <2>. QED BY <1>1, <1>2, <2>1 DEF Control, Locked, Subscribing, NodeOf
<1>5. Streamed'
  BY <1>1 DEF Control, Streamed
<1>. QED BY <1>3, <1>4, <1>5

\* Without the lock it subscribes what the sessions hold, and loses it all with the link.
LEMMA RelayKeeps ==
  ASSUME Control,
         \/ StartAttach \/ AttachDone \/ LinkDrops \/ \E n \in Nodes : Attach(n)
         \/ UNCHANGED <<opened, byChat, byNode, pump, task, lock, relay, stream, link, subs, attach>>
  PROVE  Registered' /\ Agreed' /\ Ending' /\ Locked' /\ Streamed'
<1>1. UNCHANGED <<opened, byChat, byNode, pump, task, lock, stream>>
  BY DEF StartAttach, AttachDone, LinkDrops, Attach, maps, pumps
<1>2. (relay' \in {"set", "unset"}) <=> (relay \in {"set", "unset"})
  BY DEF StartAttach, AttachDone, LinkDrops, Attach
<1>3. /\ Registered' /\ Agreed' /\ Ending' /\ Held' = Held
      /\ \A n \in Nodes : Subscribing(n)' <=> Subscribing(n)
  <2>1. lock' \in Seq(Tasks \union {"relay"})
    BY <1>1 DEF Control, Registered
  <2>. QED BY <1>1, <2>1, SessionsKept
<1>4. Locked'
  BY <1>1, <1>2 DEF Control, Locked, Subscribing, NodeOf
<1>5. Streamed'
  <2>1. CASE StartAttach
    BY <1>3, <2>1 DEF StartAttach, Reattached, Control, Streamed
  <2>2. CASE AttachDone
    BY <1>3, <2>2 DEF AttachDone, Control, Streamed, Held
  <2>3. CASE LinkDrops
    BY <1>1, <2>3 DEF LinkDrops, Control, Streamed
  <2>4. CASE \E n \in Nodes : Attach(n)
    BY <1>3, <2>4 DEF Attach, Control, Streamed, Held
  <2>5. CASE UNCHANGED <<opened, byChat, byNode, pump, task, lock, relay, stream, link, subs, attach>>
    BY <1>3, <2>5 DEF Control, Streamed, Held
  <2>. QED BY <2>1, <2>2, <2>3, <2>4, <2>5
<1>. QED BY <1>3, <1>4, <1>5

-----------------------------------------------------------------------------
(* The invariant.                                                          *)

\* It holds at the start.
LEMMA InitHolds == Init => Invariant
<1>. SUFFICES ASSUME Init PROVE Invariant
  OBVIOUS
<1>1. opened = <<>> /\ Len(opened) = 0 /\ Opened = {}
  BY DEF Init, Opened
<1>2. \A k \in Tasks : task[k] = [at |-> IF k = "bot" THEN "idle" ELSE "sleep", s |-> 0]
  BY DEF Init, Idle
<1>3. Registered
  <2>1. task \in [Tasks -> [at : Places, s : 0..0]]
    BY DEF Init, Idle, Places
  <2>2. opened \in Seq(Chats \X Nodes) /\ lock \in Seq(Tasks \union {"relay"})
    BY DEF Init
  <2>3. \A k \in Tasks : k # "bot" => k = "reaper"
    BY DEF Tasks
  <2>. QED BY <1>1, <1>2, <2>1, <2>2, <2>3, SessionBoundsAssumption DEF Init, Registered
<1>4. Ranged /\ Agreed
  <2>1. drops \in 0..MaxDrops
    BY SessionBoundsAssumption DEF Init
  <2>2. Ranged
    BY <2>1 DEF Init, Ranged
  <2>. QED BY <2>2 DEF Init, Agreed
<1>5. Ending
  <2>1. \A k \in Tasks : Idle(k).at \in {"idle", "sleep"}
    BY DEF Idle
  <2>2. \A k \in Tasks : task[k].at \in {"idle", "sleep"}
    BY <2>1 DEF Init
  <2>. QED BY <1>1, <2>2 DEF Ending
<1>6. Locked
  <2>1. \A j : ~In(j, lock)
    BY DEF Init, In
  <2>2. Once(lock)
    BY DEF Init, Once
  <2>. QED BY <1>2, <2>1, <2>2 DEF Init, Locked
<1>7. Streamed
  BY DEF Init, Streamed
<1>8. Flow
  <2>1. /\ <<>> \in Seq(1..MaxOutput) /\ <<>> \in Seq(0..MaxOutput) /\ 0 \in 0..MaxOutput
        /\ <<>> \in Seq(Nodes \X (1..MaxOutput)) /\ DOMAIN <<>> = {}
    BY SessionBoundsAssumption
  <2>2. InLine(<<>>, <<>>, 0, <<>>, 0) /\ Ordered(<<>>, 0)
    BY <2>1 DEF InLine, Ordered, Rising
  <2>. QED BY <2>1, <2>2 DEF Init, Flow
<1>. QED BY <1>3, <1>4, <1>5, <1>6, <1>7, <1>8 DEF Invariant, Control

\* A handler's step keeps the sessions and the lock in order,
LEMMA BotKeeps ==
  ASSUME Control,
         \/ \E c \in Chats, n \in Nodes : Fetched(c, n)
         \/ Ended \/ Typed \/ CmdShell
         \/ \E c \in Chats : CmdEnd(c) \/ CmdControl(c) \/ OnText(c)
  PROVE  Registered' /\ Agreed' /\ Ending' /\ Locked' /\ Streamed'
<1>1. "bot" \in Tasks /\ 0 \in 0..Len(opened) /\ Idle("bot") = Doing("idle", 0)
  BY OpenedFacts DEF Control, Tasks, Idle, Doing
<1>2. ASSUME NEW c \in Chats, NEW n \in Nodes, Fetched(c, n)
      PROVE  Registered' /\ Agreed' /\ Ending' /\ Locked' /\ Streamed'
  <2>1. task["bot"].at = "fetch" /\ UNCHANGED <<relay, stream, link, subs, attach>>
    BY <1>2 DEF Fetched, socket
  <2>2. CASE Free(c, n) /\ Len(opened) < MaxSessions /\ Open(c, n)
    BY <2>1, <2>2, OpenKeeps
  <2>3. CASE task' = [task EXCEPT !["bot"] = Idle("bot")] /\ UNCHANGED <<maps, pump, lock>>
    <3>1. task' = [task EXCEPT !["bot"] = Doing("idle", 0)]
      BY <1>1, <2>3
    <3>2. UNCHANGED <<opened, byChat, byNode, pump, lock, relay, stream, link, subs, attach>>
      BY <2>1, <2>3 DEF maps
    <3>. QED BY <1>1, <2>1, <3>1, <3>2, TaskMoves DEF Places
  <2>. QED BY <1>2, <2>2, <2>3 DEF Fetched
<1>3. CASE Ended \/ Typed
  <2>1. /\ task["bot"].at \in {"last", "type"} /\ task' = [task EXCEPT !["bot"] = Doing("idle", 0)]
        /\ UNCHANGED <<opened, byChat, byNode, pump, lock, relay, stream, link, subs, attach>>
    BY <1>1, <1>3 DEF Ended, Typed, Closing, maps, pumps, socket
  <2>. QED BY <1>1, <2>1, TaskMoves DEF Places
<1>4. CASE CmdShell
  <2>1. /\ task["bot"].at = "idle" /\ task' = [task EXCEPT !["bot"] = Doing("fetch", 0)]
        /\ UNCHANGED <<opened, byChat, byNode, pump, lock, relay, stream, link, subs, attach>>
    BY <1>4 DEF CmdShell, Ready, Idle, maps, pumps, socket
  <2>. QED BY <1>1, <2>1, TaskMoves DEF Places
<1>5. ASSUME NEW c \in Chats, CmdEnd(c)
      PROVE  Registered' /\ Agreed' /\ Ending' /\ Locked' /\ Streamed'
  <2>1. /\ task["bot"].at = "idle" /\ byChat[c] # 0 /\ Close("bot", c)
        /\ UNCHANGED <<pump, relay, stream, link, subs, attach>>
    BY <1>5 DEF CmdEnd, Ready, Idle, pumps, socket
  <2>. QED BY <1>1, <2>1, CloseKeeps
<1>6. ASSUME NEW c \in Chats, CmdControl(c)
      PROVE  Registered' /\ Agreed' /\ Ending' /\ Locked' /\ Streamed'
  <2>1. /\ task["bot"].at = "idle" /\ byChat[c] # 0
        /\ task' = [task EXCEPT !["bot"] = Doing("type", byChat[c])]
        /\ UNCHANGED <<opened, byChat, byNode, pump, lock, relay, stream, link, subs, attach>>
    BY <1>6 DEF CmdControl, Ready, Idle, maps, pumps, socket
  <2>2. PICK s \in 0..Len(opened) : s = byChat[c]
    BY DEF Control, Registered
  <2>3. s # 0 /\ task' = [task EXCEPT !["bot"] = Doing("type", s)] /\ "type" \in Places
    BY <2>1, <2>2 DEF Places
  <2>. QED BY <1>1, <2>1, <2>3, TaskMoves
<1>. QED BY <1>2, <1>3, <1>4, <1>5, <1>6 DEF OnText

\* and so does the reaper's, which closes the session that a chat has by now.
LEMMA WalkKeeps ==
  ASSUME Control, NEW rest \in SUBSET Opened, Walk(rest), task["reaper"].at \in {"sleep", "last"},
         UNCHANGED <<pump, relay, stream, link, subs, attach>>
  PROVE  Registered' /\ Agreed' /\ Ending' /\ Locked' /\ Streamed' /\ left' \subseteq Opened'
<1>1. "reaper" \in Tasks /\ 0 \in 0..Len(opened) /\ Idle("reaper") = Doing("sleep", 0)
  BY OpenedFacts DEF Control, Tasks, Idle, Doing
<1>2. CASE Due(rest) = {} /\ left' = {} /\ task' = [task EXCEPT !["reaper"] = Idle("reaper")]
           /\ UNCHANGED <<maps, lock>>
  <2>1. /\ task' = [task EXCEPT !["reaper"] = Doing("sleep", 0)]
        /\ UNCHANGED <<opened, byChat, byNode, lock>>
    BY <1>1, <1>2 DEF maps
  <2>2. Registered' /\ Agreed' /\ Ending' /\ Locked' /\ Streamed'
    BY <1>1, <2>1, TaskMoves DEF Places
  <2>. QED BY <1>2, <2>2
<1>3. ASSUME NEW s \in Due(rest), left' = {t \in rest : t > s}, Close("reaper", ChatOf(s))
      PROVE  Registered' /\ Agreed' /\ Ending' /\ Locked' /\ Streamed' /\ left' \subseteq Opened'
  <2>1. s \in Opened /\ byChat[ChatOf(s)] # 0 /\ ChatOf(s) \in Chats
    BY OpenedFacts DEF Due, Control
  <2>2. Registered' /\ Agreed' /\ Ending' /\ Locked' /\ Streamed'
    BY <1>1, <1>3, <2>1, CloseKeeps
  <2>3. opened' = opened
    BY <1>3 DEF Close
  <2>. QED BY <1>3, <2>2, <2>3 DEF Opened
<1>. QED BY <1>2, <1>3 DEF Walk

\* What the reaper has still to look at.
LEMMA ReaperKeeps ==
  ASSUME Control, Sweep \/ SweepGoesOn
  PROVE  Registered' /\ Agreed' /\ Ending' /\ Locked' /\ Streamed' /\ left' \subseteq Opened'
<1>1. UNCHANGED <<pump, relay, stream, link, subs, attach>>
  BY DEF Sweep, SweepGoesOn, pumps, socket
<1>2. CASE Sweep
  <2>1. task["reaper"].at = "sleep" /\ Walk({byNode[n] : n \in Held})
    BY <1>2 DEF Sweep, Idle
  <2>2. {byNode[n] : n \in Held} \subseteq Opened
    <3>1. \A n \in Held : byNode[n] \in 0..Len(opened) /\ byNode[n] # 0
      BY DEF Held, Control, Registered
    <3>. QED BY <3>1, OpenedFacts DEF Opened, Control
  <2>. QED BY <1>1, <2>1, <2>2, WalkKeeps
<1>3. CASE SweepGoesOn
  <2>1. task["reaper"].at = "last" /\ Walk(left) /\ left \subseteq Opened
    BY <1>3 DEF SweepGoesOn, Closing, Control, Ranged
  <2>. QED BY <1>1, <2>1, WalkKeeps
<1>. QED BY <1>2, <1>3

\* Every step keeps the sessions, the tasks and the subscriptions in order.
LEMMA ControlHolds ==
  ASSUME Control, [Next]_vars
  PROVE  Control'
<1> DEFINE Kept == Registered' /\ Agreed' /\ Ending' /\ Locked' /\ Streamed'
           Same == UNCHANGED <<opened, byChat, byNode, pump, task, lock, relay, stream, link, subs, attach>>
<1>0. "bot" \in Tasks /\ "reaper" \in Tasks /\ Ranged /\ Len(opened) \in Nat
  BY OpenedFacts DEF Tasks, Control
<1>1. ASSUME Same, UNCHANGED <<left, drops>>, armed' \in BOOLEAN, idle' \subseteq Opened
      PROVE  Control'
  <2>1. Kept
    BY <1>1, RelayKeeps
  <2>2. Ranged'
    BY <1>0, <1>1 DEF Ranged, Opened
  <2>. QED BY <2>1, <2>2 DEF Control
<1>2. ASSUME UNCHANGED <<opened, idle, left, armed, drops>>, Kept,
             relay' \in {"down", "set", "announce", "attach", "loop", "unset"},
             stream' \in BOOLEAN, link' \in BOOLEAN, subs' \subseteq Nodes, attach' \subseteq Nodes
      PROVE  Control'
  <2>1. Ranged'
    BY <1>0, <1>2 DEF Ranged, Opened
  <2>. QED BY <1>2, <2>1 DEF Control
<1>3. ASSUME UNCHANGED <<left, armed, relay, stream, link, subs, attach, drops>>, Kept,
             Opened \subseteq Opened', idle' \subseteq idle
      PROVE  Control'
  <2>1. Ranged'
    BY <1>0, <1>3 DEF Ranged
  <2>. QED BY <1>3, <2>1 DEF Control
<1> HIDE DEF Kept
<1>4. ASSUME NEW c \in Chats, NEW n \in Nodes, Fetched(c, n) PROVE Control'
  <2>1. Kept /\ UNCHANGED <<idle, left, armed, relay, stream, link, subs, attach, drops>>
    BY <1>4, BotKeeps DEF Kept, Fetched, socket
  <2>2. Opened \subseteq Opened'
    <3>1. CASE opened' = opened
      BY <3>1 DEF Opened
    <3>2. CASE opened' = Append(opened, <<c, n>>)
      <4>1. opened \in Seq(Chats \X Nodes) /\ <<c, n>> \in Chats \X Nodes
        BY DEF Control, Registered
      <4>2. Len(opened') = Len(opened) + 1
        BY <3>2, <4>1, AppendIs
      <4>. QED BY <1>0, <4>2 DEF Opened
    <3>. QED BY <1>4, <3>1, <3>2 DEF Fetched, Open, maps
  <2>. QED BY <1>3, <2>1, <2>2
<1>5. CASE Subscribed \/ Unsubscribed("bot") \/ Unsubscribed("reaper")
  <2>1. Kept
    BY <1>0, <1>5, SubscribedKeeps, UnsubscribedKeeps DEF Kept
  <2>2. /\ UNCHANGED <<opened, idle, left, armed, relay, stream, link, attach, drops>>
        /\ subs' \in {subs} \union {subs \union {NodeOf(task[k].s)} : k \in {"bot"}}
                     \union {subs \ {NodeOf(task[k].s)} : k \in Tasks}
    BY <1>0, <1>5 DEF Subscribed, Unsubscribed, maps
  <2>3. subs' \subseteq Nodes
    <3>1. Subscribed => NodeOf(task["bot"].s) \in Nodes
      <4>1. Subscribed => task["bot"].s # 0
        BY <1>0 DEF Subscribed, Control, Registered
      <4>. QED BY <1>0, <4>1, OpenedFacts DEF Control
    <3>2. Subscribed => subs' \subseteq subs \union {NodeOf(task["bot"].s)}
      BY DEF Subscribed
    <3>3. Unsubscribed("bot") \/ Unsubscribed("reaper") => subs' \subseteq subs
      BY DEF Unsubscribed
    <3>. QED BY <1>0, <1>5, <3>1, <3>2, <3>3 DEF Ranged
  <2>. QED BY <1>0, <1>2, <2>1, <2>2, <2>3 DEF Ranged
<1>6. CASE Ended \/ Typed \/ CmdShell \/ \E c \in Chats : CmdEnd(c) \/ CmdControl(c) \/ OnText(c)
  <2>1. /\ Kept /\ opened' = opened /\ idle' \subseteq idle
        /\ UNCHANGED <<left, armed, relay, stream, link, subs, attach, drops>>
    <3>1. Kept
      BY <1>6, BotKeeps DEF Kept
    <3>. QED BY <1>6, <3>1 DEF Ended, Typed, Touch, CmdShell, CmdEnd, Close, CmdControl, OnText,
                               maps, socket
  <2>. QED BY <1>3, <2>1 DEF Opened
<1>7. CASE Sweep \/ SweepGoesOn
  <2>1. /\ Kept /\ left' \subseteq Opened'
        /\ opened' = opened /\ UNCHANGED <<idle, armed, relay, stream, link, subs, attach, drops>>
    <3>1. Kept /\ left' \subseteq Opened'
      BY <1>7, ReaperKeeps DEF Kept
    <3>. QED BY <1>7, <3>1 DEF Sweep, SweepGoesOn, Walk, Close, maps, socket
  <2>2. Ranged'
    BY <1>0, <2>1 DEF Ranged, Opened
  <2>. QED BY <2>1, <2>2 DEF Kept, Control
<1>8. CASE LastSend("bot") \/ LastSend("reaper") \/ CmdArm \/ Disarm
           \/ (\E n \in Nodes : Prints(n)) \/ UNCHANGED vars
  BY <1>0, <1>1, <1>8
     DEF LastSend, CmdArm, Disarm, Prints, vars, maps, pumps, socket, Ranged
<1>9. CASE Feed \/ \E s \in Sessions : Ages(s)
  <2>1. idle' \subseteq Opened
    BY <1>0, <1>9 DEF Feed, Touch, Ages, Ranged, Opened
  <2>. QED BY <1>0, <1>1, <1>9, <2>1 DEF Feed, Ages, maps, pumps, socket, Ranged
<1>10. ASSUME NEW s \in Sessions, PumpSteps(s) PROVE Control'
  <2>1. CASE PumpSends(s)
    BY <1>0, <1>1, <2>1 DEF PumpSends, maps, socket, Ranged
  <2>2. CASE Wakes(s) \/ FlushOver(s)
    <3>1. /\ pump[s] # "ended" /\ \E x \in {"sleep", "flush"} : pump' = [pump EXCEPT ![s] = x]
          /\ UNCHANGED <<opened, byChat, byNode, task, lock, relay, stream, link, subs, attach>>
          /\ UNCHANGED <<idle, left, armed, drops>>
      BY <2>2 DEF Wakes, FlushOver, maps, socket
    <3>2. Kept
      BY <3>1, PumpKeeps DEF Kept
    <3>. QED BY <1>0, <1>2, <3>1, <3>2 DEF Ranged
  <2>. QED BY <1>10, <2>1, <2>2 DEF PumpSteps
<1>11. CASE Connect \/ LoopEnds \/ SetStream \/ ClearStream
  <2>1. Kept
    BY <1>11, RelayWaits, RelayHas DEF Kept
  <2>. QED BY <1>0, <1>2, <1>11, <2>1 DEF Connect, LoopEnds, SetStream, ClearStream, maps, Ranged
<1>12. CASE StartAttach \/ AttachDone \/ \E n \in Nodes : Attach(n)
  <2>1. Kept
    BY <1>12, RelayKeeps DEF Kept
  <2>2. /\ UNCHANGED <<opened, idle, left, armed, drops, stream, link>>
        /\ relay' \in {"attach", "loop"} /\ subs' \subseteq Nodes /\ attach' \subseteq Nodes
    BY <1>0, <1>12 DEF StartAttach, Reattached, Held, AttachDone, Attach, maps, Ranged
  <2>. QED BY <1>0, <1>2, <2>1, <2>2 DEF Ranged
<1>13. CASE LinkDrops
  <2>1. Kept
    BY <1>13, RelayKeeps DEF Kept
  <2>2. /\ UNCHANGED <<opened, idle, left, armed, relay, stream, attach>>
        /\ link' = FALSE /\ subs' = {} /\ drops < MaxDrops /\ drops' = drops + 1
    BY <1>13 DEF LinkDrops, maps
  <2>3. drops' \in 0..MaxDrops
    BY <1>0, <2>2, SessionBoundsAssumption DEF Ranged
  <2>4. Ranged'
    BY <1>0, <2>2, <2>3 DEF Ranged, Opened
  <2>. QED BY <2>1, <2>4 DEF Kept, Control
<1>. QED BY <1>4, <1>5, <1>6, <1>7, <1>8, <1>9, <1>10, <1>11, <1>12, <1>13
       DEF Next, BotSteps, ReaperSteps, RelaySteps, Updates, World, PumpSteps

\* Every step keeps the texts in order.
LEMMA FlowHolds ==
  ASSUME Control, Flow, [Next]_vars
  PROVE  Flow'
<1>0. \A k \in Tasks : task[k].at \in {"unsub", "last"} => task[k].s \in Sessions
  <2>1. \A k \in Tasks : task[k].at \in {"unsub", "last"} => task[k].s # 0
    BY DEF Control, Registered
  <2>. QED BY <2>1, OpenedFacts DEF Control
<1>1. ASSUME UNCHANGED <<buf, outbox, got, wire, printed>> PROVE Flow'
  BY <1>1, WireFlows
<1>2. CASE BotSteps \/ ReaperSteps
  <2>1. ASSUME NEW k \in Tasks, Unsubscribed(k) PROVE Flow'
    <3>1. /\ task[k].s \in Sessions /\ StartFlush(task[k].s)
          /\ UNCHANGED <<got, wire, printed>>
      BY <1>0, <2>1 DEF Unsubscribed, CancelPump, feedvars
    <3>. QED BY <3>1, FlushFlows
  <2>2. ASSUME NEW k \in Tasks, LastSend(k) PROVE Flow'
    <3>1. /\ task[k].s \in Sessions /\ outbox[task[k].s] # <<>> /\ SendOne(task[k].s)
          /\ UNCHANGED <<buf, wire, printed>>
      BY <1>0, <2>2 DEF LastSend, feedvars
    <3>. QED BY <3>1, SendFlows
  <2>3. CASE \/ \E c \in Chats, n \in Nodes : Fetched(c, n)
             \/ Subscribed \/ Ended \/ Typed \/ Sweep \/ SweepGoesOn
    <3>1. UNCHANGED <<buf, outbox, got, wire, printed>>
      BY <2>3 DEF Fetched, Subscribed, Ended, Typed, Sweep, SweepGoesOn, pumps, feedvars
    <3>. QED BY <1>1, <3>1
  <2>. QED BY <1>2, <2>1, <2>2, <2>3 DEF BotSteps, ReaperSteps, Tasks
<1>3. CASE RelaySteps
  <2>1. CASE Feed
    BY <2>1, FeedFlows DEF Control
  <2>2. CASE Connect \/ SetStream \/ StartAttach \/ AttachDone \/ LoopEnds \/ ClearStream
             \/ \E n \in Nodes : Attach(n)
    <3>1. UNCHANGED <<buf, outbox, got, wire, printed>>
      BY <2>2 DEF Connect, SetStream, StartAttach, AttachDone, LoopEnds, ClearStream, Attach,
                  pumps, feedvars
    <3>. QED BY <1>1, <3>1
  <2>. QED BY <1>3, <2>1, <2>2 DEF RelaySteps
<1>4. CASE Updates \/ (\E s \in Sessions : Ages(s)) \/ UNCHANGED vars
  <2>1. UNCHANGED <<buf, outbox, got, wire, printed>>
    BY <1>4 DEF Updates, CmdShell, CmdEnd, CmdControl, OnText, CmdArm, Disarm, Ages, pumps, feedvars, vars
  <2>. QED BY <1>1, <2>1
<1>5. CASE LinkDrops \/ \E n \in Nodes : Prints(n)
  <2>1. UNCHANGED <<buf, outbox, got>>
    BY <1>5 DEF LinkDrops, Prints, pumps
  <2>. QED BY <1>5, <2>1, WireFlows DEF LinkDrops
<1>6. ASSUME NEW s \in Sessions, PumpSteps(s) PROVE Flow'
  <2>1. CASE Wakes(s)
    BY <2>1, FlushFlows DEF Wakes, feedvars
  <2>2. CASE PumpSends(s)
    BY <2>2, SendFlows DEF PumpSends, feedvars
  <2>3. CASE FlushOver(s)
    BY <1>1, <2>3 DEF FlushOver, feedvars
  <2>. QED BY <1>6, <2>1, <2>2, <2>3 DEF PumpSteps
<1>. QED BY <1>2, <1>3, <1>4, <1>5, <1>6 DEF Next, World

-----------------------------------------------------------------------------
(* The theorems.                                                           *)

\* The inductive invariant: the sessions, the tasks, the lock and the subscriptions
\* (Control), and the texts (Flow), through every interleaving of the handler, the
\* reaper, the pumps and the WebSocket (sessions.py, relay.py, bot.py).
THEOREM InvariantHolds == Spec => []Invariant
<1>1. Init => Invariant
  BY InitHolds
<1>2. Invariant /\ [Next]_vars => Invariant'
  BY ControlHolds, FlowHolds DEF Invariant
<1>. QED BY <1>1, <1>2, PTL DEF Spec

\* A chat has one session and a node one chat, the two maps tell the same, and every
\* variable keeps its range (SessionManager.open, close and the reaper's close).
THEOREM TypeCorrect == Spec => []TypeOK
<1>1. Invariant => TypeOK
  <2>. SUFFICES ASSUME Invariant PROVE TypeOK
    OBVIOUS
  <2>0. Control /\ Flow /\ Registered /\ Ranged /\ Agreed /\ Ending /\ Locked
    BY DEF Invariant, Control
  <2>1. /\ \A n \in Nodes : byNode[n] # 0 => byNode[n] \in Opened
        /\ \A c \in Chats : byChat[c] # 0 => byChat[c] \in Opened
    BY <2>0, OpenedFacts DEF Registered, Opened
  <2>2. \A n \in Nodes : byNode[n] # 0 => /\ opened[byNode[n]] = <<ChatOf(byNode[n]), n>>
                                          /\ byChat[ChatOf(byNode[n])] = byNode[n]
    BY <2>0, <2>1, OpenedFacts DEF Agreed
  <2>3. \A c \in Chats : byChat[c] # 0 => byNode[NodeOf(byChat[c])] = byChat[c]
    BY <2>0 DEF Agreed
  <2>4. \A s \in 1..Len(opened) : pump[s] = "ended" => byChat[ChatOf(s)] # s
    BY <2>0 DEF Ending, Live, Opened
  <2>5. task \in [Tasks -> Stages]
    <3>1. ASSUME NEW k \in Tasks PROVE task[k] \in Stages
      <4>1. /\ task[k] \in [at : Places, s : 0..Len(opened)]
            /\ (task[k].s = 0) <=> (task[k].at \in {"idle", "sleep", "fetch"})
            /\ (task[k].at = "idle") => (k = "bot")
            /\ (task[k].at = "sleep") => (k = "reaper")
        BY <2>0 DEF Registered
      <4>2. task[k] = [at |-> task[k].at, s |-> task[k].s]
        BY <4>1
      <4>3. CASE task[k].at = "idle"
        BY <4>1, <4>2, <4>3 DEF Stages, Idle
      <4>4. CASE task[k].at = "sleep"
        BY <4>1, <4>2, <4>4 DEF Stages, Idle
      <4>5. CASE task[k].at = "fetch"
        BY <4>1, <4>2, <4>5 DEF Stages, Doing
      <4>6. CASE task[k].at \in {"sub", "type", "unsub", "last"}
        <5>1. task[k].s \in 1..Len(opened)
          BY <2>0, <4>1, <4>6, OpenedFacts DEF Opened
        <5>. QED BY <4>1, <4>6, <5>1 DEF Stages
      <4>. QED BY <4>1, <4>3, <4>4, <4>5, <4>6 DEF Places
    <3>. QED BY <2>0, <3>1 DEF Registered
  <2>. QED BY <2>0, <2>2, <2>3, <2>4, <2>5 DEF TypeOK, Registered, Ranged, Flow, Ordered, Opened
<1>. QED BY <1>1, InvariantHolds, PTL

\* The node of an open session is subscribed whenever the relay reads an open WebSocket
\* and no subscription is under way (EventRelay.subscribe, unsubscribe, _ws_loop).
THEOREM AttachedHolds == Spec => []Attached
<1>1. Invariant => Attached
  BY DEF Invariant, Control, Streamed, Subscribing, Attached
<1>. QED BY <1>1, InvariantHolds, PTL

\* What a chat has still to receive of a session is in order, no text of it twice, and
\* all of it after what the chat has (OutputPump._flush).
THEOREM InOrderHolds == Spec => []InOrder
<1>1. Invariant => InOrder
  <2>. SUFFICES ASSUME Invariant, NEW s \in Sessions
                PROVE  LET texts == outbox[s] \o buf[s]
                           Text(i) == texts[i] # Note
                       IN /\ \A i \in DOMAIN texts : Text(i) => got[s] < texts[i]
                          /\ \A i, j \in DOMAIN texts : i < j /\ Text(i) /\ Text(j) => texts[i] < texts[j]
    BY DEF InOrder
  <2> DEFINE o == outbox[s]
             b == buf[s]
             texts == o \o b
  <2>1. InLine(o, b, got[s], wire, printed)
    BY DEF Invariant, Flow
  <2>2. o \in Seq(0..MaxOutput) /\ b \in Seq(0..MaxOutput)
    <3>1. b \in Seq(1..MaxOutput)
      BY <2>1 DEF InLine
    <3>2. b \in Seq(0..MaxOutput)
      BY <3>1, SessionBoundsAssumption
    <3>. QED BY <2>1, <3>2 DEF InLine
  <2> HIDE DEF o, b
  <2>3. /\ Len(o) \in Nat /\ Len(b) \in Nat /\ DOMAIN o = 1..Len(o) /\ DOMAIN b = 1..Len(b)
        /\ DOMAIN texts = 1..(Len(o) + Len(b))
        /\ \A i \in 1..Len(o) : texts[i] = o[i]
        /\ \A i \in (Len(o) + 1)..(Len(o) + Len(b)) : texts[i] = b[i - Len(o)]
    BY <2>2
  <2> HIDE DEF texts
  <2>4. ASSUME NEW i \in DOMAIN texts
        PROVE  \/ i \in DOMAIN o /\ texts[i] = o[i]
               \/ ~(i \in DOMAIN o) /\ i - Len(o) \in DOMAIN b /\ texts[i] = b[i - Len(o)]
    BY <2>3
  <2>5. \A i \in DOMAIN texts : texts[i] # Note => got[s] < texts[i]
    BY <2>1, <2>4 DEF InLine
  <2>6. ASSUME NEW i \in DOMAIN texts, NEW j \in DOMAIN texts, i < j, texts[i] # Note, texts[j] # Note
        PROVE  texts[i] < texts[j]
    <3>1. CASE j \in DOMAIN o /\ texts[j] = o[j]
      <4>1. i \in DOMAIN o /\ texts[i] = o[i]
        BY <2>3, <2>6, <3>1
      <4>. QED BY <2>1, <2>6, <3>1, <4>1 DEF InLine, Rising
    <3>2. CASE j - Len(o) \in DOMAIN b /\ texts[j] = b[j - Len(o)]
      <4>1. CASE i \in DOMAIN o /\ texts[i] = o[i]
        BY <2>1, <3>2, <4>1 DEF InLine
      <4>2. CASE i - Len(o) \in DOMAIN b /\ texts[i] = b[i - Len(o)]
        <5>1. i - Len(o) < j - Len(o)
          BY <2>3, <2>6
        <5>. QED BY <2>1, <2>6, <3>2, <4>2, <5>1 DEF InLine, Rising
      <4>. QED BY <2>4, <4>1, <4>2
    <3>. QED BY <2>4, <3>1, <3>2
  <2>. QED BY <2>5, <2>6 DEF texts, o, b
<1>. QED BY <1>1, InvariantHolds, PTL

\* After a close has returned nothing of that session reaches the chat: its pump has
\* ended, and no task has its last flush to send (OutputPump.close).
THEOREM SilentOnceClosedHolds == Spec => SilentOnceClosed
<1>1. Invariant /\ [Next]_vars => [\A s \in Sessions : Over(s) => got'[s] = got[s]]_vars
  <2>. SUFFICES ASSUME Invariant, Next, NEW s \in Sessions, Over(s) PROVE got'[s] = got[s]
    OBVIOUS
  <2>1. pump[s] = "ended"
    <3>1. s \in Opened /\ ~Live(s)
      BY DEF Over, Live, Opened, Sessions
    <3>2. ASSUME NEW k \in Tasks, task[k].at = "unsub", task[k].s = s PROVE FALSE
      <4>1. task[k] \in [at : Places, s : 0..Len(opened)]
        BY DEF Invariant, Control, Registered
      <4>2. task[k] = [at |-> task[k].at, s |-> task[k].s]
        BY <4>1
      <4>. QED BY <3>2, <4>2 DEF Over, Doing
    <3>. QED BY <3>1, <3>2 DEF Invariant, Control, Ending
  <2>2. ASSUME NEW t \in Sessions, t # s, SendOne(t) PROVE got'[s] = got[s]
    BY <2>2 DEF SendOne, Received, Invariant, Flow
  <2>3. ASSUME NEW k \in Tasks, LastSend(k) PROVE got'[s] = got[s]
    <3>1. task[k].s # s
      <4>1. task[k] \in [at : Places, s : 0..Len(opened)] /\ task[k].at = "last"
        BY <2>3 DEF Invariant, Control, Registered, LastSend
      <4>2. task[k] = [at |-> task[k].at, s |-> task[k].s]
        BY <4>1
      <4>. QED BY <4>1, <4>2 DEF Over, Doing
    <3>2. task[k].s \in Sessions /\ SendOne(task[k].s)
      <4>1. task[k].s # 0 /\ SendOne(task[k].s)
        BY <2>3 DEF Invariant, Control, Registered, LastSend
      <4>. QED BY <4>1, OpenedFacts DEF Invariant, Control
    <3>. QED BY <2>2, <3>1, <3>2
  <2>4. ASSUME NEW t \in Sessions, PumpSteps(t) PROVE got'[s] = got[s]
    <3>1. CASE PumpSends(t)
      BY <2>1, <2>2, <3>1 DEF PumpSends
    <3>2. CASE Wakes(t) \/ FlushOver(t)
      BY <3>2 DEF Wakes, FlushOver
    <3>. QED BY <2>4, <3>1, <3>2 DEF PumpSteps
  <2>5. CASE RelaySteps \/ Updates \/ World
    BY <2>5 DEF RelaySteps, Connect, SetStream, StartAttach, AttachDone, LoopEnds, ClearStream,
                Attach, Feed, Updates, CmdShell, CmdEnd, CmdControl, OnText, CmdArm, Disarm,
                World, LinkDrops, Prints, Ages, pumps
  <2>6. CASE \/ \E c \in Chats, n \in Nodes : Fetched(c, n)
             \/ Subscribed \/ Unsubscribed("bot") \/ Unsubscribed("reaper")
             \/ Ended \/ Typed \/ Sweep \/ SweepGoesOn
    BY <2>6 DEF Fetched, Subscribed, Unsubscribed, Ended, Typed, Sweep, SweepGoesOn, pumps
  <2>. QED BY <2>3, <2>4, <2>5, <2>6 DEF Next, BotSteps, ReaperSteps, Tasks
<1>. QED BY <1>1, InvariantHolds, PTL DEF Spec, SilentOnceClosed

-----------------------------------------------------------------------------
(* The calls and alerts of the sidecar between its hubs: a state disjoint  *)
(* from that of the sessions.                                              *)

Call == [on : BOOLEAN, hub : Nat, left : Nat, did : BOOLEAN]
Attempts == Nat \X Nat \X Nat

CallsTyped ==
  /\ up \subseteq Hubs /\ rows \in [Hubs -> Nat] /\ cursor \in Hubs
  /\ call \in [Users -> Call] /\ bot \in Seq({"get", "post"}) /\ commands \in Nat
  /\ done \subseteq Attempts /\ lost \subseteq Attempts /\ late \subseteq Nat \X Attempts
  /\ mark \in Nat /\ fresh \in Seq(Hubs \X Nat) /\ alerted \in [Hubs -> Nat]
  /\ alone \in BOOLEAN

\* An attempt of a call that is over, and that the handler does not make again.
Past(a) == a[1] < commands \/ (a[1] = commands /\ a[2] > Len(bot))

\* Where a hub that was not given up on has carried something out, that call is over, or it
\* is the attempt under way; and what can still be carried out late was given up on.
Accounted ==
  /\ \A l \in late : l[2] \in lost
  /\ \A a \in done \ lost : Past(a) \/ (a = Attempt /\ call["bot"].on /\ Posting("bot"))
  /\ TwiceOnlyIfLost

\* The mark is past every row that was alerted or is going to be, and only set back
\* when none was.
Marked ==
  /\ poll \in {"start", "seed"} => mark = 0
  /\ poll = "alert" => fresh # <<>>
  /\ \A h \in Hubs : alerted[h] <= mark
  /\ \A i \in DOMAIN fresh : fresh[i][2] <= mark

\* How far the cursor has to go to come to h.
Distance(h) == IF cursor <= h THEN h - cursor ELSE N + h - cursor

\* Nobody else moves the cursor of an undisturbed call, and the hubs that the attempts
\* it has left do not come to are down.
Tried ==
  /\ call["bot"].on => bot # <<>>
  /\ alone /\ call["bot"].on =>
       /\ call["bot"].hub = cursor /\ call["bot"].left < N
       /\ \A h \in Hubs : Distance(h) > call["bot"].left => h \notin up

CallsInvariant == CallsTyped /\ Accounted /\ Marked /\ NoReplay /\ Tried

-----------------------------------------------------------------------------
(* Operators.                                                              *)

\* The cursor goes round the hubs.
LEMMA AdvancedFacts ==
  ASSUME NEW i \in Hubs
  PROVE  Advanced(i) = IF i = N THEN 1 ELSE i + 1
<1>1. CASE i = N
  BY <1>1, HubsAssumption DEF Advanced
<1>2. CASE i # N
  <2>1. i \in 1..(N - 1) /\ N \in Nat \ {0}
    BY <1>2, HubsAssumption DEF Hubs
  <2>. QED BY <1>2, <2>1 DEF Advanced
<1>. QED BY <1>1, <1>2

\* The rows of an interval in ascending order.
LEMMA AscendingFacts ==
  ASSUME NEW lo \in Nat, NEW hi \in Nat, lo <= hi
  PROVE  LET q == Ascending(lo..hi)
         IN /\ Cardinality(lo..hi) \in Nat
            /\ q \in [1..Cardinality(lo..hi) -> lo..hi]
            /\ \A i, j \in 1..Cardinality(lo..hi) : i < j => q[i] < q[j]
<1>1. Cardinality(lo..hi) = hi - lo + 1
  BY FS_Interval
<1>. DEFINE w == [i \in 1..(hi - lo + 1) |-> lo + i - 1]
<1>2. w \in [1..Cardinality(lo..hi) -> lo..hi] /\ \A i, j \in DOMAIN w : i < j => w[i] < w[j]
  BY <1>1
<1>3. \E q \in [1..Cardinality(lo..hi) -> lo..hi] : \A i, j \in DOMAIN q : i < j => q[i] < q[j]
  BY <1>2
<1>. HIDE DEF w
<1>4. /\ Ascending(lo..hi) \in [1..Cardinality(lo..hi) -> lo..hi]
      /\ \A i, j \in DOMAIN Ascending(lo..hi) : i < j => Ascending(lo..hi)[i] < Ascending(lo..hi)[j]
  BY <1>3 DEF Ascending
<1>. QED BY <1>1, <1>4

\* What a poll finds past the mark is an interval.
LEMMA PastMarkFacts ==
  ASSUME CallsTyped, NEW h \in Hubs, PastMark(h) # {}
  PROVE  \E lo \in Nat : /\ PastMark(h) = lo..rows[h] /\ lo <= rows[h] /\ mark < lo
<1>1. rows[h] \in Nat /\ mark \in Nat /\ Limit \in Nat
  BY HubsAssumption DEF CallsTyped
<1>. DEFINE lo == IF rows[h] < mark + Limit THEN mark + 1 ELSE rows[h] - Limit + 1
<1>2. lo \in Nat /\ mark < lo
  BY <1>1
<1>3. PastMark(h) = lo..rows[h]
  BY <1>1 DEF PastMark, Listed
<1>. QED BY <1>1, <1>2, <1>3

-----------------------------------------------------------------------------
(* Parts of actions.                                                       *)

\* The bot's attempt is one, and what comes after its call is shorter.
LEMMA AttemptTyped ==
  ASSUME CallsTyped
  PROVE  /\ Attempt \in Attempts /\ Len(bot) \in Nat
         /\ Attempt[1] = commands /\ Attempt[2] = Len(bot) /\ Attempt[3] = call["bot"].left
<1>1. commands \in Nat /\ Len(bot) \in Nat /\ call["bot"] \in Call
  BY DEF CallsTyped, Users
<1>. QED BY <1>1 DEF Attempt, Attempts, Call

\* What still counts is of calls that are over.
LEMMA AccountedOver ==
  ASSUME CallsInvariant, done' = done, lost \subseteq lost', \A l \in late' : l[2] \in lost',
         \A a \in done \ lost' : Past(a)'
  PROVE  Accounted'
<1>1. TwiceOnlyIfLost'
  BY DEF CallsInvariant, Accounted, TwiceOnlyIfLost
<1>. QED BY <1>1 DEF Accounted

\* The bot's call is where it was.
LEMMA AccountedKept ==
  ASSUME CallsInvariant, UNCHANGED <<done, lost, commands, bot>>, late' \subseteq late,
         call["bot"].on => call'["bot"].on /\ call'["bot"].left = call["bot"].left
  PROVE  Accounted'
<1>1. TwiceOnlyIfLost' /\ \A l \in late' : l[2] \in lost'
  BY DEF CallsInvariant, Accounted, TwiceOnlyIfLost
<1>2. ASSUME NEW a \in done \ lost
      PROVE  Past(a)' \/ (a = Attempt' /\ call'["bot"].on /\ Posting("bot")')
  <2>1. Past(a) \/ (a = Attempt /\ call["bot"].on /\ Posting("bot"))
    BY DEF CallsInvariant, Accounted
  <2>2. CASE Past(a)
    BY <2>2 DEF Past
  <2>3. CASE a = Attempt /\ call["bot"].on /\ Posting("bot")
    BY <2>3 DEF Attempt, Posting
  <2>. QED BY <2>1, <2>2, <2>3
<1>. QED BY <1>1, <1>2 DEF Accounted

\* The bot's call is over.
LEMMA AccountedEnds ==
  ASSUME CallsInvariant, call["bot"].on, bot' \in {<<>>, Tail(bot)}, UNCHANGED <<done, commands>>,
         lost \subseteq lost', \A l \in late' : l[2] \in lost'
  PROVE  Accounted' /\ bot' \in Seq({"get", "post"})
<1>1. bot \in Seq({"get", "post"}) /\ bot # <<>> /\ commands \in Nat /\ done \subseteq Attempts
  BY DEF CallsInvariant, CallsTyped, Tried
<1>2. bot' \in Seq({"get", "post"}) /\ Len(bot') \in Nat /\ Len(bot) \in Nat /\ Len(bot') < Len(bot)
  <2>1. CASE bot' = <<>>
    <3>1. Len(bot) # 0
      BY <1>1
    <3>. QED BY <1>1, <2>1, <3>1
  <2>2. CASE bot' = Tail(bot)
    BY <1>1, <2>2
  <2>. QED BY <2>1, <2>2
<1>3. ASSUME NEW a \in done \ lost' PROVE Past(a)'
  <2>1. a \in Nat \X Nat \X Nat
    BY <1>1 DEF Attempts
  <2>2. Past(a) \/ (a[1] = commands /\ a[2] = Len(bot))
    <3>1. Past(a) \/ a = Attempt
      BY DEF CallsInvariant, Accounted
    <3>. QED BY <3>1, AttemptTyped DEF CallsInvariant
  <2>3. a[1] \in Nat /\ a[2] \in Nat
    BY <2>1
  <2>4. commands' = commands
    OBVIOUS
  <2>. QED BY <1>1, <1>2, <2>2, <2>3, <2>4 DEF Past
<1>. QED BY <1>2, <1>3, AccountedOver

\* What the end of a call leaves of its user's part.
LEMMA ContinuesFacts ==
  ASSUME CallsInvariant, NEW k \in Users, NEW ok \in BOOLEAN, NEW h, ok => h \in Hubs,
         Continues(k, ok, h)
  PROVE  /\ mark' \in Nat /\ fresh' \in Seq(Hubs \X Nat) /\ UNCHANGED alerted
         /\ Marked' /\ NoReplay' /\ (k # "bot" => UNCHANGED bot)
<1>0. /\ mark \in Nat /\ fresh \in Seq(Hubs \X Nat) /\ alerted \in [Hubs -> Nat]
      /\ rows \in [Hubs -> Nat]
  BY DEF CallsInvariant, CallsTyped
<1>1. CASE UNCHANGED polling /\ (k # "bot" => UNCHANGED bot)
  BY <1>0, <1>1 DEF polling, Marked, NoReplay, CallsInvariant
<1>2. CASE k = "poll" /\ PollGoesOn(ok, h)
  <2>0. UNCHANGED <<bot, alerted>>
    BY <1>2 DEF PollGoesOn
  <2>1. CASE poll = "seed"
    <3>1. /\ mark' = (IF ok THEN rows[h] ELSE mark) /\ UNCHANGED fresh
          /\ poll' \in {"seedHealth", "sleep"}
      BY <1>2, <2>1 DEF PollGoesOn
    <3>2. mark = 0 /\ mark' \in Nat
      BY <1>0, <2>1, <3>1 DEF CallsInvariant, Marked
    <3>3. Marked'
      <4>1. \A g \in Hubs : alerted[g] = 0
        BY <1>0, <3>2 DEF CallsInvariant, Marked
      <4>2. \A i \in DOMAIN fresh : fresh[i] \in Hubs \X Nat /\ fresh[i][2] = 0
        BY <1>0, <3>2 DEF CallsInvariant, Marked
      <4>. QED BY <2>0, <3>1, <3>2, <4>1, <4>2 DEF Marked
    <3>4. NoReplay'
      BY <2>0, <3>1 DEF CallsInvariant, NoReplay
    <3>. QED BY <1>0, <2>0, <3>1, <3>2, <3>3, <3>4
  <2>2. CASE \/ poll \in {"seedHealth", "health"}
             \/ poll = "events" /\ UNCHANGED <<fresh, mark>> /\ poll' = "sleep"
    <3>1. UNCHANGED <<fresh, mark>> /\ poll' \in {"events", "sleep"}
      BY <1>2, <2>2 DEF PollGoesOn
    <3>. QED BY <1>0, <2>0, <3>1 DEF CallsInvariant, Marked, NoReplay
  <2>3. CASE /\ poll = "events" /\ ok /\ PastMark(h) # {}
             /\ fresh' = [i \in 1..Cardinality(PastMark(h)) |-> <<h, Ascending(PastMark(h))[i]>>]
             /\ mark' = rows[h] /\ poll' = "alert"
    <3>. DEFINE n == Cardinality(PastMark(h))
                q == Ascending(PastMark(h))
    <3>0. h \in Hubs
      BY <2>3
    <3>1. PICK lo \in Nat : PastMark(h) = lo..rows[h] /\ lo <= rows[h] /\ mark < lo
      BY <2>3, <3>0, PastMarkFacts DEF CallsInvariant
    <3>2. n \in Nat /\ q \in [1..n -> lo..rows[h]] /\ \A i, j \in 1..n : i < j => q[i] < q[j]
      BY <1>0, <3>0, <3>1, AscendingFacts
    <3>3. n # 0
      <4>1. n = rows[h] - lo + 1
        BY <1>0, <3>0, <3>1, FS_Interval
      <4>. QED BY <1>0, <3>0, <3>1, <4>1
    <3>. HIDE DEF n, q
    <3>4. fresh' = [i \in 1..n |-> <<h, q[i]>>]
      BY <2>3 DEF n, q
    <3>5. \A i \in 1..n : q[i] \in Nat /\ mark < q[i] /\ q[i] <= rows[h]
      BY <1>0, <3>0, <3>1, <3>2
    <3>6. /\ fresh' \in Seq(Hubs \X Nat) /\ DOMAIN fresh' = 1..n
          /\ \A i \in 1..n : fresh'[i][1] = h /\ fresh'[i][2] = q[i]
      BY <3>0, <3>2, <3>4, <3>5
    <3>7. \A g \in Hubs : alerted[g] <= mark
      BY DEF CallsInvariant, Marked
    <3>8. NoReplay'
      <4>1. \A i \in DOMAIN fresh' : fresh'[i][2] > alerted'[fresh'[i][1]]
        <5>1. alerted' = alerted /\ alerted[h] \in Nat /\ alerted[h] <= mark
          BY <1>0, <2>0, <3>0, <3>7
        <5>2. ASSUME NEW i \in 1..n
              PROVE  fresh'[i][2] > alerted'[fresh'[i][1]]
          <6>1. fresh'[i][1] = h /\ fresh'[i][2] = q[i] /\ q[i] \in Nat /\ mark < q[i]
            BY <3>5, <3>6
          <6>. QED BY <1>0, <5>1, <6>1
        <5>. QED BY <3>6, <5>2
      <4>2. \A i, j \in DOMAIN fresh' : i < j => fresh'[i][2] < fresh'[j][2]
        BY <3>2, <3>6
      <4>. QED BY <4>1, <4>2 DEF NoReplay
    <3>9. mark' \in Nat /\ \A g \in Hubs : alerted[g] <= mark'
      BY <1>0, <2>3, <3>0, <3>1, <3>7
    <3>10. Marked'
      <4>1. fresh' # <<>>
        BY <3>3, <3>2, <3>6
      <4>2. \A i \in DOMAIN fresh' : fresh'[i][2] <= mark'
        BY <2>3, <3>5, <3>6
      <4>. QED BY <2>0, <2>3, <3>9, <4>1, <4>2 DEF Marked
    <3>. QED BY <2>0, <3>6, <3>8, <3>9, <3>10
  <2>. QED BY <1>2, <2>1, <2>2, <2>3 DEF PollGoesOn
<1>. QED BY <1>1, <1>2 DEF Continues, HandlerGoesOn, ProbeOver, follower, polling

\* A call that ends: its user is asking for nothing any more.
LEMMA ReturnedFacts ==
  ASSUME CallsInvariant, NEW k \in Users, NEW ok \in BOOLEAN, NEW h, ok => h \in Hubs,
         Returned(k, ok, h)
  PROVE  /\ call' = [call EXCEPT ![k] = None] /\ call' \in [Users -> Call]
         /\ mark' \in Nat /\ fresh' \in Seq(Hubs \X Nat) /\ UNCHANGED alerted
         /\ Marked' /\ NoReplay'
         /\ (k = "bot" => bot' \in {<<>>, Tail(bot)}) /\ (k # "bot" => UNCHANGED bot)
         /\ (k # "bot" => call'["bot"] = call["bot"])
         /\ (call'["bot"].on => call'["bot"] = call["bot"] /\ UNCHANGED bot)
<1>1. call \in [Users -> Call] /\ None \in Call /\ "bot" \in Users
  BY DEF CallsInvariant, CallsTyped, None, Call, Users
<1>2. call' = [call EXCEPT ![k] = None] /\ Continues(k, ok, h)
  BY DEF Returned
<1>3. /\ k # "bot" => call'["bot"] = call["bot"]
      /\ k = "bot" => bot' \in {<<>>, Tail(bot)}
  BY <1>1, <1>2 DEF Continues, HandlerGoesOn
<1>4. call'["bot"].on => call'["bot"] = call["bot"] /\ k # "bot"
  BY <1>1, <1>2 DEF None
<1>. QED BY <1>1, <1>2, <1>3, <1>4, ContinuesFacts

\* The hubs a call has tried are down, when the cursor goes on from another one.
LEMMA DistanceFacts ==
  ASSUME cursor \in Hubs, cursor' = Advanced(cursor), NEW h \in Hubs
  PROVE  /\ Distance(h) \in 0..(N - 1) /\ Distance(h)' \in 0..(N - 1)
         /\ Distance(h)' = IF h = cursor THEN N - 1 ELSE Distance(h) - 1
         /\ Distance(h) = 0 <=> h = cursor
<1>1. N \in Nat \ {0} /\ cursor \in 1..N /\ h \in 1..N
      /\ cursor' = IF cursor = N THEN 1 ELSE cursor + 1
  BY AdvancedFacts, HubsAssumption DEF Hubs
<1>. QED BY <1>1 DEF Distance

\* The next attempt is a call again.
LEMMA AttemptFacts ==
  ASSUME NEW c \in Call, c.left - 1 \in Nat, Advanced(cursor) \in Nat
  PROVE  NextAttempt(c) \in Call
BY DEF Call, NextAttempt

\* An attempt fails: everything that may come of it.
LEMMA FailoverFacts ==
  ASSUME CallsInvariant, NEW k \in Users, Failover(k), call[k].on
  PROVE  /\ cursor' = Advanced(cursor) /\ cursor' \in Hubs /\ call' \in [Users -> Call]
         /\ mark' \in Nat /\ fresh' \in Seq(Hubs \X Nat) /\ UNCHANGED <<up, rows, alerted>>
         /\ Marked' /\ NoReplay'
         /\ k # "bot" => UNCHANGED bot /\ call'["bot"] = call["bot"]
         /\ k = "bot" /\ ~call'["bot"].on => bot' \in {<<>>, Tail(bot)}
         /\ call'["bot"].on =>
              /\ UNCHANGED bot
              /\ k = "bot" => /\ call["bot"].left # 0 /\ call'["bot"].hub = cursor'
                              /\ call'["bot"].left = call["bot"].left - 1
              /\ k # "bot" => call'["bot"] = call["bot"]
         /\ k = "bot" /\ ~call'["bot"].on => call["bot"].left = 0
<1>0. /\ cursor \in Hubs /\ call \in [Users -> Call] /\ "bot" \in Users /\ Hubs \subseteq Nat
      /\ mark \in Nat /\ fresh \in Seq(Hubs \X Nat)
  BY DEF CallsInvariant, CallsTyped, Users, Hubs
<1>1. cursor' = Advanced(cursor) /\ cursor' \in Hubs /\ UNCHANGED <<up, rows>>
  <2>1. cursor' = Advanced(cursor) /\ UNCHANGED <<up, rows>>
    BY DEF Failover
  <2>. QED BY <1>0, <2>1, AdvancedFacts, HubsAssumption DEF Hubs
<1>2. CASE call[k].left = 0
  <2>1. Returned(k, FALSE, 0)
    BY <1>2 DEF Failover
  <2>2. k = "bot" => ~call'["bot"].on
    BY <1>0, <2>1 DEF Returned, None
  <2>3. call'["bot"].on => call'["bot"] = call["bot"] /\ UNCHANGED bot
    BY <2>1, ReturnedFacts
  <2>. QED BY <1>1, <1>2, <2>1, <2>2, <2>3, ReturnedFacts
<1>3. CASE call[k].left # 0
  <2>1. /\ call' = [call EXCEPT ![k] = NextAttempt(call[k])]
        /\ UNCHANGED <<bot, mark, fresh, alerted, poll>>
    BY <1>3 DEF Failover, polling
  <2>2. call[k] \in Call /\ NextAttempt(call[k]) \in Call /\ NextAttempt(call[k]).on
    <3>1. call[k] \in Call
      BY <1>0
    <3>2. call[k].left - 1 \in Nat
      BY <1>3, <3>1 DEF Call
    <3>3. NextAttempt(call[k]).on
      BY <3>1 DEF Call, NextAttempt
    <3>. QED BY <1>0, <1>1, <3>1, <3>2, <3>3, AttemptFacts
  <2>3. call' \in [Users -> Call] /\ call'[k] = NextAttempt(call[k])
        /\ \A j \in Users : j # k => call'[j] = call[j]
    BY <1>0, <2>1, <2>2
  <2>4. /\ NextAttempt(call[k]).hub = cursor' /\ NextAttempt(call[k]).left = call[k].left - 1
    BY <1>1, <2>2 DEF Call, NextAttempt
  <2>5. k # "bot" => call'["bot"] = call["bot"]
    BY <1>0, <2>3
  <2>6. Marked' /\ NoReplay'
    BY <2>1 DEF CallsInvariant, Marked, NoReplay
  <2>. QED BY <1>0, <1>1, <1>3, <2>1, <2>2, <2>3, <2>4, <2>5, <2>6
<1>. QED BY <1>2, <1>3

-----------------------------------------------------------------------------
(* The steps.                                                              *)

\* A step that moves no cursor, brings no hub up or down and begins no call of the bot:
\* its call is as it was, or over.
LEMMA TriedKept ==
  ASSUME CallsInvariant, UNCHANGED <<cursor, up>>, alone' => alone,
         call'["bot"].on => /\ call["bot"].on /\ UNCHANGED bot
                            /\ call'["bot"].hub = call["bot"].hub
                            /\ call'["bot"].left = call["bot"].left
  PROVE  Tried'
BY DEF CallsInvariant, Tried, Distance

\* The end of a call that its hub answered.
LEMMA AnswerStep ==
  ASSUME CallsInvariant, NEW k \in Users, Answer(k) \/ Refuse(k)
  PROVE  CallsInvariant'
<1>1. /\ call[k].on /\ alone' = (alone /\ k # "bot")
      /\ UNCHANGED <<up, rows, cursor, commands, late, done, lost>>
  BY DEF Answer, Refuse, Raises, Reaches, hubs, requests
<1>2. PICK ok, h : ok \in BOOLEAN /\ (ok => h \in Hubs) /\ Returned(k, ok, h)
  <2>1. CASE Answer(k)
    BY <2>1 DEF Answer, Reaches, CallsInvariant, CallsTyped
  <2>2. CASE Refuse(k)
    BY <2>2 DEF Refuse, Raises
  <2>. QED BY <2>1, <2>2
<1>3. Accounted' /\ bot' \in Seq({"get", "post"})
  <2>1. \A l \in late' : l[2] \in lost'
    BY <1>1 DEF CallsInvariant, Accounted
  <2>2. CASE k = "bot"
    BY <1>1, <1>2, <2>1, <2>2, ReturnedFacts, AccountedEnds
  <2>3. CASE k # "bot"
    BY <1>1, <1>2, <2>3, ReturnedFacts, AccountedKept DEF CallsInvariant, CallsTyped
  <2>. QED BY <2>2, <2>3
<1>4. CallsTyped'
  BY <1>1, <1>2, <1>3, ReturnedFacts DEF CallsInvariant, CallsTyped
<1>5. Tried'
  BY <1>1, <1>2, ReturnedFacts, TriedKept DEF CallsInvariant, CallsTyped
<1>. QED BY <1>2, <1>3, <1>4, <1>5, ReturnedFacts DEF CallsInvariant

\* The end of an attempt that failed.
LEMMA FailStep ==
  ASSUME CallsInvariant, NEW k \in Users, ConnFails(k) \/ ReadTimeout(k)
  PROVE  CallsInvariant'
<1>1. call[k].on /\ Failover(k) /\ alone' \in BOOLEAN
      /\ (alone' => alone /\ k = "bot" /\ call["bot"].on /\ ~Reaches("bot"))
  BY DEF ConnFails, ReadTimeout, Reaches, CallsInvariant, CallsTyped
<1>4. /\ UNCHANGED <<commands, done>> /\ Attempt \in Attempts
      /\ lost' = IF Posting(k) THEN lost \union {Attempt} ELSE lost
      /\ late' = late \/ (Posting(k) /\ late' = late \union {<<call[k].hub, Attempt>>})
  BY <1>1, AttemptTyped DEF Failover, ConnFails, ReadTimeout, CallsInvariant
<1>5. lost \subseteq lost' /\ \A l \in late' : l[2] \in lost'
  <2>1. \A l \in late : l[2] \in lost
    BY DEF CallsInvariant, Accounted
  <2>. QED BY <1>4, <2>1
<1>6. Accounted' /\ bot' \in Seq({"get", "post"})
  <2>1. CASE k # "bot"
    <3>1. ~Posting(k)
      BY <2>1 DEF Posting
    <3>. QED BY <1>1, <1>4, <2>1, <3>1, FailoverFacts, AccountedKept DEF CallsInvariant, CallsTyped
  <2>2. CASE k = "bot" /\ ~call'["bot"].on
    BY <1>1, <1>4, <1>5, <2>2, FailoverFacts, AccountedEnds
  <2>3. CASE k = "bot" /\ call'["bot"].on
    <3>1. UNCHANGED bot
      BY <1>1, <2>3, FailoverFacts
    <3>2. ASSUME NEW a \in done \ lost' PROVE Past(a)'
      <4>1. Past(a)
        BY <1>4, <1>5, <2>3 DEF CallsInvariant, Accounted
      <4>. QED BY <1>4, <3>1, <4>1 DEF Past
    <3>3. Accounted'
      BY <1>4, <1>5, <3>2, AccountedOver
    <3>. QED BY <3>1, <3>3 DEF CallsInvariant, CallsTyped
  <2>. QED BY <2>1, <2>2, <2>3
<1>2. CallsTyped'
  <2>1. lost' \subseteq Attempts /\ late' \subseteq Nat \X Attempts /\ commands' \in Nat
        /\ done' \subseteq Attempts
    <3>1. call[k].hub \in Nat
      BY DEF CallsInvariant, CallsTyped, Call
    <3>. QED BY <1>4, <3>1 DEF CallsInvariant, CallsTyped
  <2>. QED BY <1>1, <1>6, <2>1, FailoverFacts DEF CallsInvariant, CallsTyped
<1>3. Tried'
  <2>1. call'["bot"].on => bot' # <<>>
    BY <1>1, FailoverFacts DEF CallsInvariant, Tried
  <2>2. ASSUME alone', call'["bot"].on
        PROVE  /\ call'["bot"].hub = cursor' /\ call'["bot"].left < N
               /\ \A h \in Hubs : Distance(h)' > call'["bot"].left => h \notin up'
    <3>1. /\ k = "bot" /\ ~Reaches("bot") /\ call["bot"].on /\ call["bot"].hub = cursor
          /\ call["bot"].left < N /\ cursor \notin up
          /\ \A h \in Hubs : Distance(h) > call["bot"].left => h \notin up
      BY <1>1, <2>2 DEF CallsInvariant, Tried, Reaches
    <3>2. /\ UNCHANGED up /\ call'["bot"].hub = cursor' /\ cursor' = Advanced(cursor)
          /\ call'["bot"].left = call["bot"].left - 1
      BY <1>1, <2>2, <3>1, FailoverFacts
    <3>3. call["bot"].left \in Nat /\ N \in Nat /\ cursor \in Hubs
      BY HubsAssumption DEF CallsInvariant, CallsTyped, Call, Users
    <3>4. ASSUME NEW h \in Hubs, Distance(h)' > call'["bot"].left
          PROVE  h \notin up
      <4>1. CASE h = cursor
        BY <3>1, <4>1
      <4>2. CASE h # cursor
        <5>1. Distance(h) \in 0..(N - 1) /\ Distance(h)' = Distance(h) - 1
          BY <3>2, <3>3, <4>2, DistanceFacts
        <5>2. Distance(h) > call["bot"].left
          BY <3>2, <3>3, <3>4, <5>1
        <5>. QED BY <3>1, <5>2
      <4>. QED BY <4>1, <4>2
    <3>. QED BY <3>1, <3>2, <3>3, <3>4
  <2>. QED BY <2>1, <2>2 DEF Tried
<1>. QED BY <1>1, <1>2, <1>3, <1>6, FailoverFacts DEF CallsInvariant

\* A user makes a call.
LEMMA BeginStep ==
  ASSUME CallsInvariant, BotStep \/ PollStep \/ Probe
  PROVE  CallsInvariant'
<1>0. /\ call \in [Users -> Call] /\ cursor \in Hubs /\ Hubs \subseteq Nat /\ N \in Nat \ {0}
      /\ "bot" \in Users /\ "poll" \in Users /\ "ws" \in Users
  BY HubsAssumption DEF CallsInvariant, CallsTyped, Users, Hubs
<1>1. /\ Asking(cursor) \in Call /\ Asking(cursor).on /\ Asking(cursor).hub = cursor
      /\ Asking(cursor).left = N - 1
  <2>1. N - 1 \in Nat /\ cursor \in Nat
    BY <1>0
  <2>2. None \in Call
    BY DEF None, Call
  <2>. QED BY <2>1, <2>2 DEF Asking, Call
<1>2. UNCHANGED <<up, rows, cursor, bot, commands, late, done, lost, mark, fresh, alerted>>
  BY DEF BotStep, PollStep, Probe, hubs, requests, world, command, polling
<1>3. PICK k \in Users :
        /\ call' = [call EXCEPT ![k] = Asking(cursor)]
        /\ k = "bot" => bot # <<>> /\ alone' /\ ~call["bot"].on
        /\ k # "bot" => UNCHANGED alone
  BY <1>0 DEF BotStep, PollStep, Probe, Begin, world
<1>4. CallsTyped'
  BY <1>0, <1>1, <1>2, <1>3 DEF CallsInvariant, CallsTyped
<1>5. Accounted'
  <2>1. k # "bot" => call'["bot"] = call["bot"]
    BY <1>0, <1>3
  <2>. QED BY <1>2, <1>3, <2>1, AccountedKept
<1>6. Tried'
  <2>1. CASE k = "bot"
    <3>1. /\ call'["bot"].hub = cursor' /\ call'["bot"].left = N - 1 /\ bot' # <<>>
      BY <1>0, <1>1, <1>2, <1>3, <2>1
    <3>2. \A h \in Hubs : Distance(h)' <= N - 1
      BY <1>0, <1>2 DEF Distance, Hubs
    <3>3. \A h \in Hubs : Distance(h)' \in Int
      BY <1>0, <1>2 DEF Distance, Hubs
    <3>4. N - 1 < N
      BY <1>0
    <3>5. \A h \in Hubs : ~(Distance(h)' > call'["bot"].left)
      BY <1>0, <3>1, <3>2, <3>3
    <3>. QED BY <3>1, <3>4, <3>5 DEF Tried
  <2>2. CASE k # "bot"
    BY <1>0, <1>2, <1>3, <2>2, TriedKept
  <2>. QED BY <2>1, <2>2
<1>7. Marked' /\ NoReplay'
  <2>1. /\ poll' \in {"start", "seed"} => poll \in {"start", "seed"}
        /\ poll' = "alert" => poll = "alert"
    BY DEF BotStep, PollStep, Probe, polling
  <2>. QED BY <1>2, <2>1 DEF CallsInvariant, Marked, NoReplay
<1>. QED BY <1>4, <1>5, <1>6, <1>7 DEF CallsInvariant

\* The oldest of the rows is alerted.
LEMMA AlertRowStep ==
  ASSUME CallsInvariant, AlertRow
  PROVE  CallsInvariant'
<1>0. /\ fresh \in Seq(Hubs \X Nat) /\ fresh # <<>> /\ alerted \in [Hubs -> Nat] /\ mark \in Nat
      /\ alerted' = [alerted EXCEPT ![Head(fresh)[1]] = Head(fresh)[2]] /\ fresh' = Tail(fresh)
      /\ poll' = (IF Tail(fresh) = <<>> THEN "sleep" ELSE "alert")
      /\ UNCHANGED <<up, rows, alone, cursor, call, bot, commands, late, done, lost, mark>>
  BY DEF CallsInvariant, CallsTyped, Marked, AlertRow, world, hubs, requests, command
<1>1. /\ Len(fresh) \in Nat \ {0} /\ Head(fresh) = fresh[1] /\ DOMAIN fresh = 1..Len(fresh)
      /\ \A i \in DOMAIN fresh : fresh[i] \in Hubs \X Nat
  BY <1>0, TailIs
<1>2. /\ fresh' \in Seq(Hubs \X Nat) /\ DOMAIN fresh' = 1..(Len(fresh) - 1)
      /\ \A i \in DOMAIN fresh' : fresh'[i] = fresh[i + 1] /\ i + 1 \in DOMAIN fresh
  <2>1. Tail(fresh) \in Seq(Hubs \X Nat) /\ DOMAIN Tail(fresh) = 1..(Len(fresh) - 1)
        /\ \A i \in 1..(Len(fresh) - 1) : Tail(fresh)[i] = fresh[i + 1]
    BY <1>0, TailIs
  <2>2. fresh' = Tail(fresh)
    BY <1>0
  <2>3. \A i \in 1..(Len(fresh) - 1) : i + 1 \in 1..Len(fresh)
    BY <1>1
  <2>4. DOMAIN fresh = 1..Len(fresh)
    BY <1>1
  <2>. QED BY <2>1, <2>2, <2>3, <2>4, Zenon
<1>. DEFINE h == fresh[1][1]
            r == fresh[1][2]
<1>3. /\ h \in Hubs /\ r \in Nat /\ alerted' = [alerted EXCEPT ![h] = r]
      /\ 1 \in DOMAIN fresh
  <2>1. 1 \in DOMAIN fresh /\ fresh[1] \in Hubs \X Nat
    BY <1>1
  <2>. QED BY <1>0, <1>1, <2>1
<1>4. r <= mark /\ \A i \in DOMAIN fresh' : r < fresh'[i][2] /\ fresh'[i][2] <= mark
  <2>1. \A i \in DOMAIN fresh : fresh[i][2] <= mark
    BY DEF CallsInvariant, Marked
  <2>2. \A i \in DOMAIN fresh : 1 < i => fresh[1][2] < fresh[i][2]
    BY <1>3 DEF CallsInvariant, NoReplay
  <2>. QED BY <1>2, <1>3, <2>1, <2>2
<1>5. \A i \in DOMAIN fresh' : fresh'[i][2] > alerted[fresh'[i][1]] /\ fresh'[i][1] \in Hubs
  BY <1>1, <1>2 DEF CallsInvariant, NoReplay
<1>. HIDE DEF h, r
<1>6. Marked'
  <2>1. \A g \in Hubs : alerted'[g] <= mark'
    BY <1>0, <1>3, <1>4 DEF CallsInvariant, Marked
  <2>. QED BY <1>0, <1>4, <2>1 DEF Marked
<1>7. NoReplay'
  <2>1. \A i \in DOMAIN fresh' : fresh'[i][2] > alerted'[fresh'[i][1]]
    <3>. SUFFICES ASSUME NEW i \in DOMAIN fresh' PROVE fresh'[i][2] > alerted'[fresh'[i][1]]
      OBVIOUS
    <3>1. fresh'[i][1] \in Hubs /\ fresh'[i][2] > alerted[fresh'[i][1]] /\ r < fresh'[i][2]
      BY <1>4, <1>5
    <3>. QED BY <1>0, <1>3, <3>1
  <2>2. \A i, j \in DOMAIN fresh' : i < j => fresh'[i][2] < fresh'[j][2]
    <3>1. \A i, j \in DOMAIN fresh : i < j => fresh[i][2] < fresh[j][2]
      BY DEF CallsInvariant, NoReplay
    <3>2. \A i, j \in DOMAIN fresh' : i < j => i + 1 < j + 1
      BY <1>1, <1>2
    <3>. QED BY <1>2, <3>1, <3>2
  <2>. QED BY <2>1, <2>2 DEF NoReplay
<1>8. CallsTyped' /\ Accounted'
  BY <1>0, <1>2, <1>3, AccountedKept DEF CallsInvariant, CallsTyped
<1>9. Tried'
  BY <1>0, TriedKept
<1>. QED BY <1>6, <1>7, <1>8, <1>9 DEF CallsInvariant

\* The hub carries a command out.
LEMMA CarryStep ==
  ASSUME CallsInvariant, Carry
  PROVE  CallsInvariant'
<1>0. /\ call \in [Users -> Call] /\ "bot" \in Users
      /\ call' = [call EXCEPT !["bot"].did = TRUE] /\ done' = done \union {Attempt}
      /\ call["bot"].on /\ Posting("bot")
      /\ UNCHANGED <<up, rows, alone, cursor, bot, commands, late, lost, poll, mark, fresh, alerted>>
  BY DEF CallsInvariant, CallsTyped, Users, Carry, Reaches, hubs, command, polling
<1>1. call["bot"] \in Call
  BY <1>0
<1>2. /\ call'["bot"].on = call["bot"].on /\ call'["bot"].hub = call["bot"].hub
      /\ call'["bot"].left = call["bot"].left /\ call' \in [Users -> Call]
  BY <1>0, <1>1 DEF Call
<1>3. Tried'
  BY <1>0, <1>2, TriedKept
<1>4. /\ Attempt \in Attempts /\ Len(bot) \in Nat /\ commands \in Nat
      /\ Attempt[1] = commands /\ Attempt[2] = Len(bot)
  BY AttemptTyped DEF CallsInvariant, CallsTyped
<1>5. Attempt' = Attempt /\ call'["bot"].on /\ Posting("bot")'
  BY <1>0, <1>2 DEF Attempt, Posting
<1>6. ASSUME NEW a \in done \ lost
      PROVE  Past(a)' \/ a = Attempt
  BY <1>0 DEF CallsInvariant, Accounted, Past
<1>7. ASSUME NEW a \in done \ lost, SameCall(a, Attempt) \/ SameCall(Attempt, a)
      PROVE  a = Attempt
  <2>1. a[1] = commands /\ a[2] = Len(bot)
    BY <1>4, <1>7 DEF SameCall
  <2>2. ~Past(a)
    BY <1>4, <2>1 DEF Past
  <2>. QED BY <2>2 DEF CallsInvariant, Accounted
<1>8. Accounted'
  <2>1. \A l \in late' : l[2] \in lost'
    BY <1>0 DEF CallsInvariant, Accounted
  <2>2. TwiceOnlyIfLost'
    BY <1>0, <1>7 DEF CallsInvariant, Accounted, TwiceOnlyIfLost
  <2>. QED BY <1>0, <1>5, <1>6, <2>1, <2>2 DEF Accounted
<1>. QED BY <1>0, <1>2, <1>3, <1>4, <1>8 DEF CallsInvariant, CallsTyped, Marked, NoReplay

\* A hub carries out what was given up on.
LEMMA LateStep ==
  ASSUME CallsInvariant, NEW h, NEW a, LateCarry(h, a)
  PROVE  CallsInvariant'
<1>0. /\ <<h, a>> \in late /\ late' = late \ {<<h, a>>} /\ done' = done \union {a}
      /\ UNCHANGED <<up, rows, alone, cursor, call, bot, commands, lost, poll, mark, fresh, alerted>>
  BY DEF LateCarry, hubs, command, polling
<1>1. a \in lost
  <2>1. <<h, a>>[2] = a
    OBVIOUS
  <2>. QED BY <1>0, <2>1 DEF CallsInvariant, Accounted
<1>2. Accounted'
  <2>1. done' \ lost' = done \ lost
    BY <1>0, <1>1
  <2>2. /\ Attempt' = Attempt /\ (Posting("bot")' <=> Posting("bot"))
        /\ \A b : Past(b)' <=> Past(b)
    BY <1>0 DEF Attempt, Posting, Past
  <2>3. TwiceOnlyIfLost'
    BY <2>1 DEF CallsInvariant, Accounted, TwiceOnlyIfLost
  <2>4. \A l \in late' : l[2] \in lost'
    BY <1>0 DEF CallsInvariant, Accounted
  <2>5. \A b \in done' \ lost' : Past(b)' \/ (b = Attempt' /\ call'["bot"].on /\ Posting("bot")')
    BY <1>0, <2>1, <2>2 DEF CallsInvariant, Accounted
  <2>. QED BY <2>3, <2>4, <2>5 DEF Accounted
<1>3. CallsTyped'
  <2>1. a \in Attempts
    BY <1>1 DEF CallsInvariant, CallsTyped
  <2>. QED BY <1>0, <2>1 DEF CallsInvariant, CallsTyped
<1>4. Tried'
  BY <1>0, TriedKept
<1>. QED BY <1>0, <1>2, <1>3, <1>4 DEF CallsInvariant, Marked, NoReplay

\* What a handler may call.
LEMMA CommandsTyped == Commands \subseteq Seq({"get", "post"})
BY DEF Commands, CmdRunmacro, CmdRunbook, OnCallback, CmdStatus, CmdNodes, CmdUptime, CmdTelemetry,
       CmdReboot, CmdSysrq, CmdEvents, CmdLog, CmdSearch, CmdPing, CmdBulk, CmdMacros, CmdRunbooks,
       CmdHubs, CmdHub, NodePicker, NodeAction, NodeDetail, MainMenu, OnlineIds

\* A command is given, or a source chosen, while the bot makes no call.
LEMMA CommandStep ==
  ASSUME CallsInvariant, Command \/ \E h \in Hubs : Source(h)
  PROVE  CallsInvariant'
<1>1. /\ ~call["bot"].on /\ cursor' \in Hubs /\ commands' = commands + 1
      /\ UNCHANGED <<up, rows, alone, call, late, done, lost, poll, mark, fresh, alerted>>
  BY DEF CallsInvariant, CallsTyped, Tried, Command, Source, world, hubs, requests, polling
<1>2. bot' \in Seq({"get", "post"})
  <2>1. CASE Command
    BY <2>1, CommandsTyped DEF Command
  <2>2. CASE \E h \in Hubs : Source(h)
    <3>1. bot' \in {<<>>, <<"get">>}
      BY <2>2 DEF Source
    <3>2. <<>> \in Seq({"get", "post"}) /\ <<"get">> \in Seq({"get", "post"})
      OBVIOUS
    <3>. QED BY <3>1, <3>2
  <2>. QED BY <2>1, <2>2
<1>3. ASSUME NEW a \in done \ lost PROVE Past(a)'
  <2>1. Past(a) /\ commands \in Nat /\ a \in Nat \X Nat \X Nat
    BY <1>1 DEF CallsInvariant, Accounted, CallsTyped, Attempts
  <2>2. a[1] \in Nat /\ a[1] <= commands
    BY <2>1 DEF Past
  <2>. QED BY <1>1, <2>1, <2>2 DEF Past
<1>4. Accounted'
  <2>1. \A l \in late' : l[2] \in lost'
    BY <1>1 DEF CallsInvariant, Accounted
  <2>. QED BY <1>1, <1>3, <2>1, AccountedOver
<1>5. CallsTyped'
  BY <1>1, <1>2 DEF CallsInvariant, CallsTyped
<1>6. Marked' /\ NoReplay' /\ Tried'
  BY <1>1 DEF CallsInvariant, Marked, NoReplay, Tried
<1>. QED BY <1>4, <1>5, <1>6 DEF CallsInvariant

\* The stream is dialled, or opens.
LEMMA StreamStep ==
  ASSUME CallsInvariant, Dial \/ Opens
  PROVE  CallsInvariant'
<1>1. UNCHANGED <<up, rows, alone, cursor, call, bot, commands, late, done, lost, poll, mark, fresh,
                  alerted>>
  BY DEF Dial, Opens, world, hubs, requests, command, polling
<1>. QED BY <1>1, AccountedKept DEF CallsInvariant, CallsTyped, Marked, NoReplay, Tried, Distance

\* A hub dies, comes up, or writes a row.
LEMMA HubStep ==
  ASSUME CallsInvariant, NEW h \in Hubs, Crash(h) \/ Boot(h) \/ NewRow(h)
  PROVE  CallsInvariant'
<1>0. call \in [Users -> Call] /\ "bot" \in Users /\ rows \in [Hubs -> Nat]
  BY DEF CallsInvariant, CallsTyped, Users
<1>1. /\ up' \subseteq Hubs /\ rows' \in [Hubs -> Nat] /\ (~alone' \/ UNCHANGED <<up, call, alone>>)
      /\ alone' \in BOOLEAN
      /\ UNCHANGED <<cursor, bot, commands, done, lost, poll, mark, fresh, alerted>>
      /\ late' \subseteq late
  <2>1. CASE Crash(h)
    BY <2>1 DEF CallsInvariant, CallsTyped, Crash, command, polling
  <2>2. CASE Boot(h)
    BY <2>2 DEF CallsInvariant, CallsTyped, Boot, requests, command, polling
  <2>3. CASE NewRow(h)
    <3>1. rows' = [rows EXCEPT ![h] = @ + 1]
      BY <2>3 DEF NewRow
    <3>2. rows' \in [Hubs -> Nat]
      BY <1>0, <3>1
    <3>. QED BY <2>3, <3>2 DEF CallsInvariant, CallsTyped, NewRow, requests, command, polling
  <2>. QED BY <2>1, <2>2, <2>3
<1>2. /\ call' \in [Users -> Call]
      /\ \A k \in Users : call'[k].on = call[k].on /\ call'[k].left = call[k].left
  <2>1. CASE UNCHANGED call
    BY <1>0, <2>1
  <2>2. CASE call' = [k \in Users |-> IF call[k].hub = h THEN [call[k] EXCEPT !.hub = 0] ELSE call[k]]
    <3>1. \A k \in Users : call[k] \in Call
      BY <1>0
    <3>2. \A c \in Call : [c EXCEPT !.hub = 0] \in Call
      BY DEF Call
    <3>. QED BY <2>2, <3>1, <3>2 DEF Call
  <2>. QED BY <2>1, <2>2 DEF Crash, Boot, NewRow
<1>3. Tried'
  BY <1>0, <1>1, <1>2 DEF CallsInvariant, Tried, Distance
<1>4. Accounted'
  BY <1>0, <1>1, <1>2, AccountedKept
<1>. QED BY <1>1, <1>2, <1>3, <1>4 DEF CallsInvariant, CallsTyped, Marked, NoReplay

\* At the start no call was made.
LEMMA CallsInitFacts == CallsInit => CallsInvariant
<1>. SUFFICES ASSUME CallsInit PROVE CallsInvariant
  OBVIOUS
<1>1. None \in Call /\ N \in Nat \ {0} /\ "bot" \in Users
  BY HubsAssumption DEF None, Call, Users
<1>2. CallsTyped
  <2>1. <<>> \in Seq(Hubs \X Nat) /\ 1 \in Hubs /\ <<>> \in Seq({"get", "post"})
    BY <1>1 DEF Hubs
  <2>. QED BY <1>1, <2>1 DEF CallsInit, CallsTyped
<1>3. Accounted /\ Tried /\ NoReplay /\ Marked
  BY <1>1 DEF CallsInit, None, Accounted, TwiceOnlyIfLost, Tried, NoReplay, Marked
<1>. QED BY <1>2, <1>3 DEF CallsInvariant

\* Every step keeps the invariant.
LEMMA CallsNextFacts == CallsInvariant /\ [CallsNext]_callsVars => CallsInvariant'
<1>. SUFFICES ASSUME CallsInvariant, [CallsNext]_callsVars PROVE CallsInvariant'
  OBVIOUS
<1>1. CASE UNCHANGED callsVars
  <2>1. UNCHANGED <<up, rows, cursor, call, bot, commands, late, done, lost, poll, mark, fresh, alerted,
                    alone>>
    BY <1>1 DEF callsVars
  <2>. QED BY <2>1, AccountedKept DEF CallsInvariant, CallsTyped, Marked, NoReplay, Tried, Distance
<1>2. CASE \E k \in Users : CallEnds(k) \/ ReadTimeout(k)
  BY <1>2, AnswerStep, FailStep DEF CallEnds
<1>3. CASE BotStep \/ PollStep \/ Probe
  BY <1>3, BeginStep
<1>4. CASE AlertRow \/ Carry \/ Command \/ Dial \/ Opens
  BY <1>4, AlertRowStep, CarryStep, CommandStep, StreamStep
<1>5. CASE \E h \in Hubs : Source(h) \/ Crash(h) \/ Boot(h) \/ NewRow(h)
  BY <1>5, CommandStep, HubStep
<1>6. {"bot", "ws", "poll"} = Users
  BY DEF Users
<1>7. CASE \E l \in late : LateCarry(l[1], l[2])
  BY <1>7, LateStep
<1>. QED BY <1>1, <1>2, <1>3, <1>4, <1>5, <1>6, <1>7 DEF CallsNext, WsSteps, PollSteps, HandlerSteps, Inputs

LEMMA CallsInvariantHolds == CallsSpec => []CallsInvariant
BY CallsInitFacts, CallsNextFacts, PTL DEF CallsSpec

\* Of the attempts at which a hub has carried a POST out, also late, at most one was not
\* given up on (FailoverHub repeats a POST after timeouts and broken connections, and after
\* nothing else).
THEOREM TwiceOnlyIfLostHolds == CallsSpec => []TwiceOnlyIfLost
<1>1. CallsInvariant => TwiceOnlyIfLost
  BY DEF CallsInvariant, Accounted
<1>. QED BY <1>1, CallsInvariantHolds, PTL

\* No row of a hub is alerted twice, however the polls move between the hubs.
THEOREM NoReplayHolds == CallsSpec => []NoReplay
<1>1. CallsInvariant => NoReplay
  BY DEF CallsInvariant
<1>. QED BY <1>1, CallsInvariantHolds, PTL

\* An undisturbed call gives up only when no hub is up: it went round all of them.
THEOREM LoneCallAnsweredHolds == CallsSpec => LoneCallAnswered
<1>1. ASSUME CallsInvariant, CallsNext, GivesUp
      PROVE  up = {}
  <2>0. call \in [Users -> Call] /\ "bot" \in Users /\ cursor \in Hubs /\ up \subseteq Hubs
    BY <1>1 DEF CallsInvariant, CallsTyped, Users
  <2>1. Failover("bot")
    <3>1. CASE \E k \in Users : Answer(k) \/ Refuse(k)
      <4>1. PICK k \in Users : /\ Reaches(k) \/ call[k].hub = 0
                              /\ call' = [call EXCEPT ![k] = None]
        BY <3>1 DEF Answer, Refuse, Raises, Returned
      <4>2. k # "bot"
        <5>1. call["bot"].hub = cursor /\ cursor # 0
          BY <1>1, <2>0 DEF GivesUp, CallsInvariant, Tried, Hubs
        <5>. QED BY <1>1, <4>1, <5>1 DEF GivesUp
      <4>. QED BY <1>1, <2>0, <4>1, <4>2 DEF GivesUp
    <3>2. CASE \E k \in Users : ConnFails(k) \/ ReadTimeout(k)
      <4>1. PICK k \in Users : ConnFails(k) \/ ReadTimeout(k)
        BY <3>2
      <4>2. Failover(k) /\ call[k].on
        BY <4>1 DEF ConnFails, ReadTimeout, Reaches
      <4>3. CASE k # "bot"
        <5>1. call'["bot"] = call["bot"]
          BY <2>0, <4>2, <4>3 DEF Failover, Returned
        <5>. QED BY <1>1, <5>1 DEF GivesUp
      <4>. QED BY <4>2, <4>3
    <3>3. CASE BotStep \/ PollStep \/ Probe
      <4>1. PICK k \in Users : call' = [call EXCEPT ![k] = Asking(cursor)]
        BY <3>3 DEF BotStep, PollStep, Probe, Begin, Users
      <4>2. Asking(cursor).on
        BY DEF Asking, None
      <4>. QED BY <1>1, <2>0, <4>1, <4>2 DEF GivesUp
    <3>4. CASE Carry
      <4>1. call["bot"] \in Call
        BY <2>0
      <4>. QED BY <1>1, <2>0, <3>4, <4>1 DEF Carry, GivesUp, Call
    <3>5. CASE AlertRow \/ Command \/ Dial \/ Opens \/ \E h \in Hubs : Source(h) \/ Boot(h) \/ NewRow(h)
      <4>1. UNCHANGED call
        BY <3>5 DEF AlertRow, Command, Dial, Opens, Source, Boot, NewRow
      <4>. QED BY <1>1, <4>1 DEF GivesUp
    <3>6. CASE \E h \in Hubs : Crash(h)
      <4>1. PICK h \in Hubs :
              call' = [k \in Users |-> IF call[k].hub = h THEN [call[k] EXCEPT !.hub = 0] ELSE call[k]]
        BY <3>6 DEF Crash
      <4>2. call["bot"] \in Call
        BY <2>0
      <4>3. call'["bot"].on = call["bot"].on
        BY <2>0, <4>1, <4>2 DEF Call
      <4>. QED BY <1>1, <4>3 DEF GivesUp
    <3>7. {"bot", "ws", "poll"} = Users
      BY DEF Users
    <3>8. CASE \E l \in late : LateCarry(l[1], l[2])
      <4>1. UNCHANGED call
        BY <3>8 DEF LateCarry
      <4>. QED BY <1>1, <4>1 DEF GivesUp
    <3>. QED BY <1>1, <3>1, <3>2, <3>3, <3>4, <3>5, <3>6, <3>7, <3>8
             DEF CallsNext, WsSteps, PollSteps, HandlerSteps, Inputs, CallEnds
  <2>2. call["bot"].left = 0
    BY <1>1, <2>0, <2>1, FailoverFacts DEF GivesUp
  <2>3. /\ call["bot"].hub = cursor /\ cursor \notin up
        /\ \A h \in Hubs : Distance(h) > 0 => h \notin up
    BY <1>1, <2>2 DEF GivesUp, Reaches, CallsInvariant, Tried
  <2>4. \A h \in Hubs : h # cursor => Distance(h) > 0
    <3>1. cursor \in 1..N /\ N \in Nat /\ Hubs = 1..N
      BY <2>0, HubsAssumption DEF Hubs
    <3>. QED BY <3>1 DEF Distance
  <2>. QED BY <2>0, <2>3, <2>4
<1>2. CallsInvariant /\ [CallsNext]_callsVars => [GivesUp => up = {}]_callsVars
  BY <1>1
<1>. QED BY <1>2, CallsInvariantHolds, PTL DEF CallsSpec, LoneCallAnswered
=============================================================================
