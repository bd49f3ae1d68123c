------------------------- MODULE CommandPathProofs -------------------------
(***************************************************************************)
(* For any number of commands, connections, printed lines and errors, any  *)
(* payload, budget and bound of the queue: the accounting of the serial    *)
(* writes is exact, a row says done only for what the target has had, a    *)
(* line is stored once and in order, and a listing is complete.            *)
(***************************************************************************)
EXTENDS CommandPath, FiniteSetTheorems, TLAPS

\* A queue of the back-channel holds sends of the newest connection, each in one piece,
\* and what the target does not have of them.
Sends(i) == commands[i].kind \in {"send", "bridge"}
Queued ==
  /\ \A p \in DOMAIN tx : /\ Sends(tx[p]) /\ commands[tx[p]].conn = Newest
                          /\ target[tx[p]] + Bytes(Len(tx), tx[p]) = Payload
  /\ \A p, q, r \in DOMAIN tx : p < q /\ q < r /\ tx[p] = tx[r] => tx[q] = tx[p]

\* A command is on one way to the board, once, and has had no effect yet.
Fresh(i) == target[i] = 0 /\ \A p \in DOMAIN tx : tx[p] # i
OnTheWay ==
  /\ \A c \in Conns : c < Newest => conns[c].closed
  /\ \A i \in Commands : commands[i].conn \in Conns
  /\ \A c \in Conns : \A p \in DOMAIN conns[c].down : commands[conns[c].down[p]].conn = c
  /\ \A p \in DOMAIN conns[Newest].down : Fresh(conns[Newest].down[p])
  /\ \A p, q \in DOMAIN conns[Newest].down :
       conns[Newest].down[p] = conns[Newest].down[q] => p = q
  /\ \A i \in Commands : commands[i].at = "insert" =>
       Fresh(i) /\ \A p \in DOMAIN conns[Newest].down : conns[Newest].down[p] # i
  /\ \A i \in 1..MaxCommands : i > Len(commands) => target[i] = 0

\* An "ok" is on its way only when the target has had all of the command.
Earned(m) == m.cmd # 0 /\ m.ok => target[m.cmd] = Size(m.cmd)
Deferred ==
  \A c \in Conns : /\ \A p \in DOMAIN conns[c].up : Earned(conns[c].up[p])
                   /\ Earned(conns[c].got)

\* A connection carries output and the results of its own commands.
Own(m, c) == IF m.cmd = 0 THEN Len(m.lines) = 1 ELSE commands[m.cmd].conn = c
Carried ==
  \A c \in Conns :
    /\ \A p \in DOMAIN conns[c].up : Own(conns[c].up[p], c)
    /\ IF conns[c].at \in {"complete", "store"}
       THEN conns[c].got.cmd # 0 /\ commands[conns[c].got.cmd].conn = c
       ELSE conns[c].got = Nothing

\* The lines of a connection that are stored, that its handler has, and that are to come.
Stored(c) == {row[2] : row \in {row \in Received : row[1] = c}}
             \union UNION {Range(r[2]) : r \in {r \in results : commands[r[1]].conn = c}}
Handled(c) == Range(conns[c].got.lines)
Coming(c) == UNION {Range(conns[c].up[p].lines) : p \in DOMAIN conns[c].up}
Known(c) == Stored(c) \union Handled(c) \union Coming(c)

Below(S, T) == \A l \in S, m \in T : l < m

\* The lines come in the order in which they were printed.
InTurn ==
  /\ \A row \in Received : row[1] \in Conns
  /\ \A c \in Conns :
       /\ Below(Stored(c), Handled(c)) /\ Below(Stored(c) \union Handled(c), Coming(c))
       /\ \A p, q \in DOMAIN conns[c].up :
            p < q => Below(Range(conns[c].up[p].lines), Range(conns[c].up[q].lines))
       /\ Below(Known(c), Range(console)) /\ Known(c) \subseteq 1..printed
  /\ \A c, d \in Conns : c < d => Below(Known(c), Known(d))
  /\ Range(console) \subseteq 1..printed
  /\ \A p, q \in DOMAIN console : p < q => console[p] < console[q]

\* A request for output has one step in the database thread, behind what it needs.
Plans == {<<>>, <<"flush", "list">>, <<"flush", "start", "list">>, <<"start", "list">>, <<"list">>}
InFront(j) == {row \in Rows : \E k \in 1..j : row \in Range(db[k].rows)}
Requested ==
  /\ request \in Plans
  /\ \A j \in DOMAIN db :
       /\ db[j].by \in {"start", "list"} => db[j].rows = <<>>
       /\ db[j].by # "flusher" =>
            /\ request # <<>> /\ db[j].by = Head(request)
            /\ \A k \in DOMAIN db : db[k].by # "flusher" => k = j
            /\ need \subseteq Range(log) \union lost \union InFront(j)

PathInvariant ==
  /\ TypeOK /\ Queued /\ OnTheWay /\ OkMeansDone /\ Deferred
  /\ Carried /\ InTurn /\ OutputOnce /\ Requested
-----------------------------------------------------------------------------
(* How often a command is in a part of the queue.                          *)

Count(s, n, i) == Cardinality({p \in 1..n : s[p] = i})

\* A part has none, or at most as many as it is long.
LEMMA CountIs ==
  ASSUME NEW s, NEW n \in Nat, NEW i
  PROVE  /\ IsFiniteSet({p \in 1..n : s[p] = i})
         /\ Count(s, n, i) \in 0..n
         /\ Count(s, n, i) = 0 <=> \A p \in 1..n : s[p] # i
<1> DEFINE S == {p \in 1..n : s[p] = i}
<1>1. IsFiniteSet(1..n) /\ Cardinality(1..n) = n
  BY FS_Interval
<1>2. S \in SUBSET (1..n)
  OBVIOUS
<1>3. IsFiniteSet(S) /\ Cardinality(S) <= n
  BY <1>1, <1>2, FS_Subset
<1>4. Cardinality(S) \in Nat
  BY <1>3, FS_CardinalityType
<1>5. Cardinality(S) = 0 <=> S = {}
  BY <1>3, FS_EmptySet
<1>. QED BY <1>3, <1>4, <1>5 DEF Count

\* What is cut off at the front is not at the back.
Behind(s, a, t, n) == \A p \in 1..n : t[p] = s[a + p]
\* What is counted in a queue is counted in its front and in its back.
LEMMA CountSplit ==
  ASSUME NEW s, NEW t, NEW a \in Nat, NEW n \in Nat, NEW i, Behind(s, a, t, n)
  PROVE  Count(s, a + n, i) = Count(s, a, i) + Count(t, n, i)
<1> DEFINE R == {p \in 1..a : s[p] = i}
           S == {p \in 1..n : t[p] = i}
           T == {p \in (a + 1)..(a + n) : s[p] = i}
           f == [p \in S |-> a + p]
<1>0. \A p \in 1..n : t[p] = s[a + p]
  BY DEF Behind
<1>1. f \in [S -> T]
  BY <1>0
<1>2. f \in Injection(S, T)
  <2>1. \A p, q \in S : f[p] = f[q] => p = q
    OBVIOUS
  <2>. QED BY <1>1, <2>1 DEF Injection, IsInjective
<1>3. f \in Surjection(S, T)
  <2>1. ASSUME NEW q \in T PROVE \E p \in S : f[p] = q
    <3>1. q - a \in 1..n /\ a + (q - a) = q
      OBVIOUS
    <3>2. q - a \in S
      BY <1>0, <3>1
    <3>. QED BY <3>1, <3>2
  <2>. QED BY <1>1, <2>1 DEF Surjection
<1>4. ExistsBijection(S, T)
  BY <1>2, <1>3 DEF ExistsBijection, Bijection
<1>5. IsFiniteSet(R) /\ IsFiniteSet(S)
  <2>1. R \in SUBSET (1..a) /\ S \in SUBSET (1..n)
    OBVIOUS
  <2>2. IsFiniteSet(1..a) /\ IsFiniteSet(1..n)
    BY FS_Interval
  <2>. QED BY <2>1, <2>2, FS_Subset, Zenon
<1>6. IsFiniteSet(T) /\ Cardinality(T) = Cardinality(S)
  BY <1>4, <1>5, FS_Bijection, Zenon
<1>7. Cardinality(R \union T) = Cardinality(R) + Cardinality(T) - Cardinality(R \cap T)
  BY <1>5, <1>6, FS_Union
<1>8. R \cap T = {} /\ R \union T = {p \in 1..(a + n) : s[p] = i}
  OBVIOUS
<1>9. Cardinality(R \cap T) = 0
  BY <1>8, FS_EmptySet
<1>10. Count(t, n, i) \in 0..n /\ Count(s, a, i) \in 0..a
  BY CountIs, Zenon
<1>11. Count(s, a + n, i) = Cardinality(R \union T)
  BY <1>8, Zenon DEF Count
<1>12. Count(s, a, i) = Cardinality(R) /\ Count(t, n, i) = Cardinality(S)
  BY Zenon DEF Count
<1>. QED BY <1>6, <1>7, <1>9, <1>10, <1>11, <1>12

\* Nothing but it.
LEMMA CountAll ==
  ASSUME NEW s, NEW n \in Nat, NEW i, \A p \in 1..n : s[p] = i
  PROVE  Count(s, n, i) = n
<1>1. {p \in 1..n : s[p] = i} = 1..n
  OBVIOUS
<1>2. Cardinality(1..n) = n
  BY FS_Interval
<1>. QED BY <1>1, <1>2, Zenon DEF Count

Less == {p \in Nat \X Nat : p[1] < p[2]}

\* The order of the numbers is well founded, by the library.
LEMMA LessWellFounded == IsWellFoundedOn(Less, Nat)
<1>1. OpToRel(<, Nat) = Less
  BY Zenon DEF OpToRel, Less
<1>. QED BY <1>1, NatLessThanWellFounded, Zenon

\* A command in one piece at the front of the queue takes its first places.
LEMMA FrontIs ==
  ASSUME NEW s, NEW n \in Nat \ {0},
         \A p, q, r \in 1..n : p < q /\ q < r /\ s[p] = s[r] => s[q] = s[p]
  PROVE  LET k == Count(s, n, s[1])
         IN k \in 1..n /\ \A p \in 1..n : s[p] = s[1] <=> p <= k
<1> DEFINE T == {p \in 1..(n + 1) : p = n + 1 \/ s[p] # s[1]}
<1>1. n + 1 \in T /\ T \subseteq Nat
  OBVIOUS
<1>2. PICK m \in T : \A p \in T : ~ (<<p, m>> \in Less)
  BY <1>1, LessWellFounded, WFMin
<1>3. \A p \in T : m <= p
  <2>1. \A p, q \in Nat : p < q => <<p, q>> \in Less
    BY DEF Less
  <2>2. \A p \in T : ~(p < m)
    BY <1>1, <1>2, <2>1, Zenon
  <2>. QED BY <1>1, <2>2
<1>4. m \in 2..(n + 1)
  OBVIOUS
<1>5. \A p \in 1..(m - 1) : s[p] = s[1]
  BY <1>3, <1>4
<1>6. \A p \in 1..n : p >= m => s[p] # s[1]
  <2>1. SUFFICES ASSUME NEW p \in 1..n, p >= m, s[p] = s[1] PROVE FALSE
    OBVIOUS
  <2>2. m # n + 1 /\ s[m] # s[1]
    BY <2>1, <1>4
  <2>3. m < p /\ 1 < m /\ m \in 1..n
    BY <2>1, <2>2, <1>4
  <2>. QED BY <2>1, <2>2, <2>3
<1>7. {p \in 1..n : s[p] = s[1]} = 1..(m - 1)
  BY <1>4, <1>5, <1>6
<1>8. Count(s, n, s[1]) = m - 1
  <2>1. Cardinality(1..(m - 1)) = m - 1
    BY <1>4, FS_Interval
  <2>. QED BY <1>7, <2>1, Zenon DEF Count
<1>. QED BY <1>4, <1>5, <1>6, <1>8
-----------------------------------------------------------------------------
(* Types.                                                                  *)

\* The type invariant in parts: the commands, the connections, the board,
Dispatched ==
  /\ commands \in Seq([kind : Kinds \union {"bridge"}, conn : 1..MaxConns,
                       at : {"insert", "fail", "over"}, row : {"none", "sent", "done", "failed"}])
  /\ Len(commands) <= MaxCommands
Linked == conns \in Seq(Connections) /\ Len(conns) \in 1..MaxConns /\ entry \in 0..Len(conns)
Boarded ==
  /\ on \in BOOLEAN /\ tx \in Seq(Commands) /\ pending = Len(tx)
  /\ console \in Seq(1..MaxOutput) /\ target \in [1..MaxCommands -> Nat]

\* the output, the results, and the bounds.
Logged ==
  /\ buf \in Seq(Rows) /\ log \in Seq(Rows) /\ lost \subseteq Rows /\ need \subseteq Rows
  /\ db \in Seq([by : {"flusher", "flush", "start", "list"}, rows : Seq(Rows)])
  /\ request \in Seq({"flush", "start", "list"})
Resulted == results \subseteq Commands \X Seq(1..MaxOutput)
Limited == printed \in 0..MaxOutput /\ faults \in 0..MaxFaults

\* The type invariant is its parts.
LEMMA TypeParts ==
  TypeOK <=> Dispatched /\ Linked /\ Boarded /\ Logged /\ Resulted /\ Limited
BY DEF TypeOK, Dispatched, Linked, Boarded, Logged, Resulted, Limited

LEMMA TypePartsNext ==
  Dispatched' /\ Linked' /\ Boarded' /\ Logged' /\ Resulted' /\ Limited' => TypeOK'
BY DEF TypeOK, Dispatched, Linked, Boarded, Logged, Resulted, Limited

\* No step forgets a command, or changes its kind or its connection.
Kept == \A i \in Commands : /\ i \in Commands' /\ commands'[i].kind = commands[i].kind
                            /\ commands'[i].conn = commands[i].conn

\* What is typed stays so while commands are added.
LEMMA TypesGrow ==
  ASSUME Dispatched, Kept, Dispatched'
  PROVE  /\ Commands \subseteq Commands' /\ Message \subseteq Message'
         /\ Connections \subseteq Connections'
<1>1. Len(commands) \in Nat /\ Len(commands)' \in Nat
  BY DEF Dispatched
<1>2. Commands \subseteq Commands'
  BY DEF Kept
<1>3. Len(commands) <= Len(commands)'
  BY <1>1, <1>2 DEF Commands
<1>4. 0..Len(commands) \subseteq 0..Len(commands)'
  BY <1>1, <1>3
<1>5. Message \subseteq Message'
  BY <1>4 DEF Message
<1>6. Seq(Commands) \subseteq Seq(Commands') /\ Seq(Message) \subseteq Seq(Message')
  BY <1>2, <1>5
<1>7. Connections \subseteq Connections'
  BY <1>5, <1>6 DEF Connections
<1>. QED BY <1>2, <1>5, <1>7

LEMMA LinkedKept ==
  ASSUME Dispatched, Kept, Dispatched', Linked, UNCHANGED <<conns, entry>>
  PROVE  Linked'
<1>1. Seq(Connections) \subseteq Seq(Connections')
  BY TypesGrow
<1>. QED BY <1>1 DEF Linked

LEMMA BoardedKept ==
  ASSUME Dispatched, Kept, Dispatched', Boarded, UNCHANGED board
  PROVE  Boarded'
<1>1. Seq(Commands) \subseteq Seq(Commands')
  BY TypesGrow
<1>. QED BY <1>1 DEF Boarded, board

LEMMA LoggedKept == ASSUME Logged, UNCHANGED output PROVE Logged'
BY DEF Logged, output, Rows

LEMMA ResultedKept ==
  ASSUME Dispatched, Kept, Dispatched', Resulted, UNCHANGED results
  PROVE  Resulted'
BY TypesGrow DEF Resulted

LEMMA FaultLimited == ASSUME Limited, Fault, UNCHANGED printed PROVE Limited'
BY CommandBoundsAssumption DEF Limited, Fault

\* A connection has its fields.
LEMMA ConnectionIs ==
  ASSUME Linked, NEW c \in Conns
  PROVE  /\ conns[c] \in Connections
         /\ conns[c].down \in Seq(Commands) /\ conns[c].up \in Seq(Message)
         /\ conns[c].got \in Message /\ conns[c].cut \in BOOLEAN /\ conns[c].closed \in BOOLEAN
         /\ Newest \in Conns /\ Newest \in Nat \ {0} /\ DOMAIN conns = Conns
<1>1. Len(conns) \in Nat \ {0} /\ DOMAIN conns = 1..Len(conns)
  BY CommandBoundsAssumption DEF Linked
<1>2. conns[c] \in Connections
  BY DEF Linked, Conns
<1>. QED BY <1>1, <1>2 DEF Connections, Conns, Newest

\* One connection changes.
LEMMA BecomesIs ==
  ASSUME Linked, Dispatched, Dispatched', Kept, NEW c \in Conns, NEW r \in Connections',
         Becomes(c, r), entry' \in 0..Len(conns)
  PROVE  /\ Linked' /\ Len(conns') = Len(conns) /\ Conns' = Conns /\ Newest' = Newest
         /\ conns'[c] = r
         /\ \A d \in Conns : d # c => conns'[d] = conns[d]
<1>1. conns \in Seq(Connections')
  BY TypesGrow DEF Linked
<1>2. conns' = [conns EXCEPT ![c] = r] /\ DOMAIN conns = 1..Len(conns) /\ Len(conns) \in Nat
  BY <1>1 DEF Becomes
<1>3. conns' \in Seq(Connections') /\ Len(conns') = Len(conns)
  BY <1>1, <1>2 DEF Conns
<1>. QED BY <1>2, <1>3 DEF Linked, Conns, Newest

\* Messages are lost or come behind the others.
LEMMA SentIs ==
  ASSUME Linked, NEW ms \in Seq(Message)
  PROVE  /\ Sent(ms) \in Seq(Message)
         /\ Sent(ms) = conns[Newest].up \/ Sent(ms) = conns[Newest].up \o ms
<1>1. conns[Newest].up \in Seq(Message)
  BY ConnectionIs, CommandBoundsAssumption DEF Linked, Newest, Conns
<1>. QED BY <1>1 DEF Sent

\* A queue shrinks at its front.
LEMMA TailIs ==
  ASSUME NEW S, NEW q \in Seq(S), q # <<>>
  PROVE  /\ Tail(q) \in Seq(S) /\ Len(q) \in Nat \ {0} /\ DOMAIN q = 1..Len(q)
         /\ Len(Tail(q)) = Len(q) - 1 /\ DOMAIN Tail(q) = 1..(Len(q) - 1)
         /\ Head(q) = q[1] /\ 1 \in DOMAIN q /\ Head(q) \in S
         /\ \A i \in 1..(Len(q) - 1) : Tail(q)[i] = q[i + 1]
OBVIOUS
-----------------------------------------------------------------------------
(* What each step does to the commands.                                    *)

Command == [kind : Kinds \union {"bridge"}, conn : 1..MaxConns,
            at : {"insert", "fail", "over"}, row : {"none", "sent", "done", "failed"}]

\* A command has its fields.
LEMMA CommandIs ==
  ASSUME Dispatched, NEW i \in Commands
  PROVE  /\ commands[i] \in Command /\ commands[i].at \in {"insert", "fail", "over"}
         /\ commands[i].conn \in 1..MaxConns
<1>1. commands \in Seq(Command)
  BY DEF Dispatched, Command
<1>2. commands[i] \in Command
  BY <1>1 DEF Commands
<1>. QED BY <1>2 DEF Command

\* A command is added.
LEMMA AppendKept ==
  ASSUME Dispatched, NEW e \in Command, commands' = Append(commands, e), Len(commands) < MaxCommands
  PROVE  /\ Dispatched' /\ Kept
         /\ Len(commands) \in Nat /\ Len(commands') = Len(commands) + 1
         /\ commands'[Len(commands) + 1] = e /\ \A i \in Commands : commands'[i] = commands[i]
<1>1. commands \in Seq(Command) /\ MaxCommands \in Nat
  BY CommandBoundsAssumption DEF Dispatched, Command
<1>2. /\ commands' \in Seq(Command) /\ Len(commands') = Len(commands) + 1 /\ Len(commands) \in Nat
      /\ commands'[Len(commands) + 1] = e
  BY <1>1
<1>3. Len(commands') <= MaxCommands
  BY <1>1, <1>2
<1>4. \A i \in Commands : commands'[i] = commands[i] /\ i \in Commands'
  BY <1>1, <1>2 DEF Commands
<1>5. Kept
  BY <1>4 DEF Kept
<1>6. Dispatched'
  BY <1>2, <1>3 DEF Dispatched, Command
<1>. QED BY <1>2, <1>4, <1>5, <1>6

\* A command moves on, and the others stay.
LEMMA RowKept ==
  ASSUME Dispatched, NEW i \in Commands, NEW a \in {"insert", "fail", "over"},
         NEW b \in {"none", "sent", "done", "failed"},
         Moves(i, a, b)
  PROVE  /\ Dispatched' /\ Kept /\ Commands' = Commands
         /\ commands'[i].at = a /\ commands'[i].row = b
         /\ \A j \in Commands : j # i => commands'[j] = commands[j]
<1> DEFINE r == [commands[i] EXCEPT !.at = a, !.row = b]
<1>1. commands \in Seq(Command) /\ i \in DOMAIN commands
  BY DEF Dispatched, Command, Commands
<1>2. r \in Command /\ r.kind = commands[i].kind /\ r.conn = commands[i].conn /\ r.at = a /\ r.row = b
  <2>1. commands[i] \in Command
    BY <1>1
  <2>. QED BY <2>1 DEF Command
<1>3. commands' = [commands EXCEPT ![i] = r]
  BY DEF Moves
<1>. HIDE DEF r
<1>4. commands' \in Seq(Command) /\ Len(commands') = Len(commands)
  BY <1>1, <1>2, <1>3
<1>5. commands'[i] = r /\ \A j \in Commands : j # i => commands'[j] = commands[j]
  BY <1>1, <1>3 DEF Commands
<1>6. Commands' = Commands
  BY <1>4 DEF Commands
<1>7. Kept
  BY <1>2, <1>5, <1>6 DEF Kept
<1>8. Dispatched'
  BY <1>4 DEF Dispatched, Command
<1>. QED BY <1>2, <1>5, <1>6, <1>7, <1>8

LEMMA CommandsSame ==
  ASSUME Dispatched, UNCHANGED commands
  PROVE  Dispatched' /\ Kept /\ Commands' = Commands /\ Message' = Message /\ Connections' = Connections
BY DEF Dispatched, Kept, Commands, Message, Connections
-----------------------------------------------------------------------------
(* What each step of the hub's requests does.                              *)

\* the other connections, and what of a connection is not said
Others(c) == \A d \in Conns : d # c => conns'[d] = conns[d]
Only(c, down, up, at, got, cut, closed) ==
  /\ Conns' = Conns /\ Newest' = Newest /\ Others(c)
  /\ conns'[c].down = down /\ conns'[c].up = up /\ conns'[c].at = at
  /\ conns'[c].got = got /\ conns'[c].cut = cut /\ conns'[c].closed = closed

\* A frame goes down a connection, or is lost.
LEMMA FramedIs ==
  ASSUME Linked, Dispatched, Dispatched', Kept, NEW c \in Conns, NEW i \in Commands',
         Framed(c, i), UNCHANGED entry
  PROVE  /\ Linked'
         /\ \E q \in {conns[c].down, Append(conns[c].down, i)} :
              Only(c, q, conns[c].up, conns[c].at, conns[c].got, conns[c].cut, conns[c].closed)
<1> DEFINE r == IF conns[c].cut THEN conns[c] ELSE [conns[c] EXCEPT !.down = Append(@, i)]
<1>1. conns[c] \in Connections'
  BY ConnectionIs, TypesGrow
<1>2. /\ r \in Connections' /\ r.down \in {conns[c].down, Append(conns[c].down, i)}
      /\ r.up = conns[c].up /\ r.at = conns[c].at /\ r.got = conns[c].got
      /\ r.cut = conns[c].cut /\ r.closed = conns[c].closed
  <2>1. conns[c].down \in Seq(Commands') /\ i \in Commands'
    BY <1>1 DEF Connections
  <2>2. Append(conns[c].down, i) \in Seq(Commands')
    BY <2>1
  <2>. QED BY <1>1, <2>2 DEF Connections
<1>3. Becomes(c, r) /\ entry' \in 0..Len(conns)
  BY DEF Framed, Linked
<1>. HIDE DEF r
<1>4. /\ Linked' /\ Conns' = Conns /\ Newest' = Newest
      /\ conns'[c] = r /\ \A d \in Conns : d # c => conns'[d] = conns[d]
  BY <1>2, <1>3, BecomesIs
<1>. QED BY <1>2, <1>4 DEF Only, Others

\* A request adds a command that waits for its row.
LEMMA DispatchIs ==
  ASSUME TypeOK, NEW kind \in Kinds, Dispatch(kind)
  PROVE  /\ TypeOK' /\ Kept /\ entry \in Conns
         /\ Len(commands) \in Nat /\ Len(commands') = Len(commands) + 1
         /\ \A i \in Commands : commands'[i] = commands[i]
         /\ commands'[Len(commands) + 1] =
              [kind |-> kind, conn |-> entry, at |-> "insert", row |-> "none"]
<1> DEFINE e == [kind |-> kind, conn |-> entry, at |-> "insert", row |-> "none"]
<1>1. Dispatched /\ Linked /\ Boarded /\ Logged /\ Resulted /\ Limited
  BY TypeParts
<1>2. entry \in Conns /\ entry \in 1..MaxConns
  BY <1>1, CommandBoundsAssumption DEF Dispatch, Linked, Conns
<1>3. e \in Command /\ commands' = Append(commands, e) /\ Len(commands) < MaxCommands
  BY <1>2 DEF Dispatch, Command
<1>4. /\ Dispatched' /\ Kept /\ Len(commands) \in Nat /\ Len(commands') = Len(commands) + 1
      /\ commands'[Len(commands) + 1] = e /\ \A i \in Commands : commands'[i] = commands[i]
  BY <1>1, <1>3, AppendKept
<1>5. UNCHANGED <<conns, entry, board, output, results, printed, faults>>
  BY DEF Dispatch
<1>6. Linked' /\ Boarded' /\ Logged' /\ Resulted' /\ Limited'
  BY <1>1, <1>4, <1>5, LinkedKept, BoardedKept, LoggedKept, ResultedKept DEF Limited
<1>. QED BY <1>2, <1>4, <1>6, TypePartsNext

\* Bytes from the bridge add a command whose frame is on its way.
LEMMA BridgeSendIs ==
  ASSUME TypeOK, BridgeSend
  PROVE  /\ TypeOK' /\ Kept /\ entry \in Conns
         /\ Len(commands) \in Nat /\ Len(commands') = Len(commands) + 1
         /\ \A i \in Commands : commands'[i] = commands[i]
         /\ commands'[Len(commands) + 1] =
              [kind |-> "bridge", conn |-> entry, at |-> "over", row |-> "none"]
         /\ \E q \in {conns[entry].down, Append(conns[entry].down, Len(commands) + 1)} :
              Only(entry, q, conns[entry].up, conns[entry].at, conns[entry].got,
                   conns[entry].cut, conns[entry].closed)
<1> DEFINE e == [kind |-> "bridge", conn |-> entry, at |-> "over", row |-> "none"]
<1>1. Dispatched /\ Linked /\ Boarded /\ Logged /\ Resulted /\ Limited
  BY TypeParts
<1>2. entry \in Conns /\ entry \in 1..MaxConns
  BY <1>1, CommandBoundsAssumption DEF BridgeSend, Linked, Conns
<1>3. e \in Command /\ commands' = Append(commands, e) /\ Len(commands) < MaxCommands
  BY <1>2 DEF BridgeSend, Command
<1>4. /\ Dispatched' /\ Kept /\ Len(commands) \in Nat /\ Len(commands') = Len(commands) + 1
      /\ commands'[Len(commands) + 1] = e /\ \A i \in Commands : commands'[i] = commands[i]
  BY <1>1, <1>3, AppendKept
<1>5. /\ Framed(entry, Len(commands) + 1)
      /\ UNCHANGED <<entry, board, output, results, printed, faults>>
  BY DEF BridgeSend
<1>6. Boarded' /\ Logged' /\ Resulted' /\ Limited'
  BY <1>1, <1>4, <1>5, BoardedKept, LoggedKept, ResultedKept DEF Limited
<1>7. Len(commands) + 1 \in Commands'
  BY <1>4 DEF Commands
<1>8. /\ Linked'
      /\ \E q \in {conns[entry].down, Append(conns[entry].down, Len(commands) + 1)} :
           Only(entry, q, conns[entry].up, conns[entry].at, conns[entry].got,
                conns[entry].cut, conns[entry].closed)
  BY <1>1, <1>2, <1>4, <1>5, <1>7, FramedIs
<1>. QED BY <1>2, <1>4, <1>6, <1>8, TypePartsNext

\* The frame goes down the connection that was looked up, or fails.
LEMMA SendIs ==
  ASSUME TypeOK, NEW i \in Commands, Send(i), commands[i].conn \in Conns
  PROVE  /\ TypeOK' /\ Kept /\ Commands' = Commands
         /\ commands'[i].at \in {"over", "fail"} /\ commands'[i].row = "sent"
         /\ \A j \in Commands : j # i => commands'[j] = commands[j]
         /\ commands[i].at = "insert"
         /\ \/ UNCHANGED conns
            \/ LET c == commands[i].conn IN
               /\ ~conns[c].closed
               /\ \E q \in {conns[c].down, Append(conns[c].down, i)} :
                    Only(c, q, conns[c].up, conns[c].at, conns[c].got, conns[c].cut, conns[c].closed)
<1> DEFINE c == commands[i].conn
<1>1. Dispatched /\ Linked /\ Boarded /\ Logged /\ Resulted /\ Limited
  BY TypeParts
<1>2. /\ commands[i].at = "insert" /\ UNCHANGED <<entry, board, output, results, printed, faults>>
      /\ \/ ~conns[c].closed /\ Framed(c, i) /\ Moves(i, "over", "sent")
         \/ UNCHANGED conns /\ Moves(i, "fail", "sent")
  BY DEF Send, Writable
<1>3. PICK a \in {"over", "fail"} : Moves(i, a, "sent")
  BY <1>2
<1>4. /\ Dispatched' /\ Kept /\ Commands' = Commands
      /\ commands'[i].at = a /\ commands'[i].row = "sent"
      /\ \A j \in Commands : j # i => commands'[j] = commands[j]
  BY <1>1, <1>3, RowKept
<1>5. Boarded' /\ Logged' /\ Resulted' /\ Limited'
  BY <1>1, <1>2, <1>4, BoardedKept, LoggedKept, ResultedKept DEF Limited
<1>6. CASE UNCHANGED conns
  BY <1>1, <1>2, <1>4, <1>5, <1>6, LinkedKept, TypePartsNext
<1>7. CASE ~conns[c].closed /\ Framed(c, i)
  <2>1. /\ Linked'
        /\ \E q \in {conns[c].down, Append(conns[c].down, i)} :
             Only(c, q, conns[c].up, conns[c].at, conns[c].got, conns[c].cut, conns[c].closed)
    BY <1>1, <1>2, <1>4, <1>7, FramedIs
  <2>. QED BY <1>2, <1>4, <1>5, <1>7, <2>1, TypePartsNext
<1>. QED BY <1>2, <1>6, <1>7

\* The row becomes failed.
LEMMA SendFailsIs ==
  ASSUME TypeOK, NEW i \in Commands, SendFails(i)
  PROVE  /\ TypeOK' /\ Kept /\ Commands' = Commands
         /\ commands'[i].at = "over" /\ commands'[i].row = "failed"
         /\ \A j \in Commands : j # i => commands'[j] = commands[j]
<1>1. Dispatched /\ Linked /\ Boarded /\ Logged /\ Resulted /\ Limited
  BY TypeParts
<1>2. /\ UNCHANGED <<conns, entry, board, output, results, printed, faults>>
      /\ Moves(i, "over", "failed")
  BY DEF SendFails
<1>3. /\ Dispatched' /\ Kept /\ Commands' = Commands
      /\ commands'[i].at = "over" /\ commands'[i].row = "failed"
      /\ \A j \in Commands : j # i => commands'[j] = commands[j]
  BY <1>1, <1>2, RowKept
<1>4. Linked' /\ Boarded' /\ Logged' /\ Resulted' /\ Limited'
  BY <1>1, <1>2, <1>3, LinkedKept, BoardedKept, LoggedKept, ResultedKept DEF Limited
<1>. QED BY <1>3, <1>4, TypePartsNext
-----------------------------------------------------------------------------
(* What each step of the board and of the link does.                       *)

\* The two parts of a queue.
LEMMA BackIs ==
  ASSUME NEW S, NEW q \in Seq(S), NEW n \in 0..Len(q)
  PROVE  /\ SubSeq(q, n + 1, Len(q)) \in Seq(S) /\ Len(SubSeq(q, n + 1, Len(q))) = Len(q) - n
         /\ DOMAIN SubSeq(q, n + 1, Len(q)) = 1..(Len(q) - n)
         /\ \A p \in 1..(Len(q) - n) : SubSeq(q, n + 1, Len(q))[p] = q[n + p]
OBVIOUS

\* The front of a queue.
LEMMA PrefixIs ==
  ASSUME NEW S, NEW q \in Seq(S), NEW n \in 0..Len(q)
  PROVE  /\ SubSeq(q, 1, n) \in Seq(S) /\ Len(SubSeq(q, 1, n)) = n
         /\ DOMAIN SubSeq(q, 1, n) = 1..n
         /\ \A p \in 1..n : SubSeq(q, 1, n)[p] = q[p]
OBVIOUS

\* The board takes the frame at the head and sends messages.
LEMMA AnswersIs ==
  ASSUME Linked, Dispatched, UNCHANGED <<commands, entry>>, Reads,
         NEW ms \in Seq(Message), Answers(ms)
  PROVE  /\ Linked'
         /\ LET c == Newest IN
            \E u \in {conns[c].up, conns[c].up \o ms} :
              Only(c, Tail(conns[c].down), u, conns[c].at, conns[c].got, conns[c].cut, conns[c].closed)
<1> DEFINE c == Newest
           r == [conns[c] EXCEPT !.down = Tail(@), !.up = Sent(ms)]
<1>1. /\ c \in Conns /\ conns[c] \in Connections
      /\ conns[c].down \in Seq(Commands) /\ conns[c].down # <<>>
  BY ConnectionIs, CommandBoundsAssumption DEF Linked, Newest, Conns, Reads
<1>2. Tail(conns[c].down) \in Seq(Commands)
  BY <1>1, TailIs
<1>3. Sent(ms) \in Seq(Message) /\ Sent(ms) \in {conns[c].up, conns[c].up \o ms}
  BY SentIs
<1>. HIDE DEF c
<1>4. /\ r \in Connections
      /\ r.down = Tail(conns[c].down) /\ r.up = Sent(ms) /\ r.at = conns[c].at
      /\ r.got = conns[c].got /\ r.cut = conns[c].cut /\ r.closed = conns[c].closed
  BY <1>1, <1>2, <1>3 DEF Connections
<1>5. Becomes(c, r) /\ entry' \in 0..Len(conns)
  BY DEF Answers, Linked, c
<1>6. Dispatched' /\ Kept /\ Connections' = Connections
  BY CommandsSame
<1>. HIDE DEF r
<1>7. /\ Linked' /\ Conns' = Conns /\ Newest' = Newest
      /\ conns'[c] = r /\ \A d \in Conns : d # c => conns'[d] = conns[d]
  BY <1>1, <1>4, <1>5, <1>6, BecomesIs
<1>8. Only(c, Tail(conns[c].down), Sent(ms), conns[c].at, conns[c].got, conns[c].cut, conns[c].closed)
  BY <1>4, <1>7 DEF Only, Others
<1>. QED BY <1>3, <1>7, <1>8 DEF c

\* A result of a command that was dispatched is a message.
LEMMA ResultIs ==
  ASSUME Dispatched, NEW i \in Commands, NEW ok \in BOOLEAN, NEW q \in Seq(1..MaxOutput)
  PROVE  Result(i, ok, q) \in Message /\ <<Result(i, ok, q)>> \in Seq(Message)
BY DEF Dispatched, Commands, Result, Message

\* The command at the head.
LEMMA HeadIs ==
  ASSUME TypeOK, Reads
  PROVE  /\ Newest \in Conns /\ conns[Newest].down \in Seq(Commands) /\ conns[Newest].down # <<>>
         /\ Head(conns[Newest].down) \in Commands /\ Head(conns[Newest].down) \in 1..MaxCommands
         /\ Head(conns[Newest].down) = conns[Newest].down[1] /\ 1 \in DOMAIN conns[Newest].down
<1>1. Linked /\ Dispatched
  BY TypeParts
<1>2. /\ Newest \in Conns /\ conns[Newest].down \in Seq(Commands)
  BY <1>1, ConnectionIs, CommandBoundsAssumption DEF Linked, Newest, Conns
<1>3. conns[Newest].down # <<>>
  BY DEF Reads
<1>4. Commands \subseteq 1..MaxCommands
  BY <1>1, CommandBoundsAssumption DEF Dispatched, Commands
<1>. QED BY <1>2, <1>3, <1>4, TailIs

\* Key presses reach the target, or do not; the result says which.
LEMMA InjectsIs ==
  ASSUME TypeOK, Reads, NEW i, i = Head(conns[Newest].down), Injects(i),
         UNCHANGED <<commands, entry, on, output, results, printed, faults>>
  PROVE  /\ TypeOK' /\ commands[i].kind = "keys" /\ UNCHANGED <<tx, console>>
         /\ \E ok \in BOOLEAN :
              /\ target' = [target EXCEPT ![i] = IF ok THEN @ + 1 ELSE @]
              /\ LET c == Newest IN
                 \E u \in {conns[c].up, conns[c].up \o <<Result(i, ok, <<>>)>>} :
                   Only(c, Tail(conns[c].down), u, conns[c].at, conns[c].got,
                        conns[c].cut, conns[c].closed)
<1>1. Dispatched /\ Linked /\ Boarded /\ Logged /\ Resulted /\ Limited
  BY TypeParts
<1>2. i \in Commands /\ i \in 1..MaxCommands
  BY HeadIs
<1>3. /\ commands[i].kind = "keys" /\ UNCHANGED <<tx, pending, console>>
      /\ \E ok \in BOOLEAN : /\ target' = IF ok THEN [target EXCEPT ![i] = @ + 1] ELSE target
                             /\ Answers(<<Result(i, ok, <<>>)>>)
  BY DEF Injects
<1>4. PICK ok \in BOOLEAN : /\ target' = IF ok THEN [target EXCEPT ![i] = @ + 1] ELSE target
                            /\ Answers(<<Result(i, ok, <<>>)>>)
  BY <1>3
<1>5. target' = [target EXCEPT ![i] = IF ok THEN @ + 1 ELSE @] /\ target' \in [1..MaxCommands -> Nat]
  <2>1. target \in [1..MaxCommands -> Nat] /\ target[i] + 1 \in Nat
    BY <1>1, <1>2 DEF Boarded
  <2>2. CASE ok
    BY <1>2, <1>4, <2>1, <2>2
  <2>3. CASE ~ok
    BY <1>2, <1>4, <2>1, <2>3
  <2>. QED BY <2>2, <2>3
<1>6. <<Result(i, ok, <<>>)>> \in Seq(Message)
  <2>1. <<>> \in Seq(1..MaxOutput)
    OBVIOUS
  <2>. QED BY <1>1, <1>2, <2>1, ResultIs
<1>7. /\ Linked'
      /\ LET c == Newest IN
         \E u \in {conns[c].up, conns[c].up \o <<Result(i, ok, <<>>)>>} :
           Only(c, Tail(conns[c].down), u, conns[c].at, conns[c].got, conns[c].cut, conns[c].closed)
  BY <1>1, <1>4, <1>6, AnswersIs
<1>8. Dispatched' /\ Kept /\ Commands' = Commands
  BY <1>1, CommandsSame
<1>9. Boarded'
  BY <1>1, <1>3, <1>5, <1>8 DEF Boarded
<1>10. Logged' /\ Resulted' /\ Limited'
  BY <1>1, <1>8, LoggedKept, ResultedKept DEF Limited
<1>. QED BY <1>3, <1>5, <1>7, <1>8, <1>9, <1>10, TypePartsNext

\* The result has all of the console, which is empty then.
LEMMA ReadAllIs ==
  ASSUME TypeOK, Reads, NEW i, i = Head(conns[Newest].down), ReadAll(i),
         UNCHANGED <<commands, entry, on, output, results, printed, faults>>
  PROVE  /\ TypeOK' /\ commands[i].kind = "read" /\ UNCHANGED <<tx, target>> /\ console' = <<>>
         /\ LET c == Newest IN
            \E u \in {conns[c].up, conns[c].up \o <<Result(i, TRUE, console)>>} :
              Only(c, Tail(conns[c].down), u, conns[c].at, conns[c].got, conns[c].cut, conns[c].closed)
<1>1. Dispatched /\ Linked /\ Boarded /\ Logged /\ Resulted /\ Limited
  BY TypeParts
<1>2. i \in Commands
  BY HeadIs
<1>3. /\ commands[i].kind = "read" /\ UNCHANGED <<tx, pending, target>> /\ console' = <<>>
      /\ Answers(<<Result(i, TRUE, console)>>)
  BY DEF ReadAll
<1>4. <<Result(i, TRUE, console)>> \in Seq(Message)
  BY <1>1, <1>2, ResultIs DEF Boarded
<1>5. /\ Linked'
      /\ LET c == Newest IN
         \E u \in {conns[c].up, conns[c].up \o <<Result(i, TRUE, console)>>} :
           Only(c, Tail(conns[c].down), u, conns[c].at, conns[c].got, conns[c].cut, conns[c].closed)
  BY <1>1, <1>3, <1>4, AnswersIs
<1>6. Dispatched' /\ Kept /\ Commands' = Commands
  BY <1>1, CommandsSame
<1>7. Boarded'
  BY <1>1, <1>3, <1>6 DEF Boarded
<1>8. Logged' /\ Resulted' /\ Limited'
  BY <1>1, <1>6, LoggedKept, ResultedKept DEF Limited
<1>. QED BY <1>3, <1>5, <1>6, <1>7, <1>8, TypePartsNext

\* A send is refused, or queued behind the others.
LEMMA QueueWriteIs ==
  ASSUME TypeOK, Reads, NEW i, i = Head(conns[Newest].down), QueueWrite(i),
         UNCHANGED <<commands, entry, on, output, results, printed, faults>>
  PROVE  /\ TypeOK' /\ commands[i].kind \in {"send", "bridge"} /\ UNCHANGED <<console, target>>
         /\ \/ /\ UNCHANGED tx
               /\ LET c == Newest IN
                  \E u \in {conns[c].up, conns[c].up \o <<Result(i, FALSE, <<>>)>>} :
                    Only(c, Tail(conns[c].down), u, conns[c].at, conns[c].got,
                         conns[c].cut, conns[c].closed)
            \/ /\ Len(tx) \in Nat /\ Len(tx') = Len(tx) + Payload
               /\ \A p \in 1..Len(tx) : tx'[p] = tx[p]
               /\ \A p \in 1..Payload : tx'[Len(tx) + p] = i
               /\ LET c == Newest IN
                  Only(c, Tail(conns[c].down), conns[c].up, conns[c].at, conns[c].got,
                       conns[c].cut, conns[c].closed)
<1> DEFINE add == [b \in 1..Payload |-> i]
<1>1. Dispatched /\ Linked /\ Boarded /\ Logged /\ Resulted /\ Limited
  BY TypeParts
<1>2. i \in Commands /\ Newest \in Conns
  BY HeadIs
<1>3. /\ commands[i].kind \in {"send", "bridge"} /\ UNCHANGED <<console, target>>
      /\ \/ Answers(<<Result(i, FALSE, <<>>)>>) /\ UNCHANGED <<tx, pending>>
         \/ tx' = tx \o add /\ pending' = pending + Payload /\ Answers(<<>>)
  BY DEF QueueWrite, Accepted
<1>4. Dispatched' /\ Kept /\ Commands' = Commands
  BY <1>1, CommandsSame
<1>5. Logged' /\ Resulted' /\ Limited'
  BY <1>1, <1>4, LoggedKept, ResultedKept DEF Limited
<1>6. CASE Answers(<<Result(i, FALSE, <<>>)>>) /\ UNCHANGED <<tx, pending>>
  <2>1. <<Result(i, FALSE, <<>>)>> \in Seq(Message)
    <3>1. <<>> \in Seq(1..MaxOutput)
      OBVIOUS
    <3>. QED BY <1>1, <1>2, <3>1, ResultIs
  <2>2. /\ Linked'
        /\ LET c == Newest IN
           \E u \in {conns[c].up, conns[c].up \o <<Result(i, FALSE, <<>>)>>} :
             Only(c, Tail(conns[c].down), u, conns[c].at, conns[c].got, conns[c].cut, conns[c].closed)
    BY <1>1, <1>6, <2>1, AnswersIs
  <2>3. Boarded'
    BY <1>1, <1>3, <1>4, <1>6 DEF Boarded
  <2>. QED BY <1>3, <1>4, <1>5, <1>6, <2>2, <2>3, TypePartsNext
<1>7. CASE tx' = tx \o add /\ pending' = pending + Payload /\ Answers(<<>>)
  <2>1. add \in Seq(Commands) /\ Len(add) = Payload /\ \A b \in 1..Payload : add[b] = i
    BY <1>2, SerialAssumption
  <2>2. tx \in Seq(Commands) /\ pending = Len(tx)
    BY <1>1 DEF Boarded
  <2>. HIDE DEF add
  <2>3. /\ tx' \in Seq(Commands) /\ Len(tx) \in Nat /\ Len(tx') = Len(tx) + Payload
        /\ \A p \in 1..Len(tx) : tx'[p] = tx[p]
        /\ \A p \in 1..Payload : tx'[Len(tx) + p] = i
    BY <1>7, <2>1, <2>2, SerialAssumption
  <2>4. Boarded'
    BY <1>1, <1>3, <1>4, <1>7, <2>2, <2>3 DEF Boarded
  <2>5. <<>> \in Seq(Message)
    OBVIOUS
  <2>6. /\ Linked'
        /\ LET c == Newest IN
           \E u \in {conns[c].up, conns[c].up \o <<>>} :
             Only(c, Tail(conns[c].down), u, conns[c].at, conns[c].got, conns[c].cut, conns[c].closed)
    BY <1>1, <1>7, <2>5, AnswersIs
  <2>7. conns[Newest].up \o <<>> = conns[Newest].up
    BY <1>1, <1>2, ConnectionIs
  <2>. QED BY <1>3, <1>4, <1>5, <2>3, <2>4, <2>6, <2>7, TypePartsNext
<1>. QED BY <1>3, <1>6, <1>7
\* What a pass sends: the line that it took, and an "ok" for each job that ended.
PassMessage(m, n) ==
  \/ console # <<>> /\ m = OutputOf(Head(console))
  \/ \E p \in Finished(n) : m = Result(tx[p], TRUE, <<>>)

LEMMA EmptyFirst == ASSUME NEW S, NEW q \in Seq(S) PROVE <<>> \o q = q
OBVIOUS

LEMMA OneFirst ==
  ASSUME NEW S, NEW e \in S, NEW q \in Seq(S)
  PROVE  /\ <<e>> \o q \in Seq(S) /\ Len(q) \in Nat /\ DOMAIN q = 1..Len(q)
         /\ DOMAIN (<<e>> \o q) = 1..(Len(q) + 1)
         /\ (<<e>> \o q)[1] = e /\ \A p \in 1..Len(q) : (<<e>> \o q)[p + 1] = q[p]
OBVIOUS

\* The places where jobs end are places of the queue.
LEMMA FinishedIs ==
  ASSUME TypeOK, NEW n \in Nat, n <= Len(tx)
  PROVE  /\ Cardinality(Finished(n)) \in Nat
         /\ \A p \in Finished(n) : p \in 1..n /\ p \in 1..Len(tx) /\ tx[p] \in Commands
<1>1. Boarded
  BY TypeParts
<1>2. /\ Len(tx) \in Nat /\ \A p \in 1..Len(tx) : tx[p] \in Commands
  BY <1>1 DEF Boarded
<1>3. Finished(n) \in SUBSET (1..n)
  BY DEF Finished
<1>4. IsFiniteSet(1..n)
  BY FS_Interval
<1>5. IsFiniteSet(Finished(n))
  BY <1>3, <1>4, FS_Subset, Zenon
<1>6. Cardinality(Finished(n)) \in Nat
  BY <1>5, FS_CardinalityType
<1>7. \A p \in 1..n : p \in 1..Len(tx)
  BY <1>2
<1>. QED BY <1>2, <1>3, <1>6, <1>7

LEMMA SeqIs ==
  ASSUME NEW S, NEW K \in Nat, NEW f \in [1..K -> S]
  PROVE  f \in Seq(S) /\ DOMAIN f = 1..K /\ Len(f) = K
OBVIOUS

\* An "ok" for each of some commands.
LEMMA ResultsAre ==
  ASSUME Dispatched, NEW K \in Nat, NEW done, DOMAIN done = 1..K,
         \A k \in 1..K : done[k] \in Commands
  PROVE  LET rs == [k \in DOMAIN done |-> Result(done[k], TRUE, <<>>)] IN
         /\ rs \in Seq(Message) /\ DOMAIN rs = 1..K /\ Len(rs) = K
         /\ \A k \in 1..K : rs[k] = Result(done[k], TRUE, <<>>) /\ rs[k].lines = <<>>
<1> DEFINE rs == [k \in DOMAIN done |-> Result(done[k], TRUE, <<>>)]
<1>1. <<>> \in Seq(1..MaxOutput)
  OBVIOUS
<1>2. \A k \in 1..K : Result(done[k], TRUE, <<>>) \in Message
  BY <1>1, ResultIs
<1>3. rs \in [1..K -> Message] /\ \A k \in 1..K : rs[k] = Result(done[k], TRUE, <<>>)
  BY <1>2
<1>. HIDE DEF rs
<1>4. rs \in Seq(Message) /\ DOMAIN rs = 1..K /\ Len(rs) = K
  BY <1>3, SeqIs
<1>5. \A k \in 1..K : rs[k].lines = <<>>
  BY <1>3 DEF Result
<1>. QED BY <1>3, <1>4, <1>5 DEF rs

\* Only the first message of a pass has a line.
LEMMA PassMessages ==
  ASSUME TypeOK, NEW n \in Nat, n <= Len(tx), NEW done, done \in InOrder(Finished(n))
  PROVE  LET ms == Polled \o [k \in DOMAIN done |-> Result(done[k], TRUE, <<>>)] IN
         /\ ms \in Seq(Message) /\ \A p \in DOMAIN ms : PassMessage(ms[p], n)
         /\ \A p \in DOMAIN ms : p # 1 => ms[p].lines = <<>>
<1> DEFINE rs == [k \in DOMAIN done |-> Result(done[k], TRUE, <<>>)]
           ms == Polled \o rs
<1>1. Dispatched /\ console \in Seq(1..MaxOutput)
  BY TypeParts DEF Boarded
<1>2. PICK K \in Nat : DOMAIN done = 1..K /\ \A k \in 1..K : \E p \in Finished(n) : done[k] = tx[p]
  <2> DEFINE K == Cardinality(Finished(n))
  <2>1. K \in Nat
    BY FinishedIs
  <2>2. PICK s \in [1..K -> Finished(n)] : done = [k \in DOMAIN s |-> tx[s[k]]]
    BY DEF InOrder
  <2>. HIDE DEF K
  <2>3. DOMAIN done = 1..K /\ \A k \in 1..K : s[k] \in Finished(n) /\ done[k] = tx[s[k]]
    BY <2>2
  <2>. QED BY <2>1, <2>3
<1>3. \A k \in 1..K : done[k] \in Commands
  BY <1>2, FinishedIs
<1>4. /\ rs \in Seq(Message) /\ DOMAIN rs = 1..K /\ Len(rs) = K
      /\ \A k \in 1..K : rs[k] = Result(done[k], TRUE, <<>>) /\ rs[k].lines = <<>>
  BY <1>1, <1>2, <1>3, ResultsAre
<1>5. ms = Polled \o rs
  OBVIOUS
<1>. HIDE DEF rs, ms
<1>6. \A k \in 1..K : PassMessage(rs[k], n)
  BY <1>2, <1>4 DEF PassMessage
<1>7. /\ ms \in Seq(Message) /\ \A p \in DOMAIN ms : PassMessage(ms[p], n)
      /\ \A p \in DOMAIN ms : p # 1 => ms[p].lines = <<>>
  <2>1. CASE console = <<>>
    <3>1. ms = <<>> \o rs
      BY <1>5, <2>1 DEF Polled
    <3>2. ms = rs
      BY <1>4, <3>1, EmptyFirst
    <3>. QED BY <1>4, <1>6, <3>2
  <2>2. CASE console # <<>>
    <3> DEFINE e == OutputOf(Head(console))
    <3>1. Head(console) \in 1..MaxOutput
      BY <1>1, <2>2, TailIs
    <3>2. e \in Message /\ PassMessage(e, n)
      BY <1>1, <2>2, <3>1 DEF OutputOf, Result, Message, PassMessage, Dispatched
    <3>3. ms = <<e>> \o rs
      BY <1>5, <2>2 DEF Polled
    <3>. HIDE DEF e
    <3>4. /\ ms \in Seq(Message) /\ DOMAIN ms = 1..(K + 1)
          /\ ms[1] = e /\ \A p \in 1..K : ms[p + 1] = rs[p]
      <4>1. /\ <<e>> \o rs \in Seq(Message) /\ DOMAIN (<<e>> \o rs) = 1..(Len(rs) + 1)
            /\ (<<e>> \o rs)[1] = e /\ \A p \in 1..Len(rs) : (<<e>> \o rs)[p + 1] = rs[p]
        BY <1>4, <3>2, OneFirst
      <4>. QED BY <1>4, <3>3, <4>1
    <3>5. ASSUME NEW p \in DOMAIN ms, p # 1 PROVE p - 1 \in 1..K /\ ms[p] = rs[p - 1]
      <4>1. p - 1 \in 1..K /\ (p - 1) + 1 = p
        BY <3>4, <3>5
      <4>. QED BY <3>4, <4>1
    <3>. QED BY <1>4, <1>6, <3>2, <3>4, <3>5
  <2>. QED BY <2>1, <2>2
<1>. QED BY <1>7 DEF ms, rs

\* A message is sent and nothing taken from the queue of frames.
LEMMA SendsIs ==
  ASSUME Linked, Dispatched, UNCHANGED <<commands, entry>>, NEW ms \in Seq(Message),
         Becomes(Newest, [conns[Newest] EXCEPT !.up = Sent(ms)])
  PROVE  /\ Linked'
         /\ LET c == Newest IN
            \E u \in {conns[c].up, conns[c].up \o ms} :
              Only(c, conns[c].down, u, conns[c].at, conns[c].got, conns[c].cut, conns[c].closed)
<1> DEFINE c == Newest
           r == [conns[c] EXCEPT !.up = Sent(ms)]
<1>1. c \in Conns /\ conns[c] \in Connections
  BY ConnectionIs, CommandBoundsAssumption DEF Linked, Newest, Conns
<1>3. Sent(ms) \in Seq(Message) /\ Sent(ms) \in {conns[c].up, conns[c].up \o ms}
  BY SentIs
<1>5. Becomes(c, r) /\ entry' \in 0..Len(conns)
  BY DEF Linked
<1>. HIDE DEF c
<1>4. /\ r \in Connections
      /\ r.down = conns[c].down /\ r.up = Sent(ms) /\ r.at = conns[c].at
      /\ r.got = conns[c].got /\ r.cut = conns[c].cut /\ r.closed = conns[c].closed
  BY <1>1, <1>3 DEF Connections
<1>6. Dispatched' /\ Kept /\ Connections' = Connections
  BY CommandsSame
<1>. HIDE DEF r
<1>7. /\ Linked' /\ Conns' = Conns /\ Newest' = Newest
      /\ conns'[c] = r /\ \A d \in Conns : d # c => conns'[d] = conns[d]
  BY <1>1, <1>4, <1>5, <1>6, BecomesIs
<1>8. Only(c, conns[c].down, Sent(ms), conns[c].at, conns[c].got, conns[c].cut, conns[c].closed)
  BY <1>4, <1>7 DEF Only, Others
<1>. QED BY <1>3, <1>7, <1>8 DEF c

\* A pass writes the front of the queue, and sends what it took and what ended.
LEMMA PassIs ==
  ASSUME TypeOK, NEW n \in Nat, Pass(n)
  PROVE  /\ TypeOK' /\ Kept /\ Commands' = Commands /\ n \in 0..Len(tx) /\ Len(tx) \in Nat
         /\ target' = [i \in 1..MaxCommands |-> target[i] + Bytes(n, i)]
         /\ Len(tx') = Len(tx) - n /\ \A p \in 1..(Len(tx) - n) : tx'[p] = tx[n + p]
         /\ \E ms \in Seq(Message) :
              /\ \A p \in DOMAIN ms : PassMessage(ms[p], n)
              /\ \A p \in DOMAIN ms : p # 1 => ms[p].lines = <<>>
              /\ LET c == Newest IN
                 \E u \in {conns[c].up, conns[c].up \o ms} :
                   Only(c, conns[c].down, u, conns[c].at, conns[c].got, conns[c].cut, conns[c].closed)
<1>1. Dispatched /\ Linked /\ Boarded /\ Logged /\ Resulted /\ Limited
  BY TypeParts
<1>2. Dispatched' /\ Kept /\ Commands' = Commands /\ UNCHANGED <<commands, entry>>
  BY <1>1, CommandsSame DEF Pass
<1>3. Logged' /\ Resulted' /\ Limited'
  BY <1>1, <1>2, LoggedKept, ResultedKept DEF Limited, Pass
<1>4. /\ tx \in Seq(Commands) /\ n \in 0..Len(tx) /\ pending = Len(tx) /\ Len(tx) \in Nat
      /\ console \in Seq(1..MaxOutput) /\ target \in [1..MaxCommands -> Nat]
  BY <1>1 DEF Boarded, Pass
<1>5. tx' = SubSeq(tx, n + 1, Len(tx)) /\ pending' = pending - n
  BY DEF Pass
<1>6. /\ tx' \in Seq(Commands) /\ Len(tx') = Len(tx) - n
      /\ \A p \in 1..(Len(tx) - n) : tx'[p] = tx[n + p]
  BY <1>4, <1>5, BackIs
<1>7. console' \in Seq(1..MaxOutput)
  BY <1>4, TailIs DEF Pass
<1>8. target' = [i \in 1..MaxCommands |-> target[i] + Bytes(n, i)]
  BY <1>4 DEF Pass
<1>9. \A i \in 1..MaxCommands : Bytes(n, i) \in Nat
  <2>1. ASSUME NEW i PROVE Bytes(n, i) \in Nat
    <3>1. Count(tx, n, i) \in 0..n
      BY CountIs, Zenon
    <3>. QED BY <3>1 DEF Count, Bytes
  <2>. QED BY <2>1
<1>10. target' \in [1..MaxCommands -> Nat]
  BY <1>4, <1>8, <1>9
<1>11. Boarded'
  BY <1>1, <1>2, <1>4, <1>5, <1>6, <1>7, <1>10 DEF Boarded, Pass
<1>12. PICK done : done \in InOrder(Finished(n)) /\
         Becomes(Newest, [conns[Newest] EXCEPT !.up =
                            Sent(Polled \o [k \in DOMAIN done |-> Result(done[k], TRUE, <<>>)])])
  BY DEF Pass
<1> DEFINE ms == Polled \o [k \in DOMAIN done |-> Result(done[k], TRUE, <<>>)]
<1>14. Becomes(Newest, [conns[Newest] EXCEPT !.up = Sent(ms)])
  BY <1>12
<1>13. /\ ms \in Seq(Message) /\ \A p \in DOMAIN ms : PassMessage(ms[p], n)
       /\ \A p \in DOMAIN ms : p # 1 => ms[p].lines = <<>>
  <2>1. n <= Len(tx) /\ done \in InOrder(Finished(n))
    BY <1>4, <1>12
  <2>. QED BY <2>1, PassMessages
<1>. HIDE DEF ms
<1>15. /\ Linked'
       /\ LET c == Newest IN
          \E u \in {conns[c].up, conns[c].up \o ms} :
            Only(c, conns[c].down, u, conns[c].at, conns[c].got, conns[c].cut, conns[c].closed)
  BY <1>1, <1>2, <1>13, <1>14, SendsIs
<1>. QED BY <1>2, <1>3, <1>4, <1>6, <1>8, <1>11, <1>13, <1>15, TypePartsNext

\* The first job goes, and nothing else.
LEMMA WriteFailsIs ==
  ASSUME TypeOK, Queued, WriteFails
  PROVE  /\ TypeOK' /\ Kept /\ Commands' = Commands /\ UNCHANGED <<target, console>>
         /\ tx # <<>> /\ Len(tx) \in Nat
         /\ \E k \in 1..Len(tx) :
              /\ \A p \in 1..Len(tx) : tx[p] = tx[1] <=> p <= k
              /\ Len(tx') = Len(tx) - k /\ \A p \in 1..(Len(tx) - k) : tx'[p] = tx[k + p]
         /\ LET c == Newest IN
            \E u \in {conns[c].up, conns[c].up \o <<Result(tx[1], FALSE, <<>>)>>} :
              Only(c, conns[c].down, u, conns[c].at, conns[c].got, conns[c].cut, conns[c].closed)
<1> DEFINE i == tx[1]
           k == Count(tx, Len(tx), i)
<1>1. Dispatched /\ Linked /\ Boarded /\ Logged /\ Resulted /\ Limited
  BY TypeParts
<1>2. Dispatched' /\ Kept /\ Commands' = Commands /\ UNCHANGED <<commands, entry>>
  BY <1>1, CommandsSame DEF WriteFails
<1>3. Logged' /\ Resulted' /\ Limited'
  BY <1>1, <1>2, LoggedKept, ResultedKept, FaultLimited DEF WriteFails
<1>4. /\ tx \in Seq(Commands) /\ tx # <<>> /\ pending = Len(tx) /\ Len(tx) \in Nat \ {0}
      /\ DOMAIN tx = 1..Len(tx) /\ Head(tx) = i /\ i \in Commands
  BY <1>1, TailIs DEF Boarded, WriteFails
<1>5. \A p, q, r \in 1..Len(tx) : p < q /\ q < r /\ tx[p] = tx[r] => tx[q] = tx[p]
  BY <1>4 DEF Queued
<1>6. k \in 1..Len(tx) /\ \A p \in 1..Len(tx) : tx[p] = i <=> p <= k
  BY <1>4, <1>5, FrontIs
<1>7. Bytes(Len(tx), i) = k /\ Remaining(i) = k
  BY DEF Bytes, Remaining, Count
<1>8. tx' = SubSeq(tx, k + 1, Len(tx)) /\ pending' = pending - k
  BY <1>4, <1>7 DEF WriteFails
<1>9. Becomes(Newest, [conns[Newest] EXCEPT !.up = Sent(<<Result(i, FALSE, <<>>)>>)])
  BY <1>4 DEF WriteFails
<1>. HIDE DEF k
<1>10. /\ tx' \in Seq(Commands) /\ Len(tx') = Len(tx) - k
       /\ \A p \in 1..(Len(tx) - k) : tx'[p] = tx[k + p]
  BY <1>4, <1>6, <1>8, BackIs
<1>11. UNCHANGED <<on, target, console>>
  BY DEF WriteFails
<1>12. Boarded'
  BY <1>1, <1>2, <1>4, <1>6, <1>8, <1>10, <1>11 DEF Boarded
<1>13. <<>> \in Seq(1..MaxOutput)
  OBVIOUS
<1>14. <<Result(i, FALSE, <<>>)>> \in Seq(Message)
  BY <1>1, <1>4, <1>13, ResultIs
<1>15. /\ Linked'
       /\ LET c == Newest IN
          \E u \in {conns[c].up, conns[c].up \o <<Result(i, FALSE, <<>>)>>} :
            Only(c, conns[c].down, u, conns[c].at, conns[c].got, conns[c].cut, conns[c].closed)
  BY <1>1, <1>2, <1>9, <1>14, SendsIs
<1>. QED BY <1>2, <1>3, <1>4, <1>6, <1>10, <1>11, <1>12, <1>15, TypePartsNext

\* The board gives its connection up.
LEMMA LeaveIs ==
  ASSUME TypeOK, Leave
  PROVE  /\ TypeOK' /\ Kept /\ Commands' = Commands /\ UNCHANGED <<tx, console, target>>
         /\ LET c == Newest IN
            Only(c, <<>>, conns[c].up, conns[c].at, conns[c].got, TRUE, conns[c].closed)
<1> DEFINE c == Newest
           r == [conns[c] EXCEPT !.cut = TRUE, !.down = <<>>]
<1>1. Dispatched /\ Linked /\ Boarded /\ Logged /\ Resulted /\ Limited
  BY TypeParts
<1>2. /\ Dispatched' /\ Kept /\ Commands' = Commands /\ Connections' = Connections
      /\ UNCHANGED <<commands, entry, tx, pending, console, target, output, results, printed, faults>>
      /\ on' = FALSE /\ Becomes(c, r)
  BY <1>1, CommandsSame DEF Leave
<1>3. Logged' /\ Resulted' /\ Limited' /\ Boarded'
  BY <1>1, <1>2, LoggedKept, ResultedKept DEF Limited, Boarded
<1>4. c \in Conns /\ conns[c] \in Connections
  BY <1>1, ConnectionIs, CommandBoundsAssumption DEF Linked, Newest, Conns
<1>5. entry' \in 0..Len(conns)
  BY <1>1, <1>2 DEF Linked
<1>. HIDE DEF c
<1>6. /\ r \in Connections
      /\ r.down = <<>> /\ r.up = conns[c].up /\ r.at = conns[c].at
      /\ r.got = conns[c].got /\ r.cut = TRUE /\ r.closed = conns[c].closed
  <2>1. <<>> \in Seq(Commands)
    OBVIOUS
  <2>. QED BY <1>4, <2>1 DEF Connections
<1>. HIDE DEF r
<1>7. /\ Linked' /\ Conns' = Conns /\ Newest' = Newest
      /\ conns'[c] = r /\ \A d \in Conns : d # c => conns'[d] = conns[d]
  BY <1>1, <1>2, <1>4, <1>5, <1>6, BecomesIs
<1>8. Only(c, <<>>, conns[c].up, conns[c].at, conns[c].got, TRUE, conns[c].closed)
  BY <1>6, <1>7 DEF Only, Others
<1>. QED BY <1>2, <1>3, <1>7, <1>8, TypePartsNext DEF c

\* Of what is on its way, only the first still arrives.
LEMMA CutIs ==
  ASSUME TypeOK, Cut
  PROVE  /\ TypeOK' /\ Kept /\ Commands' = Commands /\ UNCHANGED <<tx, console, target>>
         /\ LET c == Newest IN
            \E u \in 0..Len(conns[c].up), d \in 0..Len(conns[c].down) :
              Only(c, SubSeq(conns[c].down, 1, d), SubSeq(conns[c].up, 1, u), conns[c].at,
                   conns[c].got, TRUE, conns[c].closed)
<1> DEFINE c == Newest
<1>1. Dispatched /\ Linked /\ Boarded /\ Logged /\ Resulted /\ Limited
  BY TypeParts
<1>2. /\ Dispatched' /\ Kept /\ Commands' = Commands /\ Connections' = Connections
      /\ UNCHANGED <<commands, entry, board, output, results, printed, faults>>
  BY <1>1, CommandsSame DEF Cut
<1>3. Logged' /\ Resulted' /\ Limited' /\ Boarded' /\ UNCHANGED <<tx, console, target>>
  BY <1>1, <1>2, LoggedKept, ResultedKept, BoardedKept DEF Limited, board
<1>4. c \in Conns /\ conns[c] \in Connections
  BY <1>1, ConnectionIs, CommandBoundsAssumption DEF Linked, Newest, Conns
<1>5. PICK u \in 0..Len(conns[c].up), d \in 0..Len(conns[c].down) :
        Becomes(c, [conns[c] EXCEPT !.cut = TRUE, !.up = SubSeq(@, 1, u), !.down = SubSeq(@, 1, d)])
  BY DEF Cut
<1> DEFINE r == [conns[c] EXCEPT !.cut = TRUE, !.up = SubSeq(@, 1, u), !.down = SubSeq(@, 1, d)]
<1>6. entry' \in 0..Len(conns)
  BY <1>1, <1>2 DEF Linked
<1>. HIDE DEF c
<1>7. conns[c].down \in Seq(Commands) /\ conns[c].up \in Seq(Message)
  BY <1>4 DEF Connections
<1>8. SubSeq(conns[c].down, 1, d) \in Seq(Commands) /\ SubSeq(conns[c].up, 1, u) \in Seq(Message)
  BY <1>7, PrefixIs
<1>9. /\ r \in Connections
      /\ r.down = SubSeq(conns[c].down, 1, d) /\ r.up = SubSeq(conns[c].up, 1, u)
      /\ r.at = conns[c].at /\ r.got = conns[c].got /\ r.cut = TRUE /\ r.closed = conns[c].closed
  BY <1>4, <1>8 DEF Connections
<1>10. Becomes(c, r)
  BY <1>5
<1>. HIDE DEF r
<1>11. /\ Linked' /\ Conns' = Conns /\ Newest' = Newest
       /\ conns'[c] = r /\ \A e \in Conns : e # c => conns'[e] = conns[e]
  BY <1>1, <1>2, <1>4, <1>6, <1>9, <1>10, BecomesIs
<1>12. Only(c, SubSeq(conns[c].down, 1, d), SubSeq(conns[c].up, 1, u), conns[c].at,
            conns[c].got, TRUE, conns[c].closed)
  BY <1>9, <1>11 DEF Only, Others
<1>. QED BY <1>2, <1>3, <1>11, <1>12, TypePartsNext DEF c

\* A new connection, with nothing on it; the others are closed.
LEMMA ConnectIs ==
  ASSUME TypeOK, Connect
  PROVE  /\ TypeOK' /\ Kept /\ Commands' = Commands /\ UNCHANGED <<console, target>> /\ tx' = <<>>
         /\ Len(conns) \in Nat \ {0} /\ Len(conns') = Len(conns) + 1
         /\ conns'[Len(conns) + 1] = Connection
         /\ \A c \in Conns :
              /\ conns'[c].down = conns[c].down /\ conns'[c].up = conns[c].up
              /\ conns'[c].at = conns[c].at /\ conns'[c].got = conns[c].got
              /\ conns'[c].cut = conns[c].cut /\ conns'[c].closed = TRUE
<1> DEFINE old == [c \in Conns |-> [conns[c] EXCEPT !.closed = TRUE]]
<1>1. Dispatched /\ Linked /\ Boarded /\ Logged /\ Resulted /\ Limited
  BY TypeParts
<1>2. /\ Dispatched' /\ Kept /\ Commands' = Commands /\ Connections' = Connections
      /\ UNCHANGED <<commands, console, target, output, results, printed, faults>>
      /\ on' = TRUE /\ tx' = <<>> /\ pending' = 0 /\ entry' = Len(conns) + 1
      /\ conns' = Append(old, Connection) /\ Len(conns) < MaxConns
  BY <1>1, CommandsSame DEF Connect
<1>3. Logged' /\ Resulted' /\ Limited' /\ Boarded'
  BY <1>1, <1>2, LoggedKept, ResultedKept DEF Limited, Boarded
<1>4. Len(conns) \in Nat \ {0} /\ Conns = 1..Len(conns)
  BY <1>1, CommandBoundsAssumption DEF Linked, Conns
<1>5. ASSUME NEW c \in Conns
      PROVE  /\ old[c] \in Connections
             /\ old[c].down = conns[c].down /\ old[c].up = conns[c].up
             /\ old[c].at = conns[c].at /\ old[c].got = conns[c].got
             /\ old[c].cut = conns[c].cut /\ old[c].closed = TRUE
  <2>1. conns[c] \in Connections /\ old[c] = [conns[c] EXCEPT !.closed = TRUE]
    BY <1>1, <1>5, ConnectionIs
  <2>. QED BY <2>1 DEF Connections
<1>6. old \in [1..Len(conns) -> Connections]
  BY <1>4, <1>5
<1>7. Connection \in Connections
  <2>1. Nothing \in Message
    BY <1>1 DEF Nothing, Result, Message, Dispatched
  <2>2. <<>> \in Seq(Commands) /\ <<>> \in Seq(Message)
    OBVIOUS
  <2>. QED BY <2>1, <2>2 DEF Connection, Connections
<1>. HIDE DEF old
<1>8. /\ conns' \in Seq(Connections) /\ Len(conns') = Len(conns) + 1
      /\ conns'[Len(conns) + 1] = Connection /\ \A c \in Conns : conns'[c] = old[c]
  BY <1>2, <1>4, <1>6, <1>7
<1>9. Linked'
  BY <1>2, <1>4, <1>8, CommandBoundsAssumption DEF Linked
<1>10. TypeOK'
  BY <1>2, <1>3, <1>9, TypePartsNext
<1>11. ASSUME NEW c \in Conns
       PROVE  /\ conns'[c].down = conns[c].down /\ conns'[c].up = conns[c].up
              /\ conns'[c].at = conns[c].at /\ conns'[c].got = conns[c].got
              /\ conns'[c].cut = conns[c].cut /\ conns'[c].closed = TRUE
  <2>1. conns'[c] = old[c]
    BY <1>8
  <2>. QED BY <1>5, <2>1
<1>. QED BY <1>2, <1>4, <1>8, <1>10, <1>11

\* The target prints its next line.
LEMMA PrintsIs ==
  ASSUME TypeOK, Prints
  PROVE  /\ TypeOK' /\ Kept /\ Commands' = Commands
         /\ console' = Append(console, printed + 1) /\ printed' = printed + 1
<1>1. Dispatched /\ Linked /\ Boarded /\ Logged /\ Resulted /\ Limited
  BY TypeParts
<1>2. /\ Dispatched' /\ Kept /\ Commands' = Commands
      /\ UNCHANGED <<commands, conns, entry, on, tx, pending, target, output, results, faults>>
      /\ console' = Append(console, printed + 1) /\ printed' = printed + 1 /\ printed < MaxOutput
  BY <1>1, CommandsSame DEF Prints
<1>3. Linked' /\ Logged' /\ Resulted'
  BY <1>1, <1>2, LinkedKept, LoggedKept, ResultedKept
<1>4. printed + 1 \in 1..MaxOutput /\ console \in Seq(1..MaxOutput)
  BY <1>1, <1>2, CommandBoundsAssumption DEF Limited, Boarded
<1>5. console' \in Seq(1..MaxOutput)
  BY <1>2, <1>4
<1>6. Boarded' /\ Limited'
  BY <1>1, <1>2, <1>4, <1>5 DEF Boarded, Limited
<1>. QED BY <1>2, <1>3, <1>6, TypePartsNext
-----------------------------------------------------------------------------
(* What each step of a handler does.                                       *)

\* One connection changes, and its queue of frames does not.
LEMMA HandledIs ==
  ASSUME Linked, Dispatched, Dispatched', Kept, NEW c \in Conns, entry' \in 0..Len(conns),
         NEW u \in Seq(Message'), NEW a \in {"read", "complete", "store", "over"},
         NEW m \in Message', NEW z \in BOOLEAN,
         Becomes(c, [conns[c] EXCEPT !.up = u, !.at = a, !.got = m, !.closed = z])
  PROVE  Linked' /\ Only(c, conns[c].down, u, a, m, conns[c].cut, z)
<1> DEFINE r == [conns[c] EXCEPT !.up = u, !.at = a, !.got = m, !.closed = z]
<1>1. conns[c] \in Connections'
  BY ConnectionIs, TypesGrow
<1>2. /\ r \in Connections' /\ r.down = conns[c].down /\ r.up = u /\ r.at = a
      /\ r.got = m /\ r.cut = conns[c].cut /\ r.closed = z
  BY <1>1 DEF Connections
<1>. HIDE DEF r
<1>3. Becomes(c, r)
  BY DEF r
<1>4. /\ Linked' /\ Conns' = Conns /\ Newest' = Newest
      /\ conns'[c] = r /\ \A d \in Conns : d # c => conns'[d] = conns[d]
  BY <1>2, <1>3, BecomesIs
<1>. QED BY <1>2, <1>4 DEF Only, Others

\* The first message of a connection.
LEMMA FirstIs ==
  ASSUME TypeOK, NEW c \in Conns, conns[c].up # <<>>
  PROVE  /\ Head(conns[c].up) = conns[c].up[1] /\ 1 \in DOMAIN conns[c].up
         /\ conns[c].up[1] \in Message /\ Tail(conns[c].up) \in Seq(Message)
         /\ conns[c].up[1].cmd \in 0..Len(commands) /\ conns[c].up[1].ok \in BOOLEAN
         /\ conns[c].up[1].lines \in Seq(1..MaxOutput) /\ Len(commands) \in Nat
<1>1. Linked /\ Dispatched
  BY TypeParts
<1>2. conns[c].up \in Seq(Message)
  BY <1>1, ConnectionIs
<1>3. /\ Head(conns[c].up) = conns[c].up[1] /\ 1 \in DOMAIN conns[c].up
      /\ conns[c].up[1] \in Message /\ Tail(conns[c].up) \in Seq(Message)
  BY <1>2, TailIs
<1>. QED BY <1>1, <1>3 DEF Message, Dispatched

LEMMA NothingIs ==
  ASSUME TypeOK PROVE Nothing \in Message /\ Nothing.cmd = 0 /\ Nothing.lines = <<>>
<1>1. Dispatched
  BY TypeParts
<1>. QED BY <1>1 DEF Nothing, Result, Message, Dispatched

\* A handler takes the first message.
LEMMA TakesIs ==
  ASSUME TypeOK, NEW c \in Conns, conns[c].up # <<>>, UNCHANGED <<commands, entry>>,
         NEW a \in {"read", "complete", "store", "over"}, NEW m \in Message, Takes(c, a, m)
  PROVE  /\ Linked' /\ Dispatched' /\ Kept /\ Commands' = Commands
         /\ Only(c, conns[c].down, Tail(conns[c].up), a, m, conns[c].cut, conns[c].closed)
<1>1. Linked /\ Dispatched
  BY TypeParts
<1>2. Dispatched' /\ Kept /\ Commands' = Commands /\ Message' = Message
  BY <1>1, CommandsSame
<1>3. conns[c] \in Connections /\ conns[c].closed \in BOOLEAN /\ entry' \in 0..Len(conns)
  BY <1>1, ConnectionIs DEF Linked
<1>4. Tail(conns[c].up) \in Seq(Message')
  BY <1>2, FirstIs
<1> DEFINE r == [conns[c] EXCEPT !.up = Tail(@), !.at = a, !.got = m]
           s == [conns[c] EXCEPT !.up = Tail(conns[c].up), !.at = a, !.got = m, !.closed = conns[c].closed]
<1>5. r = s
  BY <1>3 DEF Connections
<1>6. Becomes(c, s)
  BY <1>5 DEF Takes
<1>. QED BY <1>1, <1>2, <1>3, <1>4, <1>6, HandledIs

LEMMA SingleIs ==
  ASSUME NEW S, NEW q \in Seq(S), Len(q) = 1
  PROVE  Head(q) = q[1] /\ q[1] \in S
<1>1. q # <<>>
  OBVIOUS
<1>. QED BY <1>1, TailIs

\* A line of output goes into the buffer.
LEMMA OutputIs ==
  ASSUME TypeOK, Carried, NEW c \in Conns, Output(c)
  PROVE  LET m == conns[c].up[1] IN
         /\ TypeOK' /\ Kept /\ Commands' = Commands
         /\ conns[c].up # <<>> /\ conns[c].at = "read" /\ m.cmd = 0 /\ Len(m.lines) = 1
         /\ Only(c, conns[c].down, Tail(conns[c].up), "read", Nothing, conns[c].cut, conns[c].closed)
         /\ <<c, m.lines[1]>> \in Rows /\ buf' = Append(buf, <<c, m.lines[1]>>)
<1> DEFINE m == conns[c].up[1]
<1>1. Dispatched /\ Linked /\ Boarded /\ Logged /\ Resulted /\ Limited
  BY TypeParts
<1>2. /\ conns[c].up # <<>> /\ conns[c].at = "read" /\ Head(conns[c].up).cmd = 0
      /\ Takes(c, "read", Nothing) /\ buf' = Append(buf, <<c, Head(Head(conns[c].up).lines)>>)
      /\ UNCHANGED <<commands, entry, board, db, log, request, need, lost, results, printed, faults>>
  BY DEF Output, Reading
<1>3. Head(conns[c].up) = m /\ m.lines \in Seq(1..MaxOutput) /\ 1 \in DOMAIN conns[c].up
  BY <1>2, FirstIs
<1>4. m.cmd = 0 /\ Len(m.lines) = 1
  BY <1>2, <1>3 DEF Carried, Own
<1>5. Head(m.lines) = m.lines[1] /\ m.lines[1] \in 1..MaxOutput
  BY <1>3, <1>4, SingleIs
<1>6. c \in 1..MaxConns
  BY <1>1, CommandBoundsAssumption DEF Conns, Linked
<1>7. <<c, m.lines[1]>> \in Rows /\ buf' = Append(buf, <<c, m.lines[1]>>)
  BY <1>2, <1>3, <1>5, <1>6 DEF Rows
<1>8. /\ Linked' /\ Dispatched' /\ Kept /\ Commands' = Commands
      /\ Only(c, conns[c].down, Tail(conns[c].up), "read", Nothing, conns[c].cut, conns[c].closed)
  BY <1>2, NothingIs, TakesIs
<1>. HIDE DEF m
<1>9. buf' \in Seq(Rows)
  BY <1>1, <1>7 DEF Logged
<1>10. Logged'
  BY <1>1, <1>2, <1>9 DEF Logged, Rows
<1>11. Boarded' /\ Resulted' /\ Limited'
  BY <1>1, <1>2, <1>8, BoardedKept, ResultedKept DEF Limited
<1>12. TypeOK'
  BY <1>8, <1>10, <1>11, TypePartsNext
<1>. QED BY <1>2, <1>4, <1>7, <1>8, <1>12 DEF m

\* A result comes; an ack of the bridge is swallowed.
LEMMA ResultComesIs ==
  ASSUME TypeOK, NEW c \in Conns, ResultComes(c)
  PROVE  LET m == conns[c].up[1] IN
         /\ TypeOK' /\ Kept /\ Commands' = Commands
         /\ conns[c].up # <<>> /\ conns[c].at = "read" /\ m.cmd # 0
         /\ \/ Only(c, conns[c].down, Tail(conns[c].up), "read", Nothing, conns[c].cut, conns[c].closed)
            \/ Only(c, conns[c].down, Tail(conns[c].up), "complete", m, conns[c].cut, conns[c].closed)
<1> DEFINE m == conns[c].up[1]
<1>1. Dispatched /\ Linked /\ Boarded /\ Logged /\ Resulted /\ Limited
  BY TypeParts
<1>2. /\ conns[c].up # <<>> /\ conns[c].at = "read"
      /\ UNCHANGED <<commands, entry, board, output, results, printed, faults>>
  BY DEF ResultComes, Reading
<1>3. Head(conns[c].up) = m /\ m \in Message
  BY <1>2, FirstIs
<1>4. m.cmd # 0 /\ (Takes(c, "read", Nothing) \/ Takes(c, "complete", m))
  BY <1>3 DEF ResultComes
<1>. HIDE DEF m
<1>5. /\ Linked' /\ Dispatched' /\ Kept /\ Commands' = Commands
      /\ \/ Only(c, conns[c].down, Tail(conns[c].up), "read", Nothing, conns[c].cut, conns[c].closed)
         \/ Only(c, conns[c].down, Tail(conns[c].up), "complete", m, conns[c].cut, conns[c].closed)
  BY <1>2, <1>3, <1>4, NothingIs, TakesIs
<1>6. Boarded' /\ Logged' /\ Resulted' /\ Limited'
  BY <1>1, <1>2, <1>5, BoardedKept, LoggedKept, ResultedKept DEF Limited
<1>7. TypeOK'
  BY <1>5, <1>6, TypePartsNext
<1>. QED BY <1>2, <1>4, <1>5, <1>7 DEF m

\* What a handler has in hand is a result of a command.
LEMMA GotIs ==
  ASSUME TypeOK, Carried, NEW c \in Conns, conns[c].at \in {"complete", "store"}
  PROVE  /\ conns[c].got \in Message /\ conns[c].got.cmd \in Commands
         /\ conns[c].got.lines \in Seq(1..MaxOutput) /\ conns[c].got.ok \in BOOLEAN
         /\ commands[conns[c].got.cmd].conn = c
<1>1. Dispatched /\ Linked
  BY TypeParts
<1>2. conns[c].got \in Message
  BY <1>1, ConnectionIs
<1>3. conns[c].got.cmd # 0 /\ commands[conns[c].got.cmd].conn = c
  BY DEF Carried
<1>. QED BY <1>1, <1>2, <1>3 DEF Message, Commands, Dispatched

\* The row is completed with what the result says.
LEMMA CompleteIs ==
  ASSUME TypeOK, Carried, NEW c \in Conns, Complete(c)
  PROVE  LET m == conns[c].got IN
         /\ TypeOK' /\ Kept /\ Commands' = Commands /\ m.cmd \in Commands
         /\ conns[c].at = "complete" /\ commands[m.cmd].conn = c
         /\ Only(c, conns[c].down, conns[c].up, "store", m, conns[c].cut, conns[c].closed)
         /\ commands'[m.cmd].at = commands[m.cmd].at /\ commands'[m.cmd].row = Status(m.ok)
         /\ \A i \in Commands : i # m.cmd => commands'[i] = commands[i]
<1> DEFINE m == conns[c].got
<1>1. Dispatched /\ Linked /\ Boarded /\ Logged /\ Resulted /\ Limited
  BY TypeParts
<1>2. /\ conns[c].at = "complete" /\ Moves(m.cmd, commands[m.cmd].at, Status(m.ok))
      /\ Becomes(c, [conns[c] EXCEPT !.at = "store"])
      /\ UNCHANGED <<entry, board, output, results, printed, faults>>
  BY DEF Complete
<1>3. m \in Message /\ m.cmd \in Commands /\ commands[m.cmd].conn = c
  BY <1>2, GotIs
<1>4. commands[m.cmd].at \in {"insert", "fail", "over"}
  BY <1>1, <1>3, CommandIs
<1>5. /\ conns[c] \in Connections /\ conns[c].closed \in BOOLEAN /\ conns[c].up \in Seq(Message)
      /\ entry' \in 0..Len(conns)
  BY <1>1, <1>2, ConnectionIs DEF Linked
<1>6. [conns[c] EXCEPT !.at = "store"] =
        [conns[c] EXCEPT !.up = conns[c].up, !.at = "store", !.got = m, !.closed = conns[c].closed]
  BY <1>5 DEF Connections
<1>7. Becomes(c, [conns[c] EXCEPT !.up = conns[c].up, !.at = "store", !.got = m,
                                  !.closed = conns[c].closed])
  BY <1>2, <1>6
<1>. HIDE DEF m
<1>8. Status(m.ok) \in {"none", "sent", "done", "failed"}
  BY DEF Status
<1>9. /\ Dispatched' /\ Kept /\ Commands' = Commands
      /\ commands'[m.cmd].at = commands[m.cmd].at /\ commands'[m.cmd].row = Status(m.ok)
      /\ \A i \in Commands : i # m.cmd => commands'[i] = commands[i]
  BY <1>1, <1>2, <1>3, <1>4, <1>8, RowKept
<1>10. m \in Message' /\ conns[c].up \in Seq(Message')
  BY <1>1, <1>3, <1>5, <1>9, TypesGrow
<1>11. Linked' /\ Only(c, conns[c].down, conns[c].up, "store", m, conns[c].cut, conns[c].closed)
  BY <1>1, <1>5, <1>7, <1>9, <1>10, HandledIs
<1>12. Boarded' /\ Logged' /\ Resulted' /\ Limited'
  BY <1>1, <1>2, <1>9, BoardedKept, LoggedKept, ResultedKept DEF Limited
<1>13. TypeOK'
  BY <1>9, <1>11, <1>12, TypePartsNext
<1>. QED BY <1>2, <1>3, <1>9, <1>11, <1>13 DEF m

\* The lines of the result are stored.
LEMMA InsertResultIs ==
  ASSUME TypeOK, Carried, NEW c \in Conns, InsertResult(c)
  PROVE  LET m == conns[c].got IN
         /\ TypeOK' /\ Kept /\ Commands' = Commands /\ m.cmd \in Commands
         /\ conns[c].at = "store" /\ commands[m.cmd].conn = c
         /\ results' = results \union {<<m.cmd, m.lines>>} /\ m.lines \in Seq(1..MaxOutput)
         /\ Only(c, conns[c].down, conns[c].up, "read", Nothing, conns[c].cut, conns[c].closed)
<1> DEFINE m == conns[c].got
<1>1. Dispatched /\ Linked /\ Boarded /\ Logged /\ Resulted /\ Limited
  BY TypeParts
<1>2. /\ conns[c].at = "store" /\ results' = results \union {<<m.cmd, m.lines>>}
      /\ Becomes(c, [conns[c] EXCEPT !.at = "read", !.got = Nothing])
      /\ UNCHANGED <<commands, entry, board, output, printed, faults>>
  BY DEF InsertResult
<1>3. m \in Message /\ m.cmd \in Commands /\ m.lines \in Seq(1..MaxOutput) /\ commands[m.cmd].conn = c
  BY <1>2, GotIs
<1>4. Dispatched' /\ Kept /\ Commands' = Commands /\ Message' = Message
  BY <1>1, <1>2, CommandsSame
<1>5. /\ conns[c] \in Connections /\ conns[c].closed \in BOOLEAN /\ conns[c].up \in Seq(Message)
      /\ entry' \in 0..Len(conns)
  BY <1>1, <1>2, ConnectionIs DEF Linked
<1>6. [conns[c] EXCEPT !.at = "read", !.got = Nothing] =
        [conns[c] EXCEPT !.up = conns[c].up, !.at = "read", !.got = Nothing, !.closed = conns[c].closed]
  BY <1>5 DEF Connections
<1>7. Becomes(c, [conns[c] EXCEPT !.up = conns[c].up, !.at = "read", !.got = Nothing,
                                  !.closed = conns[c].closed])
  BY <1>2, <1>6
<1>. HIDE DEF m
<1>8. Linked' /\ Only(c, conns[c].down, conns[c].up, "read", Nothing, conns[c].cut, conns[c].closed)
  BY <1>1, <1>4, <1>5, <1>7, NothingIs, HandledIs
<1>9. Resulted'
  BY <1>1, <1>2, <1>3, <1>4 DEF Resulted
<1>10. Boarded' /\ Logged' /\ Limited'
  BY <1>1, <1>2, <1>4, BoardedKept, LoggedKept DEF Limited
<1>11. TypeOK'
  BY <1>4, <1>8, <1>9, <1>10, TypePartsNext
<1>. QED BY <1>2, <1>3, <1>4, <1>8, <1>11 DEF m

\* A handler ends, and its connection is closed.
LEMMA EndsIs ==
  ASSUME TypeOK, NEW c \in Conns, Eof(c) \/ HandlerRaises(c)
  PROVE  /\ TypeOK' /\ Kept /\ Commands' = Commands
         /\ Only(c, conns[c].down, <<>>, "over", Nothing, conns[c].cut, TRUE)
<1>1. Dispatched /\ Linked /\ Boarded /\ Logged /\ Resulted /\ Limited
  BY TypeParts
<1>2. Ends(c) /\ UNCHANGED <<commands, board, output, results, printed>> /\ (UNCHANGED faults \/ Fault)
  BY DEF Eof, HandlerRaises
<1>3. Dispatched' /\ Kept /\ Commands' = Commands /\ Message' = Message
  BY <1>1, <1>2, CommandsSame
<1>4. conns[c] \in Connections /\ entry' \in 0..Len(conns)
  BY <1>1, <1>2, ConnectionIs DEF Linked, Ends
<1>5. [conns[c] EXCEPT !.at = "over", !.got = Nothing, !.closed = TRUE, !.up = <<>>] =
        [conns[c] EXCEPT !.up = <<>>, !.at = "over", !.got = Nothing, !.closed = TRUE]
  BY <1>4 DEF Connections
<1>6. Becomes(c, [conns[c] EXCEPT !.up = <<>>, !.at = "over", !.got = Nothing, !.closed = TRUE])
  BY <1>2, <1>5 DEF Ends
<1>7. <<>> \in Seq(Message)
  OBVIOUS
<1>8. Linked' /\ Only(c, conns[c].down, <<>>, "over", Nothing, conns[c].cut, TRUE)
  BY <1>1, <1>3, <1>4, <1>6, <1>7, NothingIs, HandledIs
<1>9. Boarded' /\ Logged' /\ Resulted'
  BY <1>1, <1>2, <1>3, BoardedKept, LoggedKept, ResultedKept
<1>10. Limited'
  BY <1>1, <1>2, FaultLimited DEF Limited
<1>. QED BY <1>3, <1>8, <1>9, <1>10, TypePartsNext
-----------------------------------------------------------------------------
(* The rows that the hub holds.                                            *)

LEMMA ConcatIs ==
  ASSUME NEW S, NEW s \in Seq(S), NEW t \in Seq(S)
  PROVE  /\ s \o t \in Seq(S) /\ DOMAIN (s \o t) = 1..(Len(s) + Len(t))
         /\ DOMAIN s = 1..Len(s) /\ DOMAIN t = 1..Len(t) /\ Len(s) \in Nat /\ Len(t) \in Nat
         /\ \A p \in 1..(Len(s) + Len(t)) :
              (s \o t)[p] = IF p <= Len(s) THEN s[p] ELSE t[p - Len(s)]
OBVIOUS

\* Every row of two queues together is one of either.
LEMMA ConcatRows ==
  ASSUME NEW S, NEW s \in Seq(S), NEW t \in Seq(S), NEW p \in DOMAIN (s \o t)
  PROVE  \/ p \in DOMAIN s /\ (s \o t)[p] = s[p]
         \/ p - Len(s) \in DOMAIN t /\ (s \o t)[p] = t[p - Len(s)] /\ p > Len(s)
<1>1. p \in 1..(Len(s) + Len(t)) /\ Len(s) \in Nat /\ Len(t) \in Nat
  BY ConcatIs
<1>2. CASE p <= Len(s)
  BY <1>1, <1>2, ConcatIs
<1>3. CASE p > Len(s)
  <2>1. p - Len(s) \in 1..Len(t) /\ ~(p <= Len(s))
    BY <1>1, <1>3
  <2>. QED BY <1>1, <1>3, <2>1, ConcatIs
<1>. QED BY <1>1, <1>2, <1>3

\* Two parts in order, one before the other, are in order together.
LEMMA RisesConcat ==
  ASSUME NEW s \in Seq(Rows), NEW t \in Seq(Rows), Rises(s), Rises(t), Before(s, t)
  PROVE  Rises(s \o t)
<1>1. SUFFICES ASSUME NEW p \in DOMAIN (s \o t), NEW q \in DOMAIN (s \o t), p < q
               PROVE  Follows((s \o t)[p], (s \o t)[q])
  BY DEF Rises
<1>2. \/ p \in DOMAIN s /\ (s \o t)[p] = s[p]
      \/ p - Len(s) \in DOMAIN t /\ (s \o t)[p] = t[p - Len(s)] /\ p > Len(s)
  BY ConcatRows
<1>3. \/ q \in DOMAIN s /\ (s \o t)[q] = s[q]
      \/ q - Len(s) \in DOMAIN t /\ (s \o t)[q] = t[q - Len(s)] /\ q > Len(s)
  BY ConcatRows
<1>4. p \in Nat /\ q \in Nat /\ Len(s) \in Nat /\ DOMAIN s = 1..Len(s)
  BY ConcatIs
<1>5. CASE p \in DOMAIN s /\ (s \o t)[p] = s[p]
  BY <1>1, <1>3, <1>5 DEF Rises, Before
<1>6. CASE p - Len(s) \in DOMAIN t /\ (s \o t)[p] = t[p - Len(s)] /\ p > Len(s)
  <2>1. ~(q \in DOMAIN s) /\ p - Len(s) < q - Len(s)
    BY <1>1, <1>4, <1>6
  <2>. QED BY <1>3, <1>6, <2>1 DEF Rises
<1>. QED BY <1>2, <1>5, <1>6

LEMMA BeforeConcat ==
  ASSUME NEW s \in Seq(Rows), NEW t \in Seq(Rows), NEW u, Before(s, u), Before(t, u)
  PROVE  Before(s \o t, u)
<1>1. SUFFICES ASSUME NEW p \in DOMAIN (s \o t), NEW q \in DOMAIN u
               PROVE  Follows((s \o t)[p], u[q])
  BY DEF Before
<1>. QED BY ConcatRows DEF Before

LEMMA RangeConcat ==
  ASSUME NEW S, NEW s \in Seq(S), NEW t \in Seq(S)
  PROVE  Range(s \o t) = Range(s) \union Range(t)
<1>1. ASSUME NEW r \in Range(s \o t) PROVE r \in Range(s) \union Range(t)
  <2>1. PICK p \in DOMAIN (s \o t) : r = (s \o t)[p]
    BY <1>1 DEF Range
  <2>. QED BY <2>1, ConcatRows DEF Range
<1>2. ASSUME NEW r \in Range(s) PROVE r \in Range(s \o t)
  <2>1. PICK p \in 1..Len(s) : r = s[p]
    BY <1>2, ConcatIs DEF Range
  <2>2. p \in 1..(Len(s) + Len(t)) /\ (s \o t)[p] = s[p]
    BY ConcatIs
  <2>3. p \in DOMAIN (s \o t)
    BY <2>2, ConcatIs
  <2>. QED BY <2>1, <2>2, <2>3 DEF Range
<1>3. ASSUME NEW r \in Range(t) PROVE r \in Range(s \o t)
  <2>1. PICK p \in 1..Len(t) : r = t[p]
    BY <1>3, ConcatIs DEF Range
  <2>2. /\ Len(s) + p \in 1..(Len(s) + Len(t)) /\ ~(Len(s) + p <= Len(s))
        /\ (Len(s) + p) - Len(s) = p
    BY ConcatIs
  <2>3. (s \o t)[Len(s) + p] = t[p]
    BY <2>2, ConcatIs
  <2>4. Len(s) + p \in DOMAIN (s \o t)
    BY <2>2, ConcatIs
  <2>5. r = (s \o t)[Len(s) + p]
    BY <2>1, <2>3
  <2>. QED BY <2>4, <2>5 DEF Range
<1>. QED BY <1>1, <1>2, <1>3

Ordered ==
  /\ \A j \in Parts : Rises(Part(j))
  /\ \A j, k \in Parts : j < k => Before(Part(j), Part(k))
Apart ==
  \A r \in results : \A l \in Range(r[2]) :
    /\ \A row \in Received : row[2] # l
    /\ \A s \in results : l \in Range(s[2]) => s = r

LEMMA OnceParts == OutputOnce <=> Ordered /\ Apart
BY DEF OutputOnce, Ordered, Apart

LEMMA OncePartsNext == Ordered' /\ Apart' => OutputOnce'
BY DEF OutputOnce, Ordered, Apart

Request == [by : {"flusher", "flush", "start", "list"}, rows : Seq(Rows)]

LEMMA PartIs ==
  ASSUME Logged
  PROVE  /\ Len(db) \in Nat /\ DOMAIN db = 1..Len(db) /\ \A j \in Parts : Part(j) \in Seq(Rows)
         /\ \A j \in DOMAIN db : db[j].rows \in Seq(Rows)
         /\ Part(0) = log /\ Part(Len(db) + 1) = buf
         /\ \A j \in 1..Len(db) : Part(j) = db[j].rows
<1>1. Len(db) \in Nat /\ DOMAIN db = 1..Len(db) /\ log \in Seq(Rows) /\ buf \in Seq(Rows)
  BY DEF Logged
<1>2. \A j \in DOMAIN db : db[j].rows \in Seq(Rows)
  <2>1. db \in Seq(Request)
    BY DEF Logged, Request
  <2>2. \A j \in DOMAIN db : db[j] \in Request
    BY <2>1
  <2>. QED BY <2>2 DEF Request
<1>. QED BY <1>1, <1>2 DEF Part, Parts

\* What was received is in one of the parts.
LEMMA ReceivedIs ==
  ASSUME Logged, NEW row
  PROVE  row \in Received <=> \E j \in Parts : row \in Range(Part(j))
<1>1. /\ Len(db) \in Nat /\ DOMAIN db = 1..Len(db) /\ Part(0) = log /\ Part(Len(db) + 1) = buf
      /\ \A j \in 1..Len(db) : Part(j) = db[j].rows
  BY PartIs
<1>2. Parts = {0, Len(db) + 1} \union 1..Len(db)
  BY <1>1 DEF Parts
<1>. QED BY <1>1, <1>2 DEF Received

\* The parts move on, and their order stays: those that are left, or a part logged.
Moved(f) ==
  /\ \A j \in Parts' : \/ Part(j)' = <<>>
                       \/ /\ f[j] \in Parts
                          /\ \/ Part(j)' = Part(f[j])
                             \/ j = 0 /\ f[0] = 1 /\ Part(0)' = Part(0) \o Part(1)
  /\ \A j, k \in Parts' : j < k /\ Part(j)' # <<>> /\ Part(k)' # <<>> => f[j] < f[k]

\* Parts that only move on stay in order.
LEMMA MovedOrder ==
  ASSUME Logged, Logged', Ordered, NEW f, Moved(f)
  PROVE  Ordered'
<1>1. \A j \in Parts : Part(j) \in Seq(Rows) /\ Rises(Part(j))
  BY PartIs DEF Ordered
<1>2. \A j, k \in Parts : j < k => Before(Part(j), Part(k))
  BY DEF Ordered
<1>3. 0 \in Parts /\ 1 \in Parts /\ Parts \subseteq Nat
  BY PartIs DEF Parts
<1>6. Parts' \subseteq Nat
  BY DEF Logged, Parts
<1>4. ASSUME NEW j \in Parts' PROVE Rises(Part(j)')
  <2>1. CASE Part(j)' = <<>>
    BY <2>1 DEF Rises
  <2>2. CASE f[j] \in Parts /\ Part(j)' = Part(f[j])
    BY <1>1, <2>2
  <2>3. CASE j = 0 /\ f[0] = 1 /\ Part(0)' = Part(0) \o Part(1)
    <3>1. Rises(Part(0) \o Part(1))
      BY <1>1, <1>2, <1>3, RisesConcat
    <3>. QED BY <2>3, <3>1
  <2>. QED BY <2>1, <2>2, <2>3 DEF Moved
<1>5. ASSUME NEW j \in Parts', NEW k \in Parts', j < k PROVE Before(Part(j)', Part(k)')
  <2>1. CASE Part(j)' = <<>> \/ Part(k)' = <<>>
    BY <2>1 DEF Before
  <2>2. CASE Part(j)' # <<>> /\ Part(k)' # <<>>
    <3>1. f[j] \in Parts /\ f[k] \in Parts /\ f[j] < f[k]
      BY <1>5, <2>2 DEF Moved
    <3>2. k # 0
      BY <1>5, <1>6
    <3>3. Part(k)' = Part(f[k])
      BY <2>2, <3>2 DEF Moved
    <3>4. CASE Part(j)' = Part(f[j])
      BY <1>2, <3>1, <3>3, <3>4
    <3>5. CASE j = 0 /\ f[0] = 1 /\ Part(0)' = Part(0) \o Part(1)
      <4>0. f[j] = 1
        BY <3>5
      <4>1. 0 < f[k] /\ 1 < f[k]
        <5>1. f[k] \in Nat /\ f[j] < f[k]
          BY <1>3, <3>1
        <5>. QED BY <4>0, <5>1
      <4>2. Before(Part(0), Part(f[k])) /\ Before(Part(1), Part(f[k]))
        BY <1>2, <1>3, <3>1, <4>1
      <4>3. Before(Part(0) \o Part(1), Part(f[k]))
        BY <1>1, <1>3, <4>2, BeforeConcat
      <4>. QED BY <3>3, <3>5, <4>3
    <3>. QED BY <2>2, <3>4, <3>5 DEF Moved
  <2>. QED BY <2>1, <2>2
<1>. QED BY <1>4, <1>5 DEF Ordered, Rises, Before, Follows

\* and hold nothing that was not received.
LEMMA MovedReceived ==
  ASSUME Logged, Logged', NEW f, Moved(f)
  PROVE  Received' \subseteq Received
<1>1. SUFFICES ASSUME NEW row, row \in Received' PROVE row \in Received
  OBVIOUS
<1>2. PICK j \in Parts' : row \in Range(Part(j)')
  <2>1. Len(db') \in Nat /\ DOMAIN db' = 1..Len(db')
    BY DEF Logged
  <2>2. /\ 0 \in Parts' /\ Len(db') + 1 \in Parts' /\ Part(0)' = log' /\ Part(Len(db) + 1)' = buf'
    BY <2>1 DEF Parts, Part
  <2>3. \A k \in 1..Len(db') : k \in Parts' /\ Part(k)' = db'[k].rows
    BY <2>1 DEF Parts, Part
  <2>4. \/ row \in Range(log') \/ row \in Range(buf')
        \/ \E k \in DOMAIN db' : row \in Range(db'[k].rows)
    BY <1>1 DEF Received, Range
  <2>. QED BY <2>1, <2>2, <2>3, <2>4
<1>3. Part(j)' # <<>>
  BY <1>2 DEF Range
<1>4. CASE f[j] \in Parts /\ Part(j)' = Part(f[j])
  <2>1. row \in Range(Part(f[j]))
    BY <1>2, <1>4 DEF Range
  <2>. QED BY <1>4, <2>1, ReceivedIs
<1>5. CASE j = 0 /\ f[0] = 1 /\ Part(0)' = Part(0) \o Part(1)
  <2>1. 0 \in Parts /\ 1 \in Parts
    BY PartIs DEF Parts
  <2>2. Part(0) \in Seq(Rows) /\ Part(1) \in Seq(Rows)
    BY <2>1, PartIs
  <2>3. row \in Range(Part(0) \o Part(1))
    BY <1>2, <1>5 DEF Range
  <2>4. row \in Range(Part(0)) \/ row \in Range(Part(1))
    BY <2>2, <2>3, RangeConcat
  <2>. QED BY <2>1, <2>4, ReceivedIs
<1>. QED BY <1>3, <1>4, <1>5 DEF Moved

\* So each line is still stored once.
LEMMA MovedOnce ==
  ASSUME Logged, Logged', OutputOnce, NEW f, Moved(f), UNCHANGED results
  PROVE  OutputOnce' /\ Received' \subseteq Received
<1>1. Ordered /\ Apart
  BY OnceParts
<1>2. Ordered' /\ Received' \subseteq Received
  BY <1>1, MovedOrder, MovedReceived
<1>3. Apart'
  BY <1>1, <1>2 DEF Apart, Range
<1>. QED BY <1>2, <1>3, OncePartsNext
-----------------------------------------------------------------------------
(* The steps of the output log.                                            *)

LEMMA AsksIs ==
  ASSUME Logged, NEW by \in {"flusher", "flush", "start", "list"}, NEW rows \in Seq(Rows),
         Asks(by, rows)
  PROVE  /\ db' \in Seq(Request) /\ Len(db) \in Nat /\ Len(db') = Len(db) + 1
         /\ DOMAIN db = 1..Len(db) /\ DOMAIN db' = 1..(Len(db) + 1)
         /\ db'[Len(db) + 1] = [by |-> by, rows |-> rows]
         /\ \A j \in 1..Len(db) : db'[j] = db[j]
<1>1. db \in Seq(Request)
  BY DEF Logged, Request
<1>2. [by |-> by, rows |-> rows] \in Request
  BY DEF Request
<1>. QED BY <1>1, <1>2 DEF Asks

\* The buffer becomes a request,
LEMMA FlushMoved ==
  ASSUME Logged, NEW by \in {"flusher", "flush", "start", "list"}, FlushedBy(by), UNCHANGED log
  PROVE  \E f : Moved(f)
<1> DEFINE f == [j \in Nat |-> j]
<1>1. buf \in Seq(Rows) /\ Asks(by, buf) /\ buf' = <<>>
  BY DEF Logged, FlushedBy
<1>2. /\ Len(db) \in Nat /\ Len(db') = Len(db) + 1
      /\ DOMAIN db = 1..Len(db) /\ DOMAIN db' = 1..(Len(db) + 1)
      /\ db'[Len(db) + 1] = [by |-> by, rows |-> buf]
      /\ \A j \in 1..Len(db) : db'[j] = db[j]
  BY <1>1, AsksIs
<1>3. Parts' = 0..(Len(db) + 2) /\ Parts = 0..(Len(db) + 1)
  BY <1>2 DEF Parts
<1>4. Part(0)' = Part(0)
  BY DEF Part
<1>5. \A j \in 1..Len(db) : Part(j)' = Part(j)
  BY <1>2 DEF Part
<1>6. Part(Len(db) + 1) = buf
  BY PartIs
<1>7. ASSUME NEW j, j = Len(db) + 1 PROVE Part(j)' = buf
  <2>1. j # 0 /\ j \in DOMAIN db'
    BY <1>2, <1>7
  <2>. QED BY <1>2, <1>7, <2>1 DEF Part
<1>8. ASSUME NEW j, j = Len(db) + 2 PROVE Part(j)' = <<>>
  <2>1. j # 0 /\ j \notin DOMAIN db'
    BY <1>2, <1>8
  <2>. QED BY <1>1, <2>1 DEF Part
<1>9. \A j \in Parts' : j \in {0, Len(db) + 1, Len(db) + 2} \/ j \in 1..Len(db)
  BY <1>2, <1>3
<1>10. \A j \in Parts' : Part(j)' = <<>> \/ (j \in Parts /\ Part(j)' = Part(j))
  BY <1>2, <1>3, <1>4, <1>5, <1>6, <1>7, <1>8, <1>9
<1>11. \A j \in Parts' : f[j] = j
  BY <1>2, <1>3
<1>. HIDE DEF f
<1>12. Moved(f)
  BY <1>10, <1>11 DEF Moved
<1>. QED BY <1>12

\* or nothing moves, when it is empty or a listing is asked for,
LEMMA ListMoved ==
  ASSUME Logged, NEW by \in {"flusher", "flush", "start", "list"}, Asks(by, <<>>),
         UNCHANGED <<buf, log>>
  PROVE  \E f : Moved(f)
<1> DEFINE f == [j \in Nat |-> IF j = Len(db) + 2 THEN Len(db) + 1 ELSE j]
<1>1. <<>> \in Seq(Rows)
  OBVIOUS
<1>2. /\ Len(db) \in Nat /\ Len(db') = Len(db) + 1
      /\ DOMAIN db = 1..Len(db) /\ DOMAIN db' = 1..(Len(db) + 1)
      /\ db'[Len(db) + 1] = [by |-> by, rows |-> <<>>]
      /\ \A j \in 1..Len(db) : db'[j] = db[j]
  BY <1>1, AsksIs
<1>3. Parts' = 0..(Len(db) + 2) /\ Parts = 0..(Len(db) + 1)
  BY <1>2 DEF Parts
<1>4. Part(0)' = Part(0)
  BY DEF Part
<1>5. \A j \in 1..Len(db) : Part(j)' = Part(j)
  BY <1>2 DEF Part
<1>6. Part(Len(db) + 1) = buf
  BY PartIs
<1>7. ASSUME NEW j, j = Len(db) + 1 PROVE Part(j)' = <<>>
  <2>1. j # 0 /\ j \in DOMAIN db'
    BY <1>2, <1>7
  <2>. QED BY <1>2, <1>7, <2>1 DEF Part
<1>8. ASSUME NEW j, j = Len(db) + 2 PROVE Part(j)' = buf
  <2>1. j # 0 /\ j \notin DOMAIN db'
    BY <1>2, <1>8
  <2>. QED BY <1>1, <2>1 DEF Part
<1>9. \A j \in Parts' : j \in {0, Len(db) + 1, Len(db) + 2} \/ j \in 1..Len(db)
  BY <1>2, <1>3
<1>10. \A j \in Parts' : f[j] = IF j = Len(db) + 2 THEN Len(db) + 1 ELSE j
  BY <1>2, <1>3
<1>. HIDE DEF f
<1>11. \A j \in Parts' : Part(j)' = <<>> \/ (f[j] \in Parts /\ Part(j)' = Part(f[j]))
  BY <1>2, <1>3, <1>4, <1>5, <1>6, <1>7, <1>8, <1>9, <1>10
<1>12. ASSUME NEW j \in Parts', NEW k \in Parts', j < k, Part(j)' # <<>> PROVE f[j] < f[k]
  <2>1. j # Len(db) + 1 /\ j # Len(db) + 2
    BY <1>2, <1>3, <1>7, <1>12
  <2>2. f[j] = j /\ j < Len(db) + 1
    BY <1>2, <1>3, <1>10, <2>1
  <2>. QED BY <1>2, <1>3, <1>10, <1>12, <2>2
<1>13. Moved(f)
  BY <1>11, <1>12 DEF Moved
<1>. QED BY <1>13

\* The places among the parts of a queue.
LEMMA Spots ==
  ASSUME NEW N \in Nat \ {0}, NEW j \in 0..(N + 1)
  PROVE  /\ j \in Nat /\ (j = 0 \/ j \in 1..(N - 1) \/ j = N \/ j = N + 1)
         /\ j <= N => j = 0 \/ j \in 1..(N - 1) \/ j = N
OBVIOUS

\* and the first request goes, logged or not; another comes, or not.
LEMMA TailMoved ==
  ASSUME Logged, db # <<>>, UNCHANGED buf, log' \in {log, log \o db[1].rows},
         NEW by, db' = Tail(db) \/ db' = Append(Tail(db), [by |-> by, rows |-> <<>>])
  PROVE  \E f : Moved(f)
<1> DEFINE f == [j \in Nat |-> IF j = 0 THEN (IF log' = log THEN 0 ELSE 1)
                               ELSE IF j = Len(db) + 1 THEN j ELSE j + 1]
<1>1. /\ Len(db) \in Nat \ {0} /\ DOMAIN db = 1..Len(db)
      /\ Len(Tail(db)) = Len(db) - 1 /\ DOMAIN Tail(db) = 1..(Len(db) - 1)
      /\ \A j \in 1..(Len(db) - 1) : Tail(db)[j] = db[j + 1]
  BY TailIs DEF Logged
<1>2. /\ Part(0) = log /\ Part(1) = db[1].rows /\ Part(Len(db) + 1) = buf
      /\ \A j \in 1..Len(db) : Part(j) = db[j].rows
  BY <1>1, PartIs
<1>3. Part(0)' = log' /\ Parts = 0..(Len(db) + 1) /\ 1 \in Parts /\ 0 \in Parts
  BY <1>1 DEF Part, Parts
<1>4. \A j \in Nat : f[j] = IF j = 0 THEN (IF log' = log THEN 0 ELSE 1)
                            ELSE IF j = Len(db) + 1 THEN j ELSE j + 1
  OBVIOUS
<1>. HIDE DEF f
<1>5. /\ f[0] \in Parts
      /\ Part(0)' = Part(f[0]) \/ (f[0] = 1 /\ Part(0)' = Part(0) \o Part(1))
  BY <1>2, <1>3, <1>4
<1>6. CASE db' = Tail(db)
  <2>1. Parts' = 0..Len(db)
    BY <1>1, <1>6 DEF Parts
  <2>2. ASSUME NEW j \in 1..(Len(db) - 1) PROVE f[j] = j + 1 /\ f[j] \in Parts /\ Part(j)' = Part(f[j])
    <3>1. f[j] = j + 1 /\ j + 1 \in 1..Len(db) /\ j # 0 /\ f[j] \in Parts
      BY <1>1, <1>3, <1>4
    <3>2. Part(j)' = db'[j].rows /\ db'[j] = db[j + 1]
      BY <1>1, <1>6, <3>1 DEF Part
    <3>. QED BY <1>2, <3>1, <3>2
  <2>3. ASSUME NEW j, j = Len(db) PROVE f[j] = j + 1 /\ f[j] \in Parts /\ Part(j)' = Part(f[j])
    <3>1. f[j] = j + 1 /\ f[j] \in Parts /\ j # 0 /\ j \notin 1..(Len(db) - 1)
      BY <1>1, <1>3, <1>4, <2>3
    <3>2. Part(j)' = buf'
      BY <1>1, <1>6, <3>1 DEF Part
    <3>. QED BY <1>2, <2>3, <3>1, <3>2
  <2>4. ASSUME NEW j \in Parts' PROVE j = 0 \/ j \in 1..(Len(db) - 1) \/ j = Len(db)
    <3>1. j \in 0..(Len(db) + 1) /\ j <= Len(db) /\ Len(db) \in Nat \ {0}
      BY <1>1, <2>1
    <3>. QED BY <3>1, Spots, Zenon
  <2>5. \A j \in Parts' : j # 0 => f[j] = j + 1 /\ f[j] \in Parts /\ Part(j)' = Part(f[j])
    BY <2>2, <2>3, <2>4
  <2>6. \A j, k \in Parts' : j < k => f[j] < f[k]
    <3>1. f[0] \in {0, 1}
      BY <1>4
    <3>2. Parts' \subseteq Nat
      BY <1>1, <2>1
    <3>. QED BY <2>5, <3>1, <3>2
  <2>7. Moved(f)
    BY <1>5, <2>5, <2>6 DEF Moved
  <2>. QED BY <2>7
<1>7. CASE db' = Append(Tail(db), [by |-> by, rows |-> <<>>])
  <2>1. /\ DOMAIN db' = 1..Len(db) /\ Len(db') = Len(db) /\ db'[Len(db)] = [by |-> by, rows |-> <<>>]
        /\ \A j \in 1..(Len(db) - 1) : db'[j] = db[j + 1]
    BY <1>1, <1>7
  <2>2. Parts' = 0..(Len(db) + 1)
    BY <1>1, <2>1 DEF Parts
  <2>3. ASSUME NEW j \in 1..(Len(db) - 1) PROVE f[j] = j + 1 /\ f[j] \in Parts /\ Part(j)' = Part(f[j])
    <3>1. f[j] = j + 1 /\ j + 1 \in 1..Len(db) /\ j # 0 /\ f[j] \in Parts /\ j \in 1..Len(db)
      BY <1>1, <1>3, <1>4
    <3>2. Part(j)' = db'[j].rows /\ db'[j] = db[j + 1]
      BY <1>1, <2>1, <3>1 DEF Part
    <3>. QED BY <1>2, <3>1, <3>2
  <2>4. ASSUME NEW j, j = Len(db) PROVE Part(j)' = <<>>
    <3>0. Len(db) \in Nat \ {0} /\ DOMAIN db' = 1..Len(db)
      BY <1>1, <2>1, Zenon
    <3>1. j # 0 /\ j \in DOMAIN db'
      BY <2>4, <3>0
    <3>2. db'[j] = [by |-> by, rows |-> <<>>]
      BY <2>1, <2>4, Zenon
    <3>. QED BY <3>1, <3>2 DEF Part
  <2>5. ASSUME NEW j, j = Len(db) + 1 PROVE f[j] = j /\ f[j] \in Parts /\ Part(j)' = Part(f[j])
    <3>1. f[j] = j /\ f[j] \in Parts /\ j # 0 /\ j \notin 1..Len(db)
      BY <1>1, <1>3, <1>4, <2>5
    <3>2. Part(j)' = buf'
      BY <2>1, <3>1 DEF Part
    <3>. QED BY <1>2, <2>5, <3>1, <3>2
  <2>6. ASSUME NEW j \in Parts' PROVE j = 0 \/ j \in 1..(Len(db) - 1) \/ j = Len(db) \/ j = Len(db) + 1
    BY <1>1, <2>2, Spots, Zenon
  <2>7. \A j \in Parts' : j # 0 => Part(j)' = <<>> \/ (f[j] \in Parts /\ Part(j)' = Part(f[j]))
    BY <2>3, <2>4, <2>5, <2>6
  <2>8. ASSUME NEW j \in Parts', NEW k \in Parts', j < k, Part(j)' # <<>>, Part(k)' # <<>>
        PROVE  f[j] < f[k]
    <3>0. Len(db) \in Nat \ {0} /\ j \in 0..(Len(db) + 1) /\ k \in 0..(Len(db) + 1)
      BY <1>1, <2>2
    <3>1. j \in Nat /\ k \in Nat /\ k # 0 /\ f[0] \in {0, 1}
      BY <1>4, <2>8, <3>0
    <3>2. j # Len(db) /\ k # Len(db)
      BY <2>4, <2>8
    <3>3. f[k] = IF k = Len(db) + 1 THEN k ELSE k + 1
      BY <1>4, <3>1
    <3>4. j # Len(db) + 1 /\ j < Len(db)
      BY <2>8, <3>0, <3>1, <3>2
    <3>5. j # 0 => f[j] = j + 1
      BY <1>4, <3>1, <3>4
    <3>. QED BY <2>8, <3>0, <3>1, <3>3, <3>4, <3>5
  <2>9. Moved(f)
    BY <1>5, <2>7, <2>8 DEF Moved
  <2>. QED BY <2>9
<1>. QED BY <1>6, <1>7
-----------------------------------------------------------------------------
(* Requests for output.                                                    *)

\* What is left of a plan is one, and begins with no flush.
LEMMA PlansAre ==
  ASSUME NEW r \in Plans
  PROVE  /\ r \in Seq({"flush", "start", "list"})
         /\ r # <<>> => /\ Head(r) \in {"flush", "start", "list"}
                        /\ Tail(r) \in Plans /\ Tail(r) # r
                        /\ Tail(r) # <<>> => Head(Tail(r)) \in {"start", "list"}
<1>1. CASE r = <<>>
  BY <1>1
<1>2. CASE r = <<"flush", "list">>
  <2>1. Tail(r) = <<"list">> /\ Head(r) = "flush" /\ Len(r) = 2 /\ Len(Tail(r)) = 1
    BY <1>2
  <2>. QED BY <1>2, <2>1 DEF Plans
<1>3. CASE r = <<"flush", "start", "list">>
  <2>1. Tail(r) = <<"start", "list">> /\ Head(r) = "flush" /\ Len(r) = 3 /\ Len(Tail(r)) = 2
    BY <1>3
  <2>. QED BY <1>3, <2>1 DEF Plans
<1>4. CASE r = <<"start", "list">>
  <2>1. Tail(r) = <<"list">> /\ Head(r) = "start" /\ Len(r) = 2 /\ Len(Tail(r)) = 1
    BY <1>4
  <2>. QED BY <1>4, <2>1 DEF Plans
<1>5. CASE r = <<"list">>
  <2>1. Tail(r) = <<>> /\ Head(r) = "list" /\ Len(r) = 1 /\ Len(Tail(r)) = 0
    BY <1>5
  <2>. QED BY <1>5, <2>1 DEF Plans
<1>. QED BY <1>1, <1>2, <1>3, <1>4, <1>5 DEF Plans

\* A request comes behind the others.
LEMMA AskedRequested ==
  ASSUME Logged, Requested, NEW by \in {"flusher", "flush", "start", "list"}, NEW rows \in Seq(Rows),
         Asks(by, rows), UNCHANGED <<log, lost>>,
         \/ by = "flusher" /\ UNCHANGED <<request, need>>
         \/ /\ request = <<>> /\ request' \in Plans /\ request' # <<>> /\ by = Head(request')
            /\ by \in {"start", "list"} => rows = <<>>
            /\ \A row \in need' : row \in Range(log) \/ row \in Range(rows)
                                  \/ \E k \in DOMAIN db : row \in Range(db[k].rows)
            /\ need' \subseteq Rows
  PROVE  Requested'
<1>1. /\ Len(db) \in Nat /\ DOMAIN db = 1..Len(db) /\ DOMAIN db' = 1..(Len(db) + 1)
      /\ db'[Len(db) + 1] = [by |-> by, rows |-> rows]
      /\ \A j \in 1..Len(db) : db'[j] = db[j]
  BY AsksIs
<1>2. \A j \in DOMAIN db' : j \in DOMAIN db \/ j = Len(db) + 1
  BY <1>1
<1>3. \A j \in DOMAIN db : InFront(j) \subseteq InFront(j)'
  <2>1. ASSUME NEW j \in DOMAIN db, NEW row \in InFront(j) PROVE row \in InFront(j)'
    <3>1. PICK k \in 1..j : row \in Range(db[k].rows)
      BY <2>1 DEF InFront
    <3>2. k \in 1..Len(db)
      BY <1>1
    <3>3. row \in Range(db'[k].rows)
      BY <1>1, <3>1, <3>2 DEF Range
    <3>4. row \in Rows
      BY <2>1 DEF InFront
    <3>. QED BY <3>1, <3>3, <3>4 DEF InFront, Rows, Range
  <2>. QED BY <2>1
<1>4. CASE by = "flusher" /\ UNCHANGED <<request, need>>
  <2>1. \A j \in DOMAIN db' : db'[j].by # "flusher" => j \in DOMAIN db /\ db'[j] = db[j]
    BY <1>1, <1>2, <1>4
  <2>2. \A j \in DOMAIN db' : db'[j].by \in {"start", "list"} => db'[j].rows = <<>>
    BY <2>1 DEF Requested
  <2>3. ASSUME NEW j \in DOMAIN db', db'[j].by # "flusher"
        PROVE  /\ request' # <<>> /\ db'[j].by = Head(request')
               /\ \A k \in DOMAIN db' : db'[k].by # "flusher" => k = j
               /\ need' \subseteq Range(log') \union lost' \union InFront(j)'
    BY <1>3, <1>4, <2>1, <2>3 DEF Requested, Range
  <2>. QED BY <1>4, <2>2, <2>3 DEF Requested, Plans, InFront, Range, Rows
<1>5. CASE /\ request = <<>> /\ request' \in Plans /\ request' # <<>> /\ by = Head(request')
           /\ by \in {"start", "list"} => rows = <<>>
           /\ \A row \in need' : row \in Range(log) \/ row \in Range(rows)
                                 \/ \E k \in DOMAIN db : row \in Range(db[k].rows)
           /\ need' \subseteq Rows
  <2>1. \A j \in DOMAIN db : db[j].by = "flusher"
    BY <1>5 DEF Requested
  <2>2. \A j \in DOMAIN db' : db'[j].by # "flusher" => j = Len(db) + 1
    BY <1>1, <1>2, <2>1
  <2>3. db'[Len(db) + 1].by = by /\ db'[Len(db) + 1].rows = rows
    BY <1>1
  <2>4. \A j \in DOMAIN db' : db'[j].by \in {"start", "list"} => db'[j].rows = <<>>
    BY <1>5, <2>2, <2>3
  <2>5. ASSUME NEW j \in DOMAIN db', j = Len(db) + 1, NEW row \in need', row \notin Range(log)
        PROVE  row \in InFront(j)'
    <3>1. row \in Rows
      BY <1>5, <2>5
    <3>2. CASE row \in Range(rows)
      <4>1. row \in Range(db'[j].rows) /\ j \in 1..j
        BY <1>1, <2>3, <2>5, <3>2
      <4>. QED BY <3>1, <4>1 DEF InFront, Rows, Range
    <3>3. CASE \E k \in DOMAIN db : row \in Range(db[k].rows)
      <4>1. PICK k \in DOMAIN db : row \in Range(db[k].rows)
        BY <3>3
      <4>2. k \in 1..j /\ db'[k] = db[k]
        BY <1>1, <2>5
      <4>3. row \in Range(db'[k].rows)
        BY <4>1, <4>2
      <4>. QED BY <3>1, <4>2, <4>3 DEF InFront, Rows, Range
    <3>. QED BY <1>5, <2>5, <3>2, <3>3
  <2>6. ASSUME NEW j \in DOMAIN db', db'[j].by # "flusher"
        PROVE  /\ request' # <<>> /\ db'[j].by = Head(request')
               /\ \A k \in DOMAIN db' : db'[k].by # "flusher" => k = j
               /\ need' \subseteq Range(log') \union lost' \union InFront(j)'
    <3>1. j = Len(db) + 1
      BY <2>2, <2>6
    <3>2. need' \subseteq Range(log') \union InFront(j)'
      BY <2>5, <3>1 DEF Range
    <3>. QED BY <1>5, <2>2, <2>3, <3>1, <3>2
  <2>. QED BY <1>5, <2>4, <2>6 DEF Requested, Plans, InFront, Range, Rows
<1>. QED BY <1>4, <1>5

\* What the database thread does for a request: its rows are stored or lost, and the
\* handler that waits for it goes on, or gives up.
Goes(steps) == IF db[1].by = "flusher" THEN steps = request ELSE steps \in {Tail(request), <<>>}
\* The first request leaves the database thread; the next step of a plan enters it.
LEMMA AnsweredIs ==
  ASSUME Logged, Requested, db # <<>>, NEW steps, Answered(steps), Goes(steps)
  PROVE  /\ steps \in Plans
         /\ \/ db' = Tail(db) /\ (db[1].by # "flusher" => steps = <<>>)
            \/ /\ db[1].by # "flusher" /\ steps # <<>> /\ Head(steps) \in {"start", "list"}
               /\ db' = Append(Tail(db), [by |-> Head(steps), rows |-> <<>>])
<1>1. 1 \in DOMAIN db
  BY DEF Logged
<1>2. CASE db[1].by = "flusher"
  BY <1>2 DEF Answered, Goes, Requested
<1>3. CASE db[1].by # "flusher"
  <2>1. request # <<>> /\ request \in Plans
    BY <1>1, <1>3 DEF Requested
  <2>2. /\ Tail(request) \in Plans /\ Tail(request) # request
        /\ Tail(request) # <<>> => Head(Tail(request)) \in {"start", "list"}
    BY <2>1, PlansAre
  <2>3. CASE steps = <<>>
    BY <1>3, <2>3 DEF Answered, Plans
  <2>4. CASE steps = Tail(request) /\ steps # <<>>
    BY <1>3, <2>2, <2>4 DEF Answered
  <2>. QED BY <1>3, <2>3, <2>4 DEF Goes
<1>. QED BY <1>2, <1>3

\* A plan goes on with its next step when what was in front of it is logged, or lost.
LEMMA AnsweredRequested ==
  ASSUME Logged, Requested, db # <<>>, NEW steps, Answered(steps), Goes(steps),
         Range(log) \subseteq Range(log'), lost \subseteq lost',
         Range(db[1].rows) \subseteq Range(log') \union lost'
  PROVE  Requested'
<1>1. /\ Len(db) \in Nat \ {0} /\ DOMAIN db = 1..Len(db) /\ 1 \in DOMAIN db
      /\ Tail(db) \in Seq(Request)
      /\ Len(Tail(db)) = Len(db) - 1 /\ DOMAIN Tail(db) = 1..(Len(db) - 1)
      /\ \A j \in 1..(Len(db) - 1) : Tail(db)[j] = db[j + 1]
  BY TailIs DEF Logged, Request
<1>2. request' = steps /\ steps \in Plans
  BY AnsweredIs DEF Answered
<1>3. CASE db' = Tail(db) /\ db[1].by = "flusher"
  <2>0. steps = request /\ \A row \in need' : row \in need
    BY <1>3 DEF Goes, Answered
  <2>1. DOMAIN db' = 1..(Len(db) - 1) /\ \A j \in DOMAIN db' : j + 1 \in DOMAIN db /\ db'[j] = db[j + 1]
    BY <1>1, <1>3
  <2>2. \A j \in DOMAIN db' : db'[j].by \in {"start", "list"} => db'[j].rows = <<>>
    BY <2>1 DEF Requested
  <2>3. ASSUME NEW j \in DOMAIN db', db'[j].by # "flusher"
        PROVE  /\ request' # <<>> /\ db'[j].by = Head(request')
               /\ \A k \in DOMAIN db' : db'[k].by # "flusher" => k = j
               /\ need' \subseteq Range(log') \union lost' \union InFront(j)'
    <3>1. /\ request # <<>> /\ db'[j].by = Head(request)
          /\ \A k \in DOMAIN db : db[k].by # "flusher" => k = j + 1
          /\ need \subseteq Range(log) \union lost \union InFront(j + 1)
      BY <2>1, <2>3 DEF Requested
    <3>2. \A k \in DOMAIN db' : db'[k].by # "flusher" => k = j
      <4>1. ASSUME NEW k \in DOMAIN db', db'[k].by # "flusher" PROVE k = j
        <5>1. k + 1 = j + 1
          BY <2>1, <3>1, <4>1
        <5>2. k \in Nat /\ j \in Nat
          BY <2>1
        <5>. QED BY <5>1, <5>2
      <4>. QED BY <4>1
    <3>3. ASSUME NEW row \in InFront(j + 1) PROVE row \in Range(log') \union lost' \union InFront(j)'
      <4>1. PICK k \in 1..(j + 1) : row \in Range(db[k].rows)
        BY <3>3 DEF InFront
      <4>2. j \in 1..(Len(db) - 1) /\ k \in 1..Len(db)
        BY <1>1, <2>1
      <4>3. CASE k = 1
        BY <4>1, <4>3
      <4>4. CASE k # 1
        <5>1. k - 1 \in 1..j /\ k - 1 \in DOMAIN db' /\ (k - 1) + 1 = k
          BY <2>1, <4>2, <4>4
        <5>2. row \in Range(db'[k - 1].rows)
          BY <2>1, <4>1, <5>1
        <5>3. row \in Rows
          BY <3>3 DEF InFront
        <5>. QED BY <5>1, <5>2, <5>3 DEF InFront, Rows, Range
      <4>. QED BY <4>3, <4>4
    <3>. QED BY <1>2, <2>0, <3>1, <3>2, <3>3
  <2>. QED BY <1>2, <2>2, <2>3 DEF Requested, Plans, InFront, Range, Rows
<1>4. CASE db[1].by # "flusher"
  <2>1. /\ request # <<>> /\ \A k \in DOMAIN db : db[k].by # "flusher" => k = 1
        /\ need \subseteq Range(log) \union lost \union InFront(1)
    BY <1>1, <1>4 DEF Requested
  <2>2. \A j \in 1..(Len(db) - 1) : Tail(db)[j].by = "flusher"
    <3>1. ASSUME NEW j \in 1..(Len(db) - 1) PROVE Tail(db)[j].by = "flusher"
      <4>1. j + 1 \in DOMAIN db /\ j + 1 # 1 /\ Tail(db)[j] = db[j + 1]
        BY <1>1
      <4>. QED BY <2>1, <4>1
    <3>. QED BY <3>1
  <2>3. CASE db' = Tail(db) /\ steps = <<>>
    <3>1. \A j \in DOMAIN db' : db'[j].by = "flusher"
      BY <1>1, <2>2, <2>3
    <3>. QED BY <1>2, <3>1 DEF Requested, Plans, InFront, Range, Rows
  <2>4. CASE /\ steps # <<>> /\ Head(steps) \in {"start", "list"}
             /\ db' = Append(Tail(db), [by |-> Head(steps), rows |-> <<>>])
    <3>0. need' = need
      BY <2>4 DEF Answered
    <3>1. /\ DOMAIN db' = 1..Len(db) /\ db'[Len(db)] = [by |-> Head(steps), rows |-> <<>>]
          /\ \A j \in 1..(Len(db) - 1) : db'[j] = Tail(db)[j]
      BY <1>1, <2>4
    <3>2. \A j \in DOMAIN db' : j \in 1..(Len(db) - 1) \/ j = Len(db)
      BY <1>1, <3>1, Spots
    <3>3. \A j \in DOMAIN db' : db'[j].by # "flusher" => j = Len(db)
      BY <2>2, <3>1, <3>2
    <3>4. db'[Len(db)].by = Head(steps) /\ db'[Len(db)].rows = <<>>
      BY <3>1
    <3>5. \A j \in DOMAIN db' : db'[j].by \in {"start", "list"} => db'[j].rows = <<>>
      BY <3>3, <3>4
    <3>6. need' \subseteq Range(log') \union lost'
      <4>1. InFront(1) \subseteq Range(db[1].rows)
        <5>1. \A k \in 1..1 : k = 1
          OBVIOUS
        <5>. QED BY <5>1 DEF InFront
      <4>. QED BY <2>1, <3>0, <4>1
    <3>7. ASSUME NEW j \in DOMAIN db', db'[j].by # "flusher"
          PROVE  /\ request' # <<>> /\ db'[j].by = Head(request')
                 /\ \A k \in DOMAIN db' : db'[k].by # "flusher" => k = j
                 /\ need' \subseteq Range(log') \union lost' \union InFront(j)'
      BY <1>2, <2>4, <3>3, <3>4, <3>6, <3>7
    <3>. QED BY <1>2, <3>5, <3>7 DEF Requested, Plans, InFront, Range, Rows
  <2>. QED BY <1>4, <2>3, <2>4, AnsweredIs
<1>. QED BY <1>3, <1>4, AnsweredIs

LEMMA PlansTyped == \A r \in Plans : r \in Seq({"flush", "start", "list"})
BY PlansAre

\* What was received are rows.
LEMMA ReceivedRows ==
  ASSUME Logged PROVE Received \subseteq Rows
<1>1. \A j \in Parts : Part(j) \in Seq(Rows)
  BY PartIs
<1>2. ASSUME NEW row \in Received PROVE row \in Rows
  <2>1. PICK j \in Parts : row \in Range(Part(j))
    BY <1>2, ReceivedIs
  <2>2. Part(j) \in Seq(Rows)
    BY <1>1
  <2>. QED BY <2>1, <2>2 DEF Range
<1>. QED BY <1>2

\* What the steps of the log have in common: the types, the order of the rows, and
\* that a listing waits for its rows.
LogStep ==
  /\ TypeOK' /\ Kept /\ Commands' = Commands /\ Requested'
  /\ OutputOnce' /\ Received' \subseteq Received

\* A step that moves the parts on is one of the log.
LEMMA LogStepIs ==
  ASSUME TypeOK, OutputOnce, Logged', Requested', UNCHANGED <<commands, conns, entry, board, results, printed>>,
         faults' = faults \/ Fault, \E f : Moved(f)
  PROVE  LogStep
<1>1. /\ Dispatched /\ Linked /\ Boarded /\ Logged /\ Resulted /\ Limited
  BY TypeParts
<1>2. Dispatched' /\ Kept /\ Commands' = Commands
  BY <1>1, CommandsSame
<1>3. Linked' /\ Boarded' /\ Resulted'
  BY <1>1, <1>2, LinkedKept, BoardedKept, ResultedKept
<1>4. Limited'
  BY <1>1, FaultLimited DEF Limited
<1>5. TypeOK'
  BY <1>2, <1>3, <1>4, TypePartsNext
<1>6. PICK f : Moved(f)
  OBVIOUS
<1>7. OutputOnce' /\ Received' \subseteq Received
  BY <1>1, <1>6, MovedOnce
<1>. QED BY <1>2, <1>5, <1>7 DEF LogStep

\* The flusher takes the buffer.
LEMMA FlushIs ==
  ASSUME TypeOK, OutputOnce, Requested, Flush
  PROVE  LogStep /\ UNCHANGED <<commands, conns, console, results, printed, target, tx>>
<1>1. Logged /\ FlushedBy("flusher") /\ UNCHANGED <<log, lost, request, need>>
  BY TypeParts DEF Flush
<1>2. buf \in Seq(Rows) /\ Asks("flusher", buf) /\ buf' = <<>> /\ <<>> \in Seq(Rows)
  BY <1>1 DEF Logged, FlushedBy
<1>3. db' \in Seq(Request)
  BY <1>1, <1>2, AsksIs
<1>4. Logged'
  BY <1>1, <1>2, <1>3 DEF Logged, Request, Rows
<1>5. Requested'
  BY <1>1, <1>2, AskedRequested
<1>6. \E f : Moved(f)
  BY <1>1, FlushMoved
<1>7. UNCHANGED <<commands, conns, entry, board, results, printed, faults>>
  BY DEF Flush
<1>8. LogStep
  BY <1>4, <1>5, <1>6, <1>7, LogStepIs
<1>. QED BY <1>7, <1>8 DEF board

LEMMA FlushOne == <<"flush">> \o <<"list">> = <<"flush", "list">>
<1> DEFINE S == {"flush", "start", "list"}
           s == <<"flush">> \o <<"list">>
<1>1. <<"list">> \in Seq(S) /\ Len(<<"list">>) = 1 /\ "flush" \in S
  OBVIOUS
<1>2. s \in Seq(S) /\ DOMAIN s = 1..2 /\ s[1] = "flush" /\ s[2] = "list"
  <2>1. 1 \in 1..Len(<<"list">>) /\ 1 + 1 = 2
    OBVIOUS
  <2>2. s[1 + 1] = <<"list">>[1] /\ DOMAIN s = 1..(1 + 1)
    BY <1>1, <2>1, OneFirst
  <2>. QED BY <1>1, <2>1, <2>2, OneFirst
<1>. HIDE DEF s
<1>3. s \in [1..2 -> S]
  BY <1>2
<1>4. <<"flush", "list">> \in [1..2 -> S]
  OBVIOUS
<1>5. \A k \in 1..2 : s[k] = <<"flush", "list">>[k]
  BY <1>2
<1>6. s = <<"flush", "list">>
  BY <1>3, <1>4, <1>5
<1>. QED BY <1>6 DEF s

LEMMA FlushTwo == <<"flush">> \o <<"start", "list">> = <<"flush", "start", "list">>
<1> DEFINE S == {"flush", "start", "list"}
           s == <<"flush">> \o <<"start", "list">>
<1>1. <<"start", "list">> \in Seq(S) /\ Len(<<"start", "list">>) = 2 /\ "flush" \in S
  OBVIOUS
<1>2. s \in Seq(S) /\ DOMAIN s = 1..3 /\ s[1] = "flush" /\ s[2] = "start" /\ s[3] = "list"
  <2>1. 1 \in 1..Len(<<"start", "list">>) /\ 2 \in 1..Len(<<"start", "list">>) /\ 1 + 1 = 2 /\ 2 + 1 = 3
    OBVIOUS
  <2>2. s[1 + 1] = <<"start", "list">>[1] /\ s[2 + 1] = <<"start", "list">>[2] /\ DOMAIN s = 1..(2 + 1)
    BY <1>1, <2>1, OneFirst
  <2>. QED BY <1>1, <2>1, <2>2, OneFirst
<1>. HIDE DEF s
<1>3. s \in [1..3 -> S]
  BY <1>2
<1>4. <<"flush", "start", "list">> \in [1..3 -> S]
  OBVIOUS
<1>5. \A k \in 1..3 : s[k] = <<"flush", "start", "list">>[k]
  BY <1>2
<1>6. s = <<"flush", "start", "list">>
  BY <1>3, <1>4, <1>5
<1>. QED BY <1>6 DEF s

\* A request for output takes the buffer first, if there is something in it.
LEMMA BeginsIs ==
  ASSUME TypeOK, OutputOnce, Requested, NEW steps \in {<<"list">>, <<"start", "list">>}, Begins(steps)
  PROVE  LogStep /\ UNCHANGED <<commands, conns, console, results, printed, target, tx>>
<1>1. /\ Logged /\ request = <<>> /\ need' = Received /\ UNCHANGED <<log, lost>>
      /\ UNCHANGED <<commands, conns, entry, board, results, printed, faults>>
  BY TypeParts DEF Begins
<1>2. buf \in Seq(Rows) /\ Received \subseteq Rows
  BY <1>1, ReceivedRows DEF Logged
<1>3. <<>> \in Seq(Rows)
  OBVIOUS
<1>4. /\ steps \in Plans /\ steps # <<>> /\ Head(steps) \in {"start", "list"}
      /\ <<"flush">> \o steps \in Plans /\ <<"flush">> \o steps # <<>>
      /\ Head(<<"flush">> \o steps) = "flush"
  <2>1. CASE steps = <<"list">>
    <3>1. <<"flush">> \o <<"list">> = <<"flush", "list">>
      BY FlushOne
    <3>. QED BY <2>1, <3>1 DEF Plans
  <2>2. CASE steps = <<"start", "list">>
    <3>1. <<"flush">> \o <<"start", "list">> = <<"flush", "start", "list">>
      BY FlushTwo
    <3>. QED BY <2>2, <3>1 DEF Plans
  <2>. QED BY <2>1, <2>2
<1>5. CASE buf = <<>> /\ request' = steps /\ Asks(Head(steps), <<>>) /\ UNCHANGED buf
  <2>1. \A row \in need' : row \in Range(log) \/ row \in Range(<<>>)
                           \/ \E k \in DOMAIN db : row \in Range(db[k].rows)
    <3>1. Range(buf) = {}
      BY <1>5 DEF Range
    <3>. QED BY <1>1, <3>1 DEF Received
  <2>2. Requested'
    BY <1>1, <1>2, <1>3, <1>4, <1>5, <2>1, AskedRequested
  <2>3. db' \in Seq(Request)
    BY <1>1, <1>3, <1>4, <1>5, AsksIs
  <2>4. Logged'
    BY <1>1, <1>2, <1>4, <1>5, <2>3, PlansTyped DEF Logged, Request, Rows
  <2>5. \E f : Moved(f)
    BY <1>1, <1>4, <1>5, ListMoved
  <2>. QED BY <1>1, <2>2, <2>4, <2>5, LogStepIs DEF board
<1>6. CASE buf # <<>> /\ request' = <<"flush">> \o steps /\ FlushedBy("flush")
  <2>0. Asks("flush", buf) /\ buf' = <<>>
    BY <1>6 DEF FlushedBy
  <2>1. \A row \in need' : row \in Range(log) \/ row \in Range(buf)
                           \/ \E k \in DOMAIN db : row \in Range(db[k].rows)
    BY <1>1 DEF Received
  <2>2. Requested'
    BY <1>1, <1>2, <1>4, <1>6, <2>0, <2>1, AskedRequested
  <2>3. db' \in Seq(Request)
    BY <1>1, <1>2, <2>0, AsksIs
  <2>4. Logged'
    BY <1>1, <1>2, <1>3, <1>4, <1>6, <2>0, <2>3, PlansTyped DEF Logged, Request, Rows
  <2>5. \E f : Moved(f)
    BY <1>1, <1>6, FlushMoved
  <2>. QED BY <1>1, <2>2, <2>4, <2>5, LogStepIs DEF board
<1>. QED BY <1>5, <1>6 DEF Begins, FlushFirst

\* What the database thread has to do keeps its type.
LEMMA AnsweredTyped ==
  ASSUME Logged, Requested, db # <<>>, NEW steps, Answered(steps), Goes(steps), UNCHANGED buf,
         log' \in Seq(Rows), lost' \subseteq Rows
  PROVE  Logged'
<1>1. Tail(db) \in Seq(Request)
  BY TailIs DEF Logged, Request
<1>2. <<>> \in Seq(Rows)
  OBVIOUS
<1>3. db' \in Seq(Request)
  <2>1. CASE db' = Tail(db)
    BY <1>1, <2>1
  <2>2. CASE /\ Head(steps) \in {"start", "list"}
             /\ db' = Append(Tail(db), [by |-> Head(steps), rows |-> <<>>])
    <3>1. [by |-> Head(steps), rows |-> <<>>] \in Request
      BY <1>2, <2>2 DEF Request
    <3>. QED BY <1>1, <2>2, <3>1
  <2>. QED BY <2>1, <2>2, AnsweredIs
<1>4. request' \in Seq({"flush", "start", "list"})
  BY AnsweredIs, PlansTyped DEF Answered
<1>5. need' \subseteq Rows
  BY DEF Answered, Logged
<1>6. buf' \in Seq(Rows)
  BY DEF Logged
<1>. QED BY <1>3, <1>4, <1>5, <1>6 DEF Logged, Request, Rows

\* A request is done: its rows are in the log, or lost, or it has none.
LEMMA DoneIs ==
  ASSUME TypeOK, OutputOnce, Requested, Inserted \/ InsertRaises \/ Listed
  PROVE  LogStep /\ UNCHANGED <<commands, conns, console, results, printed, target, tx>>
<1>1. /\ Logged /\ UNCHANGED <<commands, conns, entry, board, buf, results, printed>>
      /\ db # <<>> /\ (faults' = faults \/ Fault)
  BY TypeParts DEF Inserted, InsertRaises, Listed
<1>2. Head(db) = db[1] /\ 1 \in DOMAIN db /\ db[1].rows \in Seq(Rows) /\ log \in Seq(Rows)
      /\ lost \subseteq Rows
  BY <1>1, TailIs, PartIs DEF Logged
<1>3. \E steps : /\ Answered(steps) /\ Goes(steps) /\ log' \in {log, log \o db[1].rows}
                 /\ log' \in Seq(Rows) /\ lost' \subseteq Rows
                 /\ Range(log) \subseteq Range(log') /\ lost \subseteq lost'
                 /\ Range(db[1].rows) \subseteq Range(log') \union lost'
  <2>1. CASE Inserted
    <3>1. log' = log \o db[1].rows /\ lost' = lost
      BY <1>2, <2>1 DEF Inserted
    <3>2. Range(log') = Range(log) \union Range(db[1].rows)
      BY <1>2, <3>1, RangeConcat
    <3>3. log' \in Seq(Rows)
      BY <1>2, <3>1
    <3>4. PICK steps : Answered(steps) /\ steps = IF db[1].by = "flush" THEN Tail(request) ELSE request
      BY <1>2, <2>1 DEF Inserted
    <3>5. Goes(steps)
      BY <1>2, <2>1, <3>4 DEF Goes, Inserted
    <3>. QED BY <1>2, <3>1, <3>2, <3>3, <3>4, <3>5
  <2>2. CASE InsertRaises
    <3>1. log' = log /\ lost' = lost \union Range(db[1].rows)
      BY <1>2, <2>2 DEF InsertRaises
    <3>2. Range(db[1].rows) \subseteq Rows /\ Range(log') = Range(log)
      BY <1>2, <3>1 DEF Range
    <3>4. PICK steps : Answered(steps) /\ steps = IF db[1].by = "flush" THEN <<>> ELSE request
      BY <1>2, <2>2 DEF InsertRaises
    <3>5. Goes(steps)
      BY <1>2, <2>2, <3>4 DEF Goes, InsertRaises
    <3>. QED BY <1>2, <3>1, <3>2, <3>4, <3>5
  <2>3. CASE Listed
    <3>1. log' = log /\ lost' = lost /\ Answered(Tail(request)) /\ db[1].by \in {"start", "list"}
      BY <1>2, <2>3 DEF Listed
    <3>2. db[1].rows = <<>>
      BY <1>2, <3>1 DEF Requested
    <3>3. Range(db[1].rows) = {} /\ Range(log') = Range(log)
      BY <3>1, <3>2 DEF Range
    <3>4. Goes(Tail(request))
      BY <3>1 DEF Goes
    <3>. QED BY <1>2, <3>1, <3>3, <3>4
  <2>. QED BY <2>1, <2>2, <2>3
<1>4. PICK steps : /\ Answered(steps) /\ Goes(steps) /\ log' \in {log, log \o db[1].rows}
                   /\ log' \in Seq(Rows) /\ lost' \subseteq Rows
                   /\ Range(log) \subseteq Range(log') /\ lost \subseteq lost'
                   /\ Range(db[1].rows) \subseteq Range(log') \union lost'
  BY <1>3
<1>5. Requested' /\ Logged'
  BY <1>1, <1>4, AnsweredRequested, AnsweredTyped
<1>6. \E f : Moved(f)
  <2>1. db' = Tail(db) \/ db' = Append(Tail(db), [by |-> Head(steps), rows |-> <<>>])
    BY <1>1, <1>4, AnsweredIs
  <2>. QED BY <1>1, <1>4, <2>1, TailMoved
<1>7. LogStep
  BY <1>1, <1>5, <1>6, LogStepIs
<1>. QED BY <1>1, <1>7 DEF board
-----------------------------------------------------------------------------
(* The queue of the back-channel.                                          *)

\* The queue of the back-channel, in its type.
LEMMA QueueIs ==
  ASSUME TypeOK
  PROVE  /\ Len(tx) \in Nat /\ DOMAIN tx = 1..Len(tx)
         /\ \A p \in 1..Len(tx) : tx[p] \in Commands /\ tx[p] \in 1..MaxCommands
         /\ \A i \in Commands : i \in 1..MaxCommands /\ target[i] \in Nat
         /\ \A i \in 1..MaxCommands : target[i] \in Nat
         /\ DOMAIN target = 1..MaxCommands
<1>1. /\ tx \in Seq(Commands) /\ target \in [1..MaxCommands -> Nat] /\ MaxCommands \in Nat
      /\ Len(commands) \in Nat /\ Len(commands) <= MaxCommands
  BY TypeParts, CommandBoundsAssumption DEF Boarded, Dispatched
<1>2. \A i \in Commands : i \in 1..MaxCommands
  BY <1>1 DEF Commands
<1>3. \A p \in 1..Len(tx) : tx[p] \in Commands
  BY <1>1
<1>. QED BY <1>1, <1>2, <1>3

\* Bytes leave the queue at its front: what the target gets of a command that stays is
\* what leaves.
LEMMA QueueCut ==
  ASSUME TypeOK, TypeOK', Kept, Queued, NEW n \in 0..Len(tx), Newest' = Newest,
         Len(tx') = Len(tx) - n, \A p \in 1..(Len(tx) - n) : tx'[p] = tx[n + p],
         \A p \in 1..(Len(tx) - n) : target'[tx'[p]] = target[tx'[p]] + Count(tx, n, tx'[p])
  PROVE  Queued'
<1>1. /\ Len(tx) \in Nat /\ DOMAIN tx = 1..Len(tx) /\ \A p \in 1..Len(tx) : tx[p] \in Commands
      /\ \A i \in Commands : target[i] \in Nat
  BY QueueIs
<1>2. DOMAIN tx' = 1..(Len(tx) - n)
  BY <1>1 DEF TypeOK
<1>3. ASSUME NEW p \in 1..(Len(tx) - n)
      PROVE  /\ Sends(tx[p])' /\ commands'[tx'[p]].conn = Newest'
             /\ target'[tx'[p]] + Bytes(Len(tx), tx[p])' = Payload
  <2>0. n + p \in 1..Len(tx)
    BY <1>1
  <2>0a. tx'[p] = tx[n + p]
    OBVIOUS
  <2>1. n + p \in DOMAIN tx /\ tx'[p] = tx[n + p] /\ tx'[p] \in Commands
    BY <1>1, <2>0, <2>0a
  <2>2. /\ Sends(tx'[p]) /\ commands[tx'[p]].conn = Newest
        /\ target[tx'[p]] + Bytes(Len(tx), tx'[p]) = Payload
    BY <2>1 DEF Queued
  <2>3. Sends(tx[p])' /\ commands'[tx'[p]].conn = Newest'
    BY <2>1, <2>2 DEF Sends, Kept
  <2>4. DEFINE N == Len(tx) - n
  <2>5. N \in Nat /\ n \in Nat /\ n + N = Len(tx) /\ Len(tx') = N
    BY <1>1
  <2>5a. Behind(tx, n, tx', N)
    BY DEF Behind
  <2>7. Bytes(Len(tx), tx[p])' = Count(tx', N, tx'[p])
    BY <2>5 DEF Bytes, Count
  <2>8. Bytes(Len(tx), tx'[p]) = Count(tx, n + N, tx'[p])
    BY <2>5 DEF Bytes, Count
  <2>. HIDE DEF N
  <2>6. Count(tx, n + N, tx'[p]) = Count(tx, n, tx'[p]) + Count(tx', N, tx'[p])
    BY <2>5, <2>5a, CountSplit
  <2>9a. Count(tx, n, tx'[p]) \in 0..n /\ Count(tx', N, tx'[p]) \in 0..N
    BY <2>5, CountIs, Zenon
  <2>9. Count(tx, n, tx'[p]) \in Nat /\ Count(tx', N, tx'[p]) \in Nat /\ target[tx'[p]] \in Nat
    BY <1>1, <2>1, <2>5, <2>9a
  <2>10. target'[tx'[p]] = target[tx'[p]] + Count(tx, n, tx'[p])
    OBVIOUS
  <2>11. target[tx'[p]] + (Count(tx, n, tx'[p]) + Count(tx', N, tx'[p])) = Payload
    BY <2>2, <2>6, <2>8
  <2>12. target'[tx'[p]] + Count(tx', N, tx'[p]) = Payload
    BY <2>9, <2>10, <2>11
  <2>. QED BY <2>3, <2>7, <2>12
<1>4. ASSUME NEW p \in 1..(Len(tx) - n), NEW q \in 1..(Len(tx) - n), NEW r \in 1..(Len(tx) - n),
             p < q, q < r, tx'[p] = tx'[r]
      PROVE  tx'[q] = tx'[p]
  <2>1. n + p \in DOMAIN tx /\ n + q \in DOMAIN tx /\ n + r \in DOMAIN tx /\ n + p < n + q /\ n + q < n + r
    BY <1>1, <1>4
  <2>2. tx'[p] = tx[n + p] /\ tx'[q] = tx[n + q] /\ tx'[r] = tx[n + r]
    OBVIOUS
  <2>3. tx[n + p] = tx[n + r] => tx[n + q] = tx[n + p]
    BY <2>1, Zenon DEF Queued
  <2>. QED BY <1>4, <2>2, <2>3
<1>5. \A p \in DOMAIN tx' : /\ Sends(tx[p])' /\ commands'[tx'[p]].conn = Newest'
                            /\ target'[tx'[p]] + Bytes(Len(tx), tx[p])' = Payload
  BY <1>2, <1>3
<1>. QED BY <1>2, <1>4, <1>5 DEF Queued, Sends, Bytes, Newest

\* The queue stays, and what the target has of its commands.
LEMMA QueueKept ==
  ASSUME TypeOK, TypeOK', Kept, Queued, Newest' = Newest, UNCHANGED tx,
         \A p \in 1..Len(tx) : target'[tx[p]] = target[tx[p]]
  PROVE  Queued'
<1>1. Len(tx) \in Nat /\ \A p \in 1..Len(tx) : tx[p] \in Commands /\ target[tx[p]] \in Nat
  BY QueueIs
<1>2. 0 \in 0..Len(tx) /\ Len(tx) - 0 = Len(tx) /\ \A p \in 1..Len(tx) : 0 + p = p
  BY <1>1
<1>3. ASSUME NEW p \in 1..Len(tx) PROVE Count(tx, 0, tx'[p]) = 0
  <2>1. 0 \in Nat
    OBVIOUS
  <2>2. Count(tx, 0, tx'[p]) \in 0..0
    BY <2>1, CountIs, Zenon
  <2>. QED BY <2>2
<1>4. \A p \in 1..(Len(tx) - 0) : target'[tx'[p]] = target[tx'[p]] + Count(tx, 0, tx'[p])
  BY <1>1, <1>2, <1>3
<1>5. Len(tx') = Len(tx) - 0 /\ \A p \in 1..(Len(tx) - 0) : tx'[p] = tx[0 + p]
  BY <1>2
<1>6. PICK n \in 0..Len(tx) : n = 0
  BY <1>2
<1>. QED BY <1>4, <1>5, <1>6, QueueCut

\* The queue grows by a command of which the target has nothing.
LEMMA QueueGrows ==
  ASSUME TypeOK, TypeOK', Kept, Queued, NEW i \in Commands, Sends(i), commands[i].conn = Newest,
         Fresh(i), Newest' = Newest, UNCHANGED target,
         Len(tx') = Len(tx) + Payload, \A p \in 1..Len(tx) : tx'[p] = tx[p],
         \A p \in 1..Payload : tx'[Len(tx) + p] = i
  PROVE  Queued'
<1>1. /\ Len(tx) \in Nat /\ DOMAIN tx = 1..Len(tx) /\ \A p \in 1..Len(tx) : tx[p] \in Commands
      /\ \A j \in Commands : target[j] \in Nat
  BY QueueIs
<1>2. Payload \in Nat \ {0}
  BY SerialAssumption
<1>3. DOMAIN tx' = 1..(Len(tx) + Payload)
  BY <1>1 DEF TypeOK
<1>4. \A p \in DOMAIN tx' : \/ p \in 1..Len(tx) /\ tx'[p] = tx[p] /\ tx'[p] # i
                            \/ p > Len(tx) /\ tx'[p] = i
  <2>1. ASSUME NEW p \in DOMAIN tx', ~(p \in 1..Len(tx)) PROVE p > Len(tx) /\ tx'[p] = i
    <3>1. p > Len(tx) /\ p - Len(tx) \in 1..Payload /\ Len(tx) + (p - Len(tx)) = p
      BY <1>1, <1>2, <1>3, <2>1
    <3>. QED BY <3>1
  <2>2. ASSUME NEW p \in 1..Len(tx) PROVE tx'[p] = tx[p] /\ tx'[p] # i
    BY <1>1 DEF Fresh
  <2>. QED BY <2>1, <2>2
<1>. DEFINE t == [p \in 1..Payload |-> i]
<1>5. \A p \in 1..Payload : t[p] = i
  OBVIOUS
<1>. HIDE DEF t
<1>6. ASSUME NEW j PROVE Count(tx', Len(tx) + Payload, j) = Count(tx', Len(tx), j) + Count(t, Payload, j)
  <2>1. Behind(tx', Len(tx), t, Payload)
    BY <1>5 DEF Behind
  <2>2. Payload \in Nat /\ Len(tx) \in Nat
    BY <1>1, <1>2
  <2>. QED BY <2>1, <2>2, CountSplit
<1>7. ASSUME NEW p \in DOMAIN tx'
      PROVE  /\ Sends(tx[p])' /\ commands'[tx'[p]].conn = Newest'
             /\ target'[tx'[p]] + Bytes(Len(tx), tx[p])' = Payload
  <2>1. Bytes(Len(tx), tx[p])' = Count(tx', Len(tx) + Payload, tx'[p])
    BY DEF Bytes, Count
  <2>2. CASE p \in 1..Len(tx) /\ tx'[p] = tx[p] /\ tx'[p] # i
    <3>1. /\ Sends(tx'[p]) /\ commands[tx'[p]].conn = Newest /\ tx'[p] \in Commands
          /\ target[tx'[p]] + Bytes(Len(tx), tx'[p]) = Payload
      BY <1>1, <2>2 DEF Queued
    <3>2. Count(t, Payload, tx'[p]) = 0
      <4>1. Payload \in Nat /\ \A q \in 1..Payload : t[q] # tx'[p]
        BY <1>2, <1>5, <2>2
      <4>. QED BY <4>1, CountIs, Zenon
    <3>3. Count(tx', Len(tx), tx'[p]) = Bytes(Len(tx), tx'[p])
      <4>1. {k \in 1..Len(tx) : tx'[k] = tx'[p]} = {k \in 1..Len(tx) : tx[k] = tx'[p]}
        OBVIOUS
      <4>. QED BY <4>1, Zenon DEF Count, Bytes
    <3>4. Count(tx', Len(tx), tx'[p]) \in Nat
      <4>1. Count(tx', Len(tx), tx'[p]) \in 0..Len(tx)
        BY <1>1, CountIs, Zenon
      <4>. QED BY <1>1, <4>1
    <3>5. Bytes(Len(tx), tx[p])' = Bytes(Len(tx), tx'[p])
      BY <1>6, <2>1, <3>2, <3>3, <3>4
    <3>6. target'[tx'[p]] + Bytes(Len(tx), tx[p])' = Payload
      BY <3>1, <3>5
    <3>. QED BY <3>1, <3>6 DEF Sends, Kept
  <2>3. CASE p > Len(tx) /\ tx'[p] = i
    <3>1. Count(t, Payload, i) = Payload
      BY <1>2, <1>5, CountAll
    <3>2. Count(tx', Len(tx), i) = 0
      <4>1. \A q \in 1..Len(tx) : tx'[q] # i
        BY <1>1 DEF Fresh
      <4>. QED BY <1>1, <4>1, CountIs
    <3>3. Count(tx', Len(tx) + Payload, i) = Payload
      BY <1>2, <1>6, <3>1, <3>2
    <3>4. target'[i] = 0
      BY DEF Fresh
    <3>5. target'[tx'[p]] + Bytes(Len(tx), tx[p])' = Payload
      BY <1>2, <2>1, <2>3, <3>3, <3>4
    <3>. QED BY <2>3, <3>5 DEF Sends, Kept
  <2>. QED BY <1>4, <2>2, <2>3
<1>8. ASSUME NEW p \in DOMAIN tx', NEW q \in DOMAIN tx', NEW r \in DOMAIN tx',
             p < q, q < r, tx'[p] = tx'[r]
      PROVE  tx'[q] = tx'[p]
  <2>1. p \in Nat /\ q \in Nat /\ r \in Nat
    BY <1>3
  <2>2. CASE p \in 1..Len(tx) /\ tx'[p] = tx[p] /\ tx'[p] # i
    <3>1. r \in 1..Len(tx) /\ tx'[r] = tx[r]
      BY <1>4, <1>8, <2>2
    <3>2. q \in 1..Len(tx) /\ tx'[q] = tx[q]
      BY <1>1, <1>8, <2>1, <3>1
    <3>. QED BY <1>1, <1>8, <2>2, <3>1, <3>2 DEF Queued
  <2>3. CASE p > Len(tx) /\ tx'[p] = i
    <3>1. q > Len(tx) /\ ~(q \in 1..Len(tx))
      BY <1>1, <1>8, <2>1, <2>3
    <3>. QED BY <1>4, <2>3, <3>1
  <2>. QED BY <1>4, <2>2, <2>3
<1>. QED BY <1>7, <1>8 DEF Queued, Sends, Bytes, Newest
-----------------------------------------------------------------------------
(* Frames on their way.                                                    *)

\* A piece of a queue, in one piece.
Piece(s, q) == \E n \in Nat : \A p \in DOMAIN s : n + p \in DOMAIN q /\ s[p] = q[n + p]

LEMMA PieceSame == ASSUME NEW S, NEW q \in Seq(S) PROVE Piece(q, q)
<1>1. \A p \in DOMAIN q : 0 + p = p
  OBVIOUS
<1>. QED BY <1>1 DEF Piece

LEMMA PieceTail == ASSUME NEW S, NEW q \in Seq(S), q # <<>> PROVE Piece(Tail(q), q)
<1>1. /\ DOMAIN q = 1..Len(q) /\ DOMAIN Tail(q) = 1..(Len(q) - 1) /\ Len(q) \in Nat \ {0}
      /\ \A p \in 1..(Len(q) - 1) : Tail(q)[p] = q[p + 1]
  BY TailIs
<1>2. \A p \in DOMAIN Tail(q) : 1 + p \in DOMAIN q /\ Tail(q)[p] = q[1 + p]
  BY <1>1
<1>. QED BY <1>2 DEF Piece

LEMMA PieceEmpty == ASSUME NEW q PROVE Piece(<<>>, q)
BY DEF Piece

LEMMA PiecePrefix ==
  ASSUME NEW S, NEW q \in Seq(S), NEW n \in 0..Len(q) PROVE Piece(SubSeq(q, 1, n), q)
<1>1. /\ DOMAIN q = 1..Len(q) /\ DOMAIN SubSeq(q, 1, n) = 1..n
      /\ \A p \in 1..n : SubSeq(q, 1, n)[p] = q[p]
  BY PrefixIs
<1>2. \A p \in DOMAIN SubSeq(q, 1, n) : 0 + p \in DOMAIN q /\ SubSeq(q, 1, n)[p] = q[0 + p]
  BY <1>1
<1>. QED BY <1>2 DEF Piece

\* A connection is in the type.
LEMMA LinkIs ==
  ASSUME TypeOK, NEW c \in Conns
  PROVE  /\ conns[c].down \in Seq(Commands) /\ conns[c].up \in Seq(Message)
         /\ conns[c].got \in Message /\ conns[c].closed \in BOOLEAN
         /\ DOMAIN conns[c].down = 1..Len(conns[c].down) /\ Len(conns[c].down) \in Nat
         /\ DOMAIN conns[c].up = 1..Len(conns[c].up) /\ Len(conns[c].up) \in Nat
         /\ \A p \in DOMAIN conns[c].down : conns[c].down[p] \in Commands
         /\ \A p \in DOMAIN conns[c].up : conns[c].up[p] \in Message
         /\ Newest \in Conns /\ Newest \in Nat /\ c \in Nat /\ c <= Newest
<1>1. Linked
  BY TypeParts
<1>2. conns[c].down \in Seq(Commands) /\ conns[c].up \in Seq(Message) /\ conns[c].got \in Message
      /\ conns[c].closed \in BOOLEAN /\ Newest \in Conns /\ Newest \in Nat
  BY <1>1, ConnectionIs
<1>3. c \in Nat /\ c <= Newest
  BY <1>2 DEF Conns, Newest
<1>. QED BY <1>2, <1>3

LEMMA LinksAre == ASSUME TypeOK PROVE Newest \in Conns /\ Newest \in Nat /\ Len(commands) \in Nat
BY TypeParts, CommandBoundsAssumption DEF Linked, Dispatched, Newest, Conns

LEMMA LinkNext ==
  ASSUME TypeOK', NEW c \in Conns'
  PROVE  /\ conns'[c].down \in Seq(Commands') /\ conns'[c].up \in Seq(Message')
         /\ DOMAIN conns'[c].down = 1..Len(conns'[c].down) /\ Len(conns'[c].down) \in Nat
         /\ DOMAIN conns'[c].up = 1..Len(conns'[c].up) /\ Len(conns'[c].up) \in Nat
<1>1. conns' \in Seq(Connections') /\ c \in 1..Len(conns')
  BY DEF TypeOK, Conns
<1>2. conns'[c] \in Connections'
  BY <1>1
<1>3. conns'[c].down \in Seq(Commands') /\ conns'[c].up \in Seq(Message')
  BY <1>2 DEF Connections
<1>. QED BY <1>3

LEMMA CommandsNext == ASSUME TypeOK' PROVE Len(commands') \in Nat
BY DEF TypeOK

\* A step that takes nothing but x from the way to the board, and adds nothing to it.
WayStep(x) ==
  /\ Conns' = Conns /\ Newest' = Newest /\ Kept
  /\ \A c \in Conns : /\ conns[c].closed => conns'[c].closed
                      /\ Piece(conns'[c].down, conns[c].down)
  /\ \A i \in Commands : commands'[i].at = "insert" => commands[i].at = "insert"
  /\ \A i \in Commands' : i \notin Commands =>
       commands'[i].conn \in Conns /\ (commands'[i].at = "insert" => Fresh(i)')
  /\ \A i \in 1..MaxCommands : i # x /\ Fresh(i) => Fresh(i)'
  /\ \/ x = 0
     \/ /\ x \in Commands /\ commands[x].at # "insert"
        /\ \A p \in DOMAIN conns'[Newest].down : conns'[Newest].down[p] # x

\* Such a step leaves every command on one way.
LEMMA WayKept ==
  ASSUME TypeOK, TypeOK', OnTheWay, NEW x, WayStep(x)
  PROVE  OnTheWay'
<1>0. /\ Newest \in Conns /\ Newest \in Nat /\ Len(commands) \in Nat /\ Len(commands') \in Nat
      /\ MaxCommands \in Nat
  BY LinksAre, CommandsNext, CommandBoundsAssumption
<1>0a. Commands \subseteq 1..MaxCommands /\ Commands = 1..Len(commands) /\ Commands' = 1..Len(commands')
  BY <1>0, TypeParts DEF Dispatched, Commands
<1>1. \A c \in Conns' : c < Newest' => conns'[c].closed
  BY DEF WayStep, OnTheWay
<1>2. \A i \in Commands' : commands'[i].conn \in Conns'
  BY DEF WayStep, OnTheWay, Kept
<1>3. ASSUME NEW c \in Conns', NEW p \in DOMAIN conns'[c].down
      PROVE  commands'[conns'[c].down[p]].conn = c
  <2>1. PICK n \in Nat : n + p \in DOMAIN conns[c].down /\ conns'[c].down[p] = conns[c].down[n + p]
    BY <1>3 DEF WayStep, Piece
  <2>2. c \in Conns /\ conns[c].down[n + p] \in Commands
    BY <1>3, <2>1, LinkIs DEF WayStep
  <2>3. commands[conns[c].down[n + p]].conn = c
    BY <2>1, <2>2 DEF OnTheWay
  <2>. QED BY <2>1, <2>2, <2>3 DEF WayStep, Kept
<1>4. PICK n \in Nat : \A p \in DOMAIN conns'[Newest].down :
        n + p \in DOMAIN conns[Newest].down /\ conns'[Newest].down[p] = conns[Newest].down[n + p]
  BY <1>0 DEF WayStep, Piece
<1>5. ASSUME NEW p \in DOMAIN conns'[Newest].down PROVE Fresh(conns[Newest].down[p])'
  <2>1. /\ n + p \in DOMAIN conns[Newest].down /\ conns'[Newest].down[p] = conns[Newest].down[n + p]
        /\ conns[Newest].down[n + p] \in Commands
    BY <1>0, <1>4, <1>5, LinkIs
  <2>2. Fresh(conns'[Newest].down[p])
    BY <2>1 DEF OnTheWay
  <2>3. conns'[Newest].down[p] # x /\ conns'[Newest].down[p] \in 1..MaxCommands
    BY <1>0a, <1>5, <2>1 DEF WayStep
  <2>4. Newest' = Newest
    BY DEF WayStep
  <2>. QED BY <2>2, <2>3, <2>4 DEF WayStep, Fresh
<1>6. ASSUME NEW p \in DOMAIN conns'[Newest].down, NEW q \in DOMAIN conns'[Newest].down,
             conns'[Newest].down[p] = conns'[Newest].down[q]
      PROVE  p = q
  <2>1. n + p = n + q
    BY <1>4, <1>6 DEF OnTheWay
  <2>2. p \in Nat /\ q \in Nat
    <3>1. DOMAIN conns'[Newest'].down = 1..Len(conns'[Newest'].down)
      <4>1. Newest' \in Conns'
        BY <1>0 DEF WayStep
      <4>. QED BY <4>1, LinkNext
    <3>. QED BY <3>1 DEF WayStep
  <2>. QED BY <2>1, <2>2
<1>7. ASSUME NEW i \in Commands', commands'[i].at = "insert"
      PROVE  Fresh(i)' /\ \A p \in DOMAIN conns'[Newest].down : conns'[Newest].down[p] # i
  <2>1. CASE i \in Commands
    <3>1. commands[i].at = "insert"
      BY <1>7, <2>1 DEF WayStep
    <3>2. Fresh(i) /\ \A p \in DOMAIN conns[Newest].down : conns[Newest].down[p] # i
      BY <2>1, <3>1 DEF OnTheWay
    <3>3. i # x /\ i \in 1..MaxCommands
      BY <1>0a, <2>1, <3>1 DEF WayStep
    <3>. QED BY <1>4, <3>2, <3>3 DEF WayStep
  <2>2. CASE i \notin Commands
    <3>1. \A p \in DOMAIN conns'[Newest].down : conns'[Newest].down[p] \in Commands
      BY <1>0, <1>4, LinkIs
    <3>. QED BY <1>7, <2>2, <3>1 DEF WayStep
  <2>. QED BY <2>1, <2>2
<1>8. ASSUME NEW i \in 1..MaxCommands, i > Len(commands') PROVE target'[i] = 0
  <2>1. Len(commands) <= Len(commands')
    BY <1>0, <1>0a DEF WayStep, Kept
  <2>2. i > Len(commands) /\ i \notin Commands
    BY <1>0, <1>0a, <1>8, <2>1
  <2>3. target[i] = 0
    BY <2>2 DEF OnTheWay
  <2>4. Fresh(i)
    BY <2>2, <2>3, QueueIs DEF Fresh
  <2>5. i # x
    BY <1>0a, <2>2 DEF WayStep
  <2>. QED BY <2>4, <2>5 DEF WayStep, Fresh
<1>9. Newest' = Newest
  BY DEF WayStep
<1>. QED BY <1>1, <1>2, <1>3, <1>5, <1>6, <1>7, <1>8, <1>9 DEF OnTheWay, Fresh

\* A fresh command goes down the newest connection, the only one that is open.
LEMMA WayGrows ==
  ASSUME TypeOK, TypeOK', OnTheWay, Kept, NEW c \in Conns, NEW i \in Commands',
         ~conns[c].closed, Conns' = Conns, Newest' = Newest, Others(c),
         conns'[c].down = Append(conns[c].down, i), conns'[c].closed = conns[c].closed,
         UNCHANGED <<target, tx>>, commands'[i].conn = c, commands'[i].at # "insert",
         Fresh(i), \A p \in DOMAIN conns[Newest].down : conns[Newest].down[p] # i,
         Commands' \subseteq Commands \union {i},
         \A j \in Commands : j # i => commands'[j] = commands[j]
  PROVE  OnTheWay'
<1>0. /\ Newest \in Conns /\ Newest \in Nat /\ Len(commands) \in Nat /\ Len(commands') \in Nat
      /\ c \in Nat /\ c <= Newest
  BY LinksAre, CommandsNext, LinkIs
<1>1. c = Newest
  <2>1. ~(c < Newest)
    BY DEF OnTheWay
  <2>. QED BY <1>0, <2>1
<1>2. /\ conns[c].down \in Seq(Commands) /\ Commands \subseteq Commands'
      /\ DOMAIN conns[c].down = 1..Len(conns[c].down) /\ Len(conns[c].down) \in Nat
  BY LinkIs DEF Kept
<1>3. DEFINE N == Len(conns[c].down)
<1>4. /\ N \in Nat /\ DOMAIN conns'[c].down = 1..(N + 1) /\ conns'[c].down[N + 1] = i
      /\ \A p \in 1..N : p \in DOMAIN conns[c].down /\ conns'[c].down[p] = conns[c].down[p]
      /\ DOMAIN conns[c].down = 1..N
  <2>1. conns[c].down \in Seq(Commands')
    BY <1>2
  <2>. QED BY <1>2, <2>1
<1>. HIDE DEF N
<1>5. \A p \in DOMAIN conns'[c].down : p \in 1..N \/ p = N + 1
  BY <1>4
<1>6. \A d \in Conns' : d < Newest' => conns'[d].closed
  BY <1>1 DEF OnTheWay, Others
<1>7. \A j \in Commands' : commands'[j].conn \in Conns'
  BY DEF OnTheWay, Kept
<1>8. ASSUME NEW d \in Conns', NEW p \in DOMAIN conns'[d].down
      PROVE  commands'[conns'[d].down[p]].conn = d
  <2>1. CASE d # c
    <3>1. conns'[d] = conns[d] /\ d \in Conns
      BY <2>1 DEF Others
    <3>2. conns[d].down[p] \in Commands /\ p \in DOMAIN conns[d].down
      BY <1>8, <3>1, LinkIs
    <3>. QED BY <3>1, <3>2 DEF OnTheWay, Kept
  <2>2. CASE d = c /\ p \in 1..N
    <3>1. conns[d].down[p] \in Commands /\ conns'[d].down[p] = conns[d].down[p]
      BY <1>4, <2>2, LinkIs
    <3>2. commands[conns[d].down[p]].conn = d
      BY <1>4, <2>2 DEF OnTheWay
    <3>. QED BY <3>1, <3>2 DEF Kept
  <2>3. CASE d = c /\ p = N + 1
    BY <1>4, <2>3
  <2>. QED BY <1>5, <1>8, <2>1, <2>2, <2>3
<1>9. \A j : Fresh(j)' <=> Fresh(j)
  BY DEF Fresh
<1>10. \A p \in DOMAIN conns'[Newest].down : Fresh(conns'[Newest].down[p])
  <2>1. ASSUME NEW p \in DOMAIN conns'[Newest].down PROVE Fresh(conns'[Newest].down[p])
    BY <1>1, <1>4, <1>5, <2>1 DEF OnTheWay
  <2>. QED BY <2>1
<1>11. ASSUME NEW p \in DOMAIN conns'[Newest].down, NEW q \in DOMAIN conns'[Newest].down,
              conns'[Newest].down[p] = conns'[Newest].down[q]
       PROVE  p = q
  <2>1. CASE p \in 1..N /\ q \in 1..N
    <3>1. /\ p \in DOMAIN conns[Newest].down /\ q \in DOMAIN conns[Newest].down
          /\ conns[Newest].down[p] = conns[Newest].down[q]
      BY <1>1, <1>4, <1>11, <2>1
    <3>. QED BY <3>1, Zenon DEF OnTheWay
  <2>2. CASE p = N + 1 \/ q = N + 1
    BY <1>1, <1>4, <1>5, <1>11, <2>2
  <2>. QED BY <1>1, <1>5, <1>11, <2>1, <2>2
<1>12. ASSUME NEW j \in Commands', commands'[j].at = "insert"
       PROVE  Fresh(j) /\ \A p \in DOMAIN conns'[Newest].down : conns'[Newest].down[p] # j
  <2>1. j # i /\ j \in Commands /\ commands[j].at = "insert"
    BY <1>12
  <2>2. Fresh(j) /\ \A p \in DOMAIN conns[Newest].down : conns[Newest].down[p] # j
    BY <2>1 DEF OnTheWay
  <2>. QED BY <1>1, <1>4, <1>5, <2>1, <2>2
<1>13. \A j \in 1..MaxCommands : j > Len(commands') => target'[j] = 0
  <2>1. Len(commands) <= Len(commands')
    BY <1>0, <1>2 DEF Commands
  <2>. QED BY <1>0, <2>1 DEF OnTheWay
<1>14. \A p \in DOMAIN conns'[Newest].down : Fresh(conns[Newest].down[p])'
  <2>1. ASSUME NEW p \in DOMAIN conns'[Newest].down PROVE Fresh(conns[Newest].down[p])'
    BY <1>10 DEF Fresh
  <2>. QED BY <2>1
<1>15. \A j \in Commands' : commands'[j].at = "insert" =>
         Fresh(j)' /\ \A p \in DOMAIN conns'[Newest].down : conns'[Newest].down[p] # j
  BY <1>9, <1>12
<1>. QED BY <1>6, <1>7, <1>8, <1>11, <1>13, <1>14, <1>15 DEF OnTheWay, Fresh

\* A command that is new is fresh.
LEMMA NewIs ==
  ASSUME TypeOK, OnTheWay, NEW i, i = Len(commands) + 1, i <= MaxCommands
  PROVE  /\ i \notin Commands /\ i \in 1..MaxCommands /\ Fresh(i)
         /\ \A p \in DOMAIN conns[Newest].down : conns[Newest].down[p] # i
<1>1. Len(commands) \in Nat /\ Newest \in Conns /\ MaxCommands \in Nat
  BY LinksAre, CommandBoundsAssumption
<1>2. i \notin Commands /\ i \in 1..MaxCommands /\ i > Len(commands)
  BY <1>1 DEF Commands
<1>3. target[i] = 0
  BY <1>2 DEF OnTheWay
<1>4. Fresh(i)
  BY <1>2, <1>3, QueueIs DEF Fresh
<1>. QED BY <1>1, <1>2, <1>4, LinkIs

\* A connection of which nothing but what is said has changed.
LEMMA OnlyWay ==
  ASSUME TypeOK, NEW c \in Conns, NEW d, NEW u, NEW a, NEW g, NEW z, NEW e,
         Only(c, d, u, a, g, z, e), conns[c].closed => e, Piece(d, conns[c].down)
  PROVE  /\ Conns' = Conns /\ Newest' = Newest
         /\ \A b \in Conns : /\ conns[b].closed => conns'[b].closed
                             /\ Piece(conns'[b].down, conns[b].down)
<1>1. \A b \in Conns : Piece(conns[b].down, conns[b].down)
  BY LinkIs, PieceSame
<1>. QED BY <1>1 DEF Only, Others

\* No connection changes, but in what the hub's handler does.
LEMMA SameWay ==
  ASSUME TypeOK, UNCHANGED conns
  PROVE  /\ Conns' = Conns /\ Newest' = Newest
         /\ \A b \in Conns : /\ conns[b].closed => conns'[b].closed
                             /\ Piece(conns'[b].down, conns[b].down)
<1>1. \A b \in Conns : Piece(conns[b].down, conns[b].down)
  BY LinkIs, PieceSame
<1>. QED BY <1>1 DEF Conns, Newest
-----------------------------------------------------------------------------
(* The hub's requests.                                                     *)

\* The invariant up to what the target has, and its rows.
Way == TypeOK /\ Queued /\ OnTheWay

\* A new command has had no effect.
LEMMA DispatchWay ==
  ASSUME Way, NEW kind \in Kinds, Dispatch(kind)
  PROVE  Way'
<1>1. TypeOK /\ Queued /\ OnTheWay
  BY DEF Way
<1>2. /\ TypeOK' /\ Kept /\ entry \in Conns
      /\ Len(commands) \in Nat /\ Len(commands') = Len(commands) + 1
      /\ \A i \in Commands : commands'[i] = commands[i]
      /\ commands'[Len(commands) + 1] =
           [kind |-> kind, conn |-> entry, at |-> "insert", row |-> "none"]
  BY <1>1, DispatchIs
<1>3. UNCHANGED <<conns, tx, target>> /\ Len(commands) < MaxCommands
  BY DEF Dispatch, board
<1>4. PICK n \in Nat : n = Len(commands) + 1
  BY <1>2
<1>5. n <= MaxCommands
  BY <1>2, <1>3, <1>4, CommandBoundsAssumption
<1>6. n \notin Commands /\ Fresh(n)
  BY <1>1, <1>4, <1>5, NewIs
<1>7. \A i \in Commands' : i \notin Commands => i = n
  BY <1>2, <1>4 DEF Commands
<1>8. \A i : Fresh(i)' <=> Fresh(i)
  BY <1>3 DEF Fresh
<1>9. WayStep(0)
  <2>1. commands'[n].conn \in Conns
    BY <1>2, <1>4
  <2>2. /\ Conns' = Conns /\ Newest' = Newest
        /\ \A b \in Conns : /\ conns[b].closed => conns'[b].closed
                            /\ Piece(conns'[b].down, conns[b].down)
    BY <1>1, <1>3, SameWay
  <2>. QED BY <1>2, <1>6, <1>7, <1>8, <2>1, <2>2 DEF WayStep
<1>10. OnTheWay'
  BY <1>1, <1>2, <1>9, WayKept
<1>11. Queued'
  <2>1. Newest' = Newest
    BY <1>9 DEF WayStep
  <2>. QED BY <1>1, <1>2, <1>3, <2>1, QueueKept
<1>. QED BY <1>2, <1>10, <1>11 DEF Way

\* Nor has a new frame of the bridge.
LEMMA BridgeSendWay ==
  ASSUME Way, BridgeSend
  PROVE  Way'
<1>1. TypeOK /\ Queued /\ OnTheWay
  BY DEF Way
<1>2. /\ TypeOK' /\ Kept /\ entry \in Conns
      /\ Len(commands) \in Nat /\ Len(commands') = Len(commands) + 1
      /\ \A i \in Commands : commands'[i] = commands[i]
      /\ commands'[Len(commands) + 1] =
           [kind |-> "bridge", conn |-> entry, at |-> "over", row |-> "none"]
  BY <1>1, BridgeSendIs
<1>2a. \E q \in {conns[entry].down, Append(conns[entry].down, Len(commands) + 1)} :
         Only(entry, q, conns[entry].up, conns[entry].at, conns[entry].got,
              conns[entry].cut, conns[entry].closed)
  BY <1>1, BridgeSendIs
<1>3. UNCHANGED <<tx, target>> /\ Len(commands) < MaxCommands /\ ~conns[entry].closed
  BY DEF BridgeSend, board, Writable
<1>4. PICK n \in Nat : n = Len(commands) + 1
  BY <1>2
<1>5. n <= MaxCommands
  BY <1>2, <1>3, <1>4, CommandBoundsAssumption
<1>6. n \notin Commands /\ Fresh(n) /\ \A p \in DOMAIN conns[Newest].down : conns[Newest].down[p] # n
  BY <1>1, <1>4, <1>5, NewIs
<1>7. \A i \in Commands' : i \notin Commands => i = n
  BY <1>2, <1>4 DEF Commands
<1>8. \A i : Fresh(i)' <=> Fresh(i)
  BY <1>3 DEF Fresh
<1>9. Conns' = Conns /\ Newest' = Newest
  BY <1>2a DEF Only
<1>10. OnTheWay'
  <2>1. CASE Only(entry, conns[entry].down, conns[entry].up, conns[entry].at, conns[entry].got,
                  conns[entry].cut, conns[entry].closed)
    <3>0. Piece(conns[entry].down, conns[entry].down)
      BY <1>1, <1>2, LinkIs, PieceSame
    <3>1. /\ Conns' = Conns /\ Newest' = Newest
          /\ \A b \in Conns : /\ conns[b].closed => conns'[b].closed
                              /\ Piece(conns'[b].down, conns[b].down)
      BY <1>1, <1>2, <2>1, <3>0, OnlyWay
    <3>2. commands'[n].conn \in Conns /\ commands'[n].at # "insert"
      BY <1>2, <1>4
    <3>3. WayStep(0)
      BY <1>2, <1>7, <1>8, <3>1, <3>2 DEF WayStep
    <3>. QED BY <1>1, <1>2, <3>3, WayKept
  <2>2. CASE Only(entry, Append(conns[entry].down, Len(commands) + 1), conns[entry].up,
                  conns[entry].at, conns[entry].got, conns[entry].cut, conns[entry].closed)
    <3>1. /\ Others(entry) /\ conns'[entry].down = Append(conns[entry].down, n)
          /\ conns'[entry].closed = conns[entry].closed
      BY <1>4, <2>2 DEF Only
    <3>2. commands'[n].conn = entry /\ commands'[n].at # "insert" /\ n \in Commands'
      BY <1>2, <1>4 DEF Commands
    <3>3. Commands' \subseteq Commands \union {n}
      BY <1>7
    <3>. QED BY <1>1, <1>2, <1>3, <1>6, <1>9, <3>1, <3>2, <3>3, WayGrows
  <2>. QED BY <1>2a, <2>1, <2>2
<1>11. Queued'
  BY <1>1, <1>2, <1>3, <1>9, QueueKept
<1>. QED BY <1>2, <1>10, <1>11 DEF Way

\* A command that waited goes to the end of the frames.
LEMMA SendWay ==
  ASSUME Way, NEW i \in Commands, Send(i)
  PROVE  Way'
<1>1. TypeOK /\ Queued /\ OnTheWay /\ commands[i].conn \in Conns
  BY DEF Way, OnTheWay
<1>2. /\ TypeOK' /\ Kept /\ Commands' = Commands
      /\ commands'[i].at \in {"over", "fail"} /\ commands[i].at = "insert"
      /\ \A j \in Commands : j # i => commands'[j] = commands[j]
  BY <1>1, SendIs
<1>3. PICK c \in Conns : c = commands[i].conn
  BY <1>1
<1>4. \/ UNCHANGED conns
      \/ /\ ~conns[c].closed
         /\ \E q \in {conns[c].down, Append(conns[c].down, i)} :
              Only(c, q, conns[c].up, conns[c].at, conns[c].got, conns[c].cut, conns[c].closed)
  BY <1>1, <1>3, SendIs
<1>5. UNCHANGED <<tx, target>>
  BY DEF Send, board
<1>6. \A j : Fresh(j)' <=> Fresh(j)
  BY <1>5 DEF Fresh
<1>7. commands'[i].at # "insert" /\ commands'[i].conn = c
  BY <1>2, <1>3 DEF Kept
<1>8. ASSUME Conns' = Conns, Newest' = Newest,
             \A b \in Conns : /\ conns[b].closed => conns'[b].closed
                              /\ Piece(conns'[b].down, conns[b].down)
      PROVE  OnTheWay'
  <2>1. WayStep(0)
    BY <1>2, <1>6, <1>8 DEF WayStep
  <2>. QED BY <1>1, <1>2, <2>1, WayKept
<1>9. Conns' = Conns /\ Newest' = Newest
  BY <1>4 DEF Only, Conns, Newest
<1>10. OnTheWay'
  <2>1. CASE UNCHANGED conns
    BY <1>1, <1>8, <2>1, SameWay
  <2>2. CASE Only(c, conns[c].down, conns[c].up, conns[c].at, conns[c].got, conns[c].cut, conns[c].closed)
    <3>1. Piece(conns[c].down, conns[c].down)
      BY <1>1, LinkIs, PieceSame
    <3>2. \A b \in Conns : /\ conns[b].closed => conns'[b].closed
                           /\ Piece(conns'[b].down, conns[b].down)
      BY <1>1, <2>2, <3>1, OnlyWay
    <3>. QED BY <1>8, <1>9, <3>2
  <2>3. CASE /\ ~conns[c].closed
             /\ Only(c, Append(conns[c].down, i), conns[c].up, conns[c].at, conns[c].got,
                     conns[c].cut, conns[c].closed)
    <3>1. Others(c) /\ conns'[c].down = Append(conns[c].down, i) /\ conns'[c].closed = conns[c].closed
      BY <2>3 DEF Only
    <3>2. Fresh(i) /\ \A p \in DOMAIN conns[Newest].down : conns[Newest].down[p] # i
      BY <1>1, <1>2 DEF OnTheWay
    <3>3. i \in Commands' /\ Commands' \subseteq Commands \union {i}
      BY <1>2
    <3>. QED BY <1>1, <1>2, <1>5, <1>7, <1>9, <2>3, <3>1, <3>2, <3>3, WayGrows
  <2>. QED BY <1>4, <2>1, <2>2, <2>3
<1>11. Queued'
  BY <1>1, <1>2, <1>5, <1>9, QueueKept
<1>. QED BY <1>2, <1>10, <1>11 DEF Way

\* A step that leaves the board's queue and the target alone, and takes frames at most.
LEMMA QuietWay ==
  ASSUME Way, TypeOK', Kept, Commands' = Commands, UNCHANGED <<tx, target>>,
         Conns' = Conns, Newest' = Newest,
         \A b \in Conns : /\ conns[b].closed => conns'[b].closed
                          /\ Piece(conns'[b].down, conns[b].down),
         \A i \in Commands : commands'[i].at = "insert" => commands[i].at = "insert"
  PROVE  Way'
<1>1. TypeOK /\ Queued /\ OnTheWay
  BY DEF Way
<1>2. \A j : Fresh(j)' <=> Fresh(j)
  BY DEF Fresh
<1>3. WayStep(0)
  BY <1>2 DEF WayStep
<1>. QED BY <1>1, <1>3, WayKept, QueueKept DEF Way

LEMMA QuietOnly ==
  ASSUME Way, TypeOK', Kept, Commands' = Commands, UNCHANGED <<tx, target>>,
         NEW c \in Conns, NEW d, NEW u, NEW a, NEW g, NEW z, NEW e,
         Only(c, d, u, a, g, z, e), conns[c].closed => e, Piece(d, conns[c].down),
         \A i \in Commands : commands'[i].at = "insert" => commands[i].at = "insert"
  PROVE  Way'
<1>1. TypeOK
  BY DEF Way
<1>2. /\ Conns' = Conns /\ Newest' = Newest
      /\ \A b \in Conns : /\ conns[b].closed => conns'[b].closed
                          /\ Piece(conns'[b].down, conns[b].down)
  BY <1>1, OnlyWay
<1>. QED BY <1>2, QuietWay

LEMMA QuietSame ==
  ASSUME Way, TypeOK', Kept, Commands' = Commands, UNCHANGED <<conns, tx, target>>,
         \A i \in Commands : commands'[i].at = "insert" => commands[i].at = "insert"
  PROVE  Way'
<1>1. TypeOK
  BY DEF Way
<1>2. /\ Conns' = Conns /\ Newest' = Newest
      /\ \A b \in Conns : /\ conns[b].closed => conns'[b].closed
                          /\ Piece(conns'[b].down, conns[b].down)
  BY <1>1, SameWay
<1>. QED BY <1>2, QuietWay

LEMMA SendFailsWay ==
  ASSUME Way, NEW i \in Commands, SendFails(i)
  PROVE  Way'
<1>1. /\ TypeOK' /\ Kept /\ Commands' = Commands /\ commands'[i].at = "over"
      /\ \A j \in Commands : j # i => commands'[j] = commands[j]
  BY SendFailsIs DEF Way
<1>2. UNCHANGED <<conns, tx, target>>
  BY DEF SendFails, board
<1>3. \A j \in Commands : commands'[j].at = "insert" => commands[j].at = "insert"
  BY <1>1
<1>. QED BY <1>1, <1>2, <1>3, QuietSame

\* A link takes frames at most.
LEMMA LinkWay ==
  ASSUME Way, Leave \/ Cut
  PROVE  Way'
<1>0. TypeOK
  BY DEF Way
<1>0a. UNCHANGED commands
  <2>1. CASE Leave
    BY <2>1 DEF Leave
  <2>2. CASE Cut
    BY <2>2, Zenon DEF Cut
  <2>. QED BY <2>1, <2>2
<1>1. TypeOK /\ Newest \in Conns /\ UNCHANGED commands
  BY <1>0, <1>0a, LinksAre
<1>2. \A j \in Commands : commands'[j].at = "insert" => commands[j].at = "insert"
  BY <1>1
<1>3. CASE Leave
  <2>1. /\ TypeOK' /\ Kept /\ Commands' = Commands /\ UNCHANGED <<tx, target>>
        /\ LET c == Newest IN
           Only(c, <<>>, conns[c].up, conns[c].at, conns[c].got, TRUE, conns[c].closed)
    BY <1>1, <1>3, LeaveIs
  <2>2. Piece(<<>>, conns[Newest].down)
    BY PieceEmpty
  <2>. QED BY <1>1, <1>2, <2>1, <2>2, QuietOnly
<1>4. CASE Cut
  <2>1. /\ TypeOK' /\ Kept /\ Commands' = Commands /\ UNCHANGED <<tx, target>>
        /\ LET c == Newest IN
           \E u \in 0..Len(conns[c].up), d \in 0..Len(conns[c].down) :
             Only(c, SubSeq(conns[c].down, 1, d), SubSeq(conns[c].up, 1, u), conns[c].at,
                  conns[c].got, TRUE, conns[c].closed)
    BY <1>1, <1>4, CutIs
  <2>2. PICK u \in 0..Len(conns[Newest].up), d \in 0..Len(conns[Newest].down) :
          Only(Newest, SubSeq(conns[Newest].down, 1, d), SubSeq(conns[Newest].up, 1, u), conns[Newest].at,
               conns[Newest].got, TRUE, conns[Newest].closed)
    BY <2>1
  <2>3. Piece(SubSeq(conns[Newest].down, 1, d), conns[Newest].down)
    BY <1>1, LinkIs, PiecePrefix
  <2>. QED BY <1>1, <1>2, <2>1, <2>2, <2>3, QuietOnly
<1>. QED BY <1>3, <1>4

\* A handler takes nothing from the way to the board.
LEMMA HandlerWay ==
  ASSUME Way, Carried, NEW c \in Conns, Handler(c) \/ HandlerRaises(c)
  PROVE  Way'
<1>1. TypeOK
  BY DEF Way
<1>2. UNCHANGED <<tx, target>>
  BY DEF Handler, Output, ResultComes, Complete, InsertResult, Eof, HandlerRaises, board
<1>3. Piece(conns[c].down, conns[c].down)
  BY <1>1, LinkIs, PieceSame
<1>4. CASE Output(c)
  <2>1. /\ TypeOK' /\ Kept /\ Commands' = Commands
        /\ Only(c, conns[c].down, Tail(conns[c].up), "read", Nothing, conns[c].cut, conns[c].closed)
    BY <1>1, <1>4, OutputIs
  <2>2. UNCHANGED commands
    BY <1>4 DEF Output
  <2>. QED BY <1>2, <1>3, <2>1, <2>2, QuietOnly
<1>5. CASE ResultComes(c)
  <2>1. /\ TypeOK' /\ Kept /\ Commands' = Commands
        /\ \/ Only(c, conns[c].down, Tail(conns[c].up), "read", Nothing, conns[c].cut, conns[c].closed)
           \/ Only(c, conns[c].down, Tail(conns[c].up), "complete", conns[c].up[1], conns[c].cut,
                   conns[c].closed)
    BY <1>1, <1>5, ResultComesIs
  <2>2. UNCHANGED commands
    BY <1>5 DEF ResultComes
  <2>. QED BY <1>2, <1>3, <2>1, <2>2, QuietOnly
<1>6. CASE Complete(c)
  <2>1. PICK i \in Commands : i = conns[c].got.cmd
    BY <1>1, <1>6, CompleteIs
  <2>2. /\ TypeOK' /\ Kept /\ Commands' = Commands
        /\ Only(c, conns[c].down, conns[c].up, "store", conns[c].got, conns[c].cut, conns[c].closed)
        /\ commands'[i].at = commands[i].at
        /\ \A j \in Commands : j # i => commands'[j] = commands[j]
    BY <1>1, <1>6, <2>1, CompleteIs
  <2>3. \A j \in Commands : commands'[j].at = "insert" => commands[j].at = "insert"
    BY <2>2
  <2>. QED BY <1>2, <1>3, <2>2, <2>3, QuietOnly
<1>7. CASE InsertResult(c)
  <2>1. /\ TypeOK' /\ Kept /\ Commands' = Commands
        /\ Only(c, conns[c].down, conns[c].up, "read", Nothing, conns[c].cut, conns[c].closed)
    BY <1>1, <1>7, InsertResultIs
  <2>2. UNCHANGED commands
    BY <1>7 DEF InsertResult
  <2>. QED BY <1>2, <1>3, <2>1, <2>2, QuietOnly
<1>8. CASE Eof(c) \/ HandlerRaises(c)
  <2>1. /\ TypeOK' /\ Kept /\ Commands' = Commands
        /\ Only(c, conns[c].down, <<>>, "over", Nothing, conns[c].cut, TRUE)
    BY <1>1, <1>8, EndsIs
  <2>2. UNCHANGED commands
    BY <1>8 DEF Eof, HandlerRaises
  <2>. QED BY <1>2, <1>3, <2>1, <2>2, QuietOnly
<1>. QED BY <1>4, <1>5, <1>6, <1>7, <1>8 DEF Handler

\* What the board does with the command at the head.
LEMMA CarryWay ==
  ASSUME Way, Carry
  PROVE  Way'
<1>1. TypeOK /\ Queued /\ OnTheWay /\ Reads
  BY DEF Way, Carry
<1>2. PICK i \in Commands : i = Head(conns[Newest].down) /\ i \in 1..MaxCommands
  BY <1>1, HeadIs
<1>3. /\ Newest \in Conns /\ conns[Newest].down # <<>> /\ i = conns[Newest].down[1]
      /\ 1 \in DOMAIN conns[Newest].down /\ conns[Newest].down \in Seq(Commands)
  BY <1>1, <1>2, HeadIs
<1>4. Fresh(i) /\ commands[i].conn = Newest /\ commands[i].at # "insert"
  <2>1. Fresh(i) /\ commands[i].conn = Newest
    BY <1>1, <1>3 DEF OnTheWay
  <2>2. commands[i].at # "insert"
    BY <1>1, <1>3 DEF OnTheWay
  <2>. QED BY <2>1, <2>2
<1>5. /\ UNCHANGED commands /\ (Injects(i) \/ ReadAll(i) \/ QueueWrite(i))
      /\ UNCHANGED <<commands, entry, on, output, results, printed, faults>>
  BY <1>2 DEF Carry
<1>6. Kept /\ Commands' = Commands
  BY <1>1, <1>5, TypeParts, CommandsSame
<1>7. Piece(Tail(conns[Newest].down), conns[Newest].down)
  BY <1>3, PieceTail
<1>8. \A p \in DOMAIN Tail(conns[Newest].down) : Tail(conns[Newest].down)[p] # i
  <2>1. ASSUME NEW p \in DOMAIN Tail(conns[Newest].down) PROVE Tail(conns[Newest].down)[p] # i
    <3>1. /\ DOMAIN conns[Newest].down = 1..Len(conns[Newest].down) /\ Len(conns[Newest].down) \in Nat
          /\ DOMAIN Tail(conns[Newest].down) = 1..(Len(conns[Newest].down) - 1)
          /\ \A q \in 1..(Len(conns[Newest].down) - 1) : Tail(conns[Newest].down)[q] = conns[Newest].down[q + 1]
      BY <1>3, TailIs
    <3>2. p + 1 \in DOMAIN conns[Newest].down /\ p + 1 # 1 /\ Tail(conns[Newest].down)[p] = conns[Newest].down[p + 1]
      BY <3>1
    <3>3. conns[Newest].down[p + 1] = conns[Newest].down[1] => p + 1 = 1
      BY <1>1, <1>3, <3>2, Zenon DEF OnTheWay
    <3>. QED BY <1>3, <3>2, <3>3
  <2>. QED BY <2>1
<1>9. ASSUME NEW u, TypeOK',
             LET c == Newest IN
             Only(c, Tail(conns[c].down), u, conns[c].at, conns[c].got, conns[c].cut, conns[c].closed),
             \A j \in 1..MaxCommands : j # i /\ Fresh(j) => Fresh(j)'
      PROVE  OnTheWay' /\ Newest' = Newest
  <2>0. Only(Newest, Tail(conns[Newest].down), u, conns[Newest].at, conns[Newest].got,
             conns[Newest].cut, conns[Newest].closed)
    BY <1>9
  <2>1. /\ Conns' = Conns /\ Newest' = Newest
        /\ \A b \in Conns : /\ conns[b].closed => conns'[b].closed
                            /\ Piece(conns'[b].down, conns[b].down)
    BY <1>1, <1>3, <1>7, <2>0, OnlyWay
  <2>2. \A p \in DOMAIN conns'[Newest].down : conns'[Newest].down[p] # i
    BY <1>8, <2>0 DEF Only
  <2>3. WayStep(i)
    BY <1>4, <1>5, <1>6, <1>9, <2>1, <2>2 DEF WayStep
  <2>4. TypeOK'
    BY <1>9
  <2>. QED BY <1>1, <2>1, <2>3, <2>4, WayKept
<1>10. CASE Injects(i)
  <2>1. TypeOK' /\ commands[i].kind = "keys" /\ UNCHANGED tx
    BY <1>1, <1>2, <1>5, <1>10, InjectsIs
  <2>2. PICK ok \in BOOLEAN :
          /\ target' = [target EXCEPT ![i] = IF ok THEN @ + 1 ELSE @]
          /\ LET c == Newest IN
             \E u \in {conns[c].up, conns[c].up \o <<Result(i, ok, <<>>)>>} :
               Only(c, Tail(conns[c].down), u, conns[c].at, conns[c].got, conns[c].cut, conns[c].closed)
    BY <1>1, <1>2, <1>5, <1>10, InjectsIs
  <2>3. \A j \in 1..MaxCommands : j # i => target'[j] = target[j]
    BY <1>1, <2>2, QueueIs
  <2>4. \A j \in 1..MaxCommands : j # i /\ Fresh(j) => Fresh(j)'
    BY <2>1, <2>3 DEF Fresh
  <2>5. OnTheWay' /\ Newest' = Newest
    BY <1>9, <2>1, <2>2, <2>4
  <2>6. \A p \in 1..Len(tx) : target'[tx[p]] = target[tx[p]]
    <3>1. ASSUME NEW p \in 1..Len(tx) PROVE tx[p] # i /\ tx[p] \in 1..MaxCommands
      BY <1>1, <1>4, QueueIs DEF Fresh
    <3>. QED BY <2>3, <3>1
  <2>7. Queued'
    BY <1>1, <1>6, <2>1, <2>5, <2>6, QueueKept
  <2>. QED BY <2>1, <2>5, <2>7 DEF Way
<1>11. CASE ReadAll(i)
  <2>1. TypeOK' /\ UNCHANGED <<tx, target>>
    BY <1>1, <1>2, <1>5, <1>11, ReadAllIs
  <2>2. LET c == Newest IN
        \E u \in {conns[c].up, conns[c].up \o <<Result(i, TRUE, console)>>} :
          Only(c, Tail(conns[c].down), u, conns[c].at, conns[c].got, conns[c].cut, conns[c].closed)
    BY <1>1, <1>2, <1>5, <1>11, ReadAllIs
  <2>4. \A j \in 1..MaxCommands : j # i /\ Fresh(j) => Fresh(j)'
    BY <2>1 DEF Fresh
  <2>5. OnTheWay' /\ Newest' = Newest
    BY <1>9, <2>1, <2>2, <2>4
  <2>7. Queued'
    BY <1>1, <1>6, <2>1, <2>5, QueueKept
  <2>. QED BY <2>1, <2>5, <2>7 DEF Way
<1>12. CASE QueueWrite(i)
  <2>1. TypeOK' /\ commands[i].kind \in {"send", "bridge"} /\ UNCHANGED <<console, target>>
    BY <1>1, <1>2, <1>5, <1>12, QueueWriteIs
  <2>2. \/ /\ UNCHANGED tx
           /\ LET c == Newest IN
              \E u \in {conns[c].up, conns[c].up \o <<Result(i, FALSE, <<>>)>>} :
                Only(c, Tail(conns[c].down), u, conns[c].at, conns[c].got,
                     conns[c].cut, conns[c].closed)
        \/ /\ Len(tx) \in Nat /\ Len(tx') = Len(tx) + Payload
           /\ \A p \in 1..Len(tx) : tx'[p] = tx[p]
           /\ \A p \in 1..Payload : tx'[Len(tx) + p] = i
           /\ LET c == Newest IN
              Only(c, Tail(conns[c].down), conns[c].up, conns[c].at, conns[c].got,
                   conns[c].cut, conns[c].closed)
    BY <1>1, <1>2, <1>5, <1>12, QueueWriteIs
  <2>3. CASE /\ UNCHANGED tx
             /\ LET c == Newest IN
                \E u \in {conns[c].up, conns[c].up \o <<Result(i, FALSE, <<>>)>>} :
                  Only(c, Tail(conns[c].down), u, conns[c].at, conns[c].got,
                       conns[c].cut, conns[c].closed)
    <3>1. \A j \in 1..MaxCommands : j # i /\ Fresh(j) => Fresh(j)'
      BY <2>1, <2>3 DEF Fresh
    <3>2. OnTheWay' /\ Newest' = Newest
      BY <1>9, <2>1, <2>3, <3>1
    <3>3. Queued'
      BY <1>1, <1>6, <2>1, <2>3, <3>2, QueueKept
    <3>. QED BY <2>1, <3>2, <3>3 DEF Way
  <2>4. CASE /\ Len(tx) \in Nat /\ Len(tx') = Len(tx) + Payload
             /\ \A p \in 1..Len(tx) : tx'[p] = tx[p]
             /\ \A p \in 1..Payload : tx'[Len(tx) + p] = i
             /\ LET c == Newest IN
                Only(c, Tail(conns[c].down), conns[c].up, conns[c].at, conns[c].got,
                     conns[c].cut, conns[c].closed)
    <3>1. \A p \in DOMAIN tx' : tx'[p] = i \/ (p \in DOMAIN tx /\ tx'[p] = tx[p])
      <4>1. DOMAIN tx' = 1..(Len(tx) + Payload) /\ DOMAIN tx = 1..Len(tx) /\ Payload \in Nat
        BY <2>1, <2>4, SerialAssumption, <1>1, QueueIs DEF TypeOK
      <4>2. ASSUME NEW p \in DOMAIN tx', ~(p \in DOMAIN tx) PROVE tx'[p] = i
        <5>1. p - Len(tx) \in 1..Payload /\ Len(tx) + (p - Len(tx)) = p
          BY <2>4, <4>1, <4>2
        <5>. QED BY <2>4, <5>1
      <4>. QED BY <2>4, <4>1, <4>2
    <3>2. \A j \in 1..MaxCommands : j # i /\ Fresh(j) => Fresh(j)'
      BY <2>1, <3>1 DEF Fresh
    <3>3. OnTheWay' /\ Newest' = Newest
      BY <1>9, <2>1, <2>4, <3>2
    <3>4. Sends(i)
      BY <2>1 DEF Sends
    <3>5. Queued'
      BY <1>1, <1>4, <1>6, <2>1, <2>4, <3>3, <3>4, QueueGrows
    <3>. QED BY <2>1, <3>3, <3>5 DEF Way
  <2>. QED BY <2>2, <2>3, <2>4
<1>. QED BY <1>5, <1>10, <1>11, <1>12

\* The queue is written from its front.
LEMMA PassWay ==
  ASSUME Way, NEW n \in Nat, Pass(n)
  PROVE  Way'
<1>1. TypeOK /\ Queued /\ OnTheWay /\ UNCHANGED commands
  BY DEF Way, Pass
<1>2. /\ TypeOK' /\ Kept /\ Commands' = Commands /\ n \in 0..Len(tx) /\ Len(tx) \in Nat
      /\ target' = [i \in 1..MaxCommands |-> target[i] + Bytes(n, i)]
      /\ Len(tx') = Len(tx) - n /\ \A p \in 1..(Len(tx) - n) : tx'[p] = tx[n + p]
  BY <1>1, PassIs
<1>3. PICK u : LET c == Newest IN
        Only(c, conns[c].down, u, conns[c].at, conns[c].got, conns[c].cut, conns[c].closed)
  BY <1>1, PassIs
<1>4. Newest \in Conns
  BY <1>1, LinksAre
<1>5. /\ Conns' = Conns /\ Newest' = Newest
      /\ \A b \in Conns : /\ conns[b].closed => conns'[b].closed
                          /\ Piece(conns'[b].down, conns[b].down)
  <2>1. Only(Newest, conns[Newest].down, u, conns[Newest].at, conns[Newest].got,
             conns[Newest].cut, conns[Newest].closed)
    BY <1>3
  <2>2. Piece(conns[Newest].down, conns[Newest].down)
    BY <1>1, <1>4, LinkIs, PieceSame
  <2>. QED BY <1>1, <1>4, <2>1, <2>2, OnlyWay
<1>6. ASSUME NEW j \in 1..MaxCommands, Fresh(j) PROVE Fresh(j)'
  <2>1. Count(tx, n, j) = 0
    <3>1. ASSUME NEW p \in 1..n PROVE tx[p] # j
      <4>1. p \in 1..Len(tx) /\ DOMAIN tx = 1..Len(tx)
        BY <1>1, <1>2, QueueIs
      <4>. QED BY <1>6, <4>1 DEF Fresh
    <3>. QED BY <3>1, CountIs, Zenon
  <2>2. target'[j] = 0
    BY <1>2, <1>6, <2>1 DEF Fresh, Bytes, Count
  <2>3. \A p \in DOMAIN tx' : tx'[p] # j
    <3>1. DOMAIN tx' = 1..(Len(tx) - n)
      BY <1>2 DEF TypeOK
    <3>2. ASSUME NEW p \in DOMAIN tx' PROVE tx'[p] # j
      <4>1. n + p \in DOMAIN tx /\ tx'[p] = tx[n + p]
        BY <1>1, <1>2, <3>1, QueueIs
      <4>. QED BY <1>6, <4>1 DEF Fresh
    <3>. QED BY <3>2
  <2>. QED BY <2>2, <2>3 DEF Fresh
<1>7. OnTheWay'
  <2>1. WayStep(0)
    BY <1>1, <1>2, <1>5, <1>6 DEF WayStep
  <2>. QED BY <1>1, <1>2, <2>1, WayKept
<1>8. Queued'
  <2>1. ASSUME NEW p \in 1..(Len(tx) - n)
        PROVE  target'[tx'[p]] = target[tx'[p]] + Count(tx, n, tx'[p])
    <3>1. n + p \in 1..Len(tx) /\ tx'[p] = tx[n + p]
      BY <1>2
    <3>2. tx'[p] \in 1..MaxCommands
      BY <1>1, <3>1, QueueIs
    <3>. QED BY <1>2, <3>2 DEF Bytes, Count
  <2>. QED BY <1>1, <1>2, <1>5, <2>1, QueueCut
<1>. QED BY <1>2, <1>7, <1>8 DEF Way

\* The job at the head is dropped as a whole.
LEMMA WriteFailsWay ==
  ASSUME Way, WriteFails
  PROVE  Way'
<1>1. TypeOK /\ Queued /\ OnTheWay /\ UNCHANGED commands
  BY DEF Way, WriteFails
<1>2. /\ TypeOK' /\ Kept /\ Commands' = Commands /\ UNCHANGED target
      /\ tx # <<>> /\ Len(tx) \in Nat
  BY <1>1, WriteFailsIs
<1>2a. PICK k \in 1..Len(tx) :
         /\ \A p \in 1..Len(tx) : tx[p] = tx[1] <=> p <= k
         /\ Len(tx') = Len(tx) - k /\ \A p \in 1..(Len(tx) - k) : tx'[p] = tx[k + p]
  BY <1>1, WriteFailsIs
<1>3. PICK u : LET c == Newest IN
        Only(c, conns[c].down, u, conns[c].at, conns[c].got, conns[c].cut, conns[c].closed)
  BY <1>1, WriteFailsIs
<1>4. Newest \in Conns
  BY <1>1, LinksAre
<1>5. /\ Conns' = Conns /\ Newest' = Newest
      /\ \A b \in Conns : /\ conns[b].closed => conns'[b].closed
                          /\ Piece(conns'[b].down, conns[b].down)
  <2>1. Only(Newest, conns[Newest].down, u, conns[Newest].at, conns[Newest].got,
             conns[Newest].cut, conns[Newest].closed)
    BY <1>3
  <2>2. Piece(conns[Newest].down, conns[Newest].down)
    BY <1>1, <1>4, LinkIs, PieceSame
  <2>. QED BY <1>1, <1>4, <2>1, <2>2, OnlyWay
<1>6. ASSUME NEW j \in 1..MaxCommands, Fresh(j) PROVE Fresh(j)'
  <2>1. DOMAIN tx' = 1..(Len(tx) - k)
    BY <1>2, <1>2a DEF TypeOK
  <2>2. ASSUME NEW p \in DOMAIN tx' PROVE tx'[p] # j
    <3>0. DOMAIN tx = 1..Len(tx) /\ p \in 1..(Len(tx) - k) /\ Len(tx) \in Nat
      BY <1>1, <2>1, QueueIs
    <3>1. k + p \in DOMAIN tx /\ tx'[p] = tx[k + p]
      BY <1>2a, <3>0
    <3>. QED BY <1>6, <3>1 DEF Fresh
  <2>. QED BY <1>2, <1>6, <2>2 DEF Fresh
<1>7. OnTheWay'
  <2>1. WayStep(0)
    BY <1>1, <1>2, <1>5, <1>6 DEF WayStep
  <2>. QED BY <1>1, <1>2, <2>1, WayKept
<1>8. Queued'
  <2>0. k \in 0..Len(tx)
    BY <1>2
  <2>1. ASSUME NEW p \in 1..(Len(tx) - k)
        PROVE  target'[tx'[p]] = target[tx'[p]] + Count(tx, k, tx'[p])
    <3>1. k + p \in 1..Len(tx) /\ tx'[p] = tx[k + p] /\ ~(k + p <= k)
      BY <1>2, <1>2a
    <3>2. tx'[p] # tx[1] /\ target[tx'[p]] \in Nat
      BY <1>1, <1>2a, <3>1, QueueIs
    <3>3. \A q \in 1..k : tx[q] # tx'[p]
      <4>1. \A q \in 1..k : q \in 1..Len(tx) /\ q <= k
        BY <1>2
      <4>. QED BY <1>2a, <3>2, <4>1
    <3>4. k \in Nat
      BY <1>2
    <3>5. Count(tx, k, tx'[p]) = 0
      BY <3>3, <3>4, CountIs, Zenon
    <3>. QED BY <1>2, <3>2, <3>5
  <2>. QED BY <1>1, <1>2, <1>2a, <1>5, <2>0, <2>1, QueueCut
<1>. QED BY <1>2, <1>7, <1>8 DEF Way

\* The newest connection is a new one.
LEMMA ConnectWay ==
  ASSUME Way, Connect
  PROVE  Way'
<1>1. TypeOK /\ OnTheWay /\ UNCHANGED commands
  BY DEF Way, Connect
<1>2. /\ TypeOK' /\ Kept /\ Commands' = Commands /\ UNCHANGED target /\ tx' = <<>>
      /\ Len(conns) \in Nat \ {0} /\ Len(conns') = Len(conns) + 1
      /\ conns'[Len(conns) + 1] = Connection
      /\ \A c \in Conns : conns'[c].down = conns[c].down /\ conns'[c].closed = TRUE
  BY <1>1, ConnectIs
<1>3. /\ Newest' = Len(conns) + 1 /\ Conns \subseteq Conns'
      /\ \A c \in Conns' : c \in Conns \/ c = Newest'
      /\ \A c \in Conns' : c < Newest' => c \in Conns
  BY <1>2 DEF Newest, Conns
<1>4. conns'[Newest'].down = <<>>
  BY <1>2, <1>3 DEF Connection
<1>5. \A p \in DOMAIN conns'[Newest'].down : FALSE
  BY <1>4
<1>6. \A p \in DOMAIN tx' : FALSE
  BY <1>2
<1>7. Queued'
  BY <1>6 DEF Queued
<1>8. \A j : Fresh(j) => Fresh(j)'
  BY <1>2, <1>6 DEF Fresh
<1>9. \A c \in Conns' : c < Newest' => conns'[c].closed
  BY <1>2, <1>3
<1>10. \A i \in Commands' : commands'[i].conn \in Conns'
  BY <1>1, <1>2, <1>3 DEF OnTheWay
<1>11. \A c \in Conns' : \A p \in DOMAIN conns'[c].down : commands'[conns'[c].down[p]].conn = c
  <2>1. ASSUME NEW c \in Conns', NEW p \in DOMAIN conns'[c].down
        PROVE  c \in Conns /\ commands'[conns'[c].down[p]].conn = c
    <3>1. c \in Conns
      BY <1>3, <1>5, <2>1
    <3>. QED BY <1>1, <1>2, <2>1, <3>1 DEF OnTheWay
  <2>. QED BY <2>1
<1>12. \A i \in Commands' : commands'[i].at = "insert" => Fresh(i)'
  <2>1. \A i \in Commands : commands[i].at = "insert" => Fresh(i)
    BY <1>1 DEF OnTheWay
  <2>. QED BY <1>1, <1>2, <1>8, <2>1
<1>13. \A i \in 1..MaxCommands : i > Len(commands') => target'[i] = 0
  BY <1>1, <1>2 DEF OnTheWay
<1>14. OnTheWay'
  BY <1>5, <1>9, <1>10, <1>11, <1>12, <1>13 DEF OnTheWay
<1>. QED BY <1>2, <1>7, <1>14 DEF Way

LEMMA PrintsWay == ASSUME Way, Prints PROVE Way'
<1>1. TypeOK' /\ Kept /\ Commands' = Commands
  BY PrintsIs DEF Way
<1>. QED BY <1>1, QuietSame DEF Prints

LEMMA LogWay == ASSUME Way, LogStep, UNCHANGED <<commands, conns, tx, target>> PROVE Way'
BY QuietSame DEF LogStep

LEMMA StillWay == ASSUME Way, UNCHANGED vars PROVE Way'
<1>1. UNCHANGED <<commands, conns, entry, on, tx, pending, console, target, buf, db, log, results,
                  request, need, printed, faults, lost>>
  BY DEF vars, board, output
<1>2. TypeOK
  BY DEF Way
<1>3. /\ Dispatched /\ Linked /\ Boarded /\ Logged /\ Resulted /\ Limited
  BY <1>2, TypeParts
<1>4. Dispatched' /\ Kept /\ Commands' = Commands
  BY <1>1, <1>3, CommandsSame
<1>5. Linked' /\ Boarded' /\ Logged' /\ Resulted' /\ Limited'
  <2>1. UNCHANGED board /\ UNCHANGED output
    BY <1>1 DEF board, output
  <2>. QED BY <1>1, <1>3, <1>4, <2>1, LinkedKept, BoardedKept, LoggedKept, ResultedKept DEF Limited
<1>6. TypeOK'
  BY <1>4, <1>5, TypePartsNext
<1>. QED BY <1>1, <1>4, <1>6, QuietSame
-----------------------------------------------------------------------------
(* What the target has, and what is said of it.                            *)

\* The messages of a connection that the hub has not dealt with.
Mail(c) == Range(conns[c].up) \union {conns[c].got}

LEMMA MailIs ==
  ASSUME TypeOK, NEW c \in Conns, NEW m \in Mail(c)
  PROVE  m \in Message /\ m.cmd \in 0..Len(commands) /\ (m.cmd # 0 => m.cmd \in Commands)
<1>1. conns[c].up \in Seq(Message) /\ conns[c].got \in Message
  BY LinkIs
<1>2. m \in Message
  BY <1>1 DEF Mail, Range
<1>3. m.cmd \in 0..Len(commands) /\ Len(commands) \in Nat
  BY <1>2, LinksAre DEF Message
<1>. QED BY <1>2, <1>3 DEF Commands

\* The size of a command does not change.
LEMMA SizeIs ==
  ASSUME NEW i \in Commands
  PROVE  /\ Size(i) \in Nat /\ (Kept => Size(i)' = Size(i))
         /\ Sends(i) => Size(i) = Payload
         /\ commands[i].kind = "keys" => Size(i) = 1
<1>1. Payload \in Nat
  BY SerialAssumption
<1>2. Sends(i) => Size(i) = Payload
  BY DEF Sends, Size
<1>3. commands[i].kind = "keys" => Size(i) = 1
  BY DEF Size
<1>4. Size(i) \in Nat
  BY <1>1 DEF Size
<1>5. Kept => Size(i)' = Size(i)
  BY DEF Kept, Size
<1>. QED BY <1>2, <1>3, <1>4, <1>5

\* The target gets no more than there is, and keeps what it has; a row becomes done only
\* for what the target has; and a message is one that was there, or says the truth.
TruthStep(New) ==
  /\ \A i \in Commands : target'[i] <= Size(i) /\ (target[i] = Size(i) => target'[i] = Size(i))
  /\ \A i \in Commands' :
       IF i \in Commands
       THEN commands'[i].row = "done" => commands[i].row = "done" \/ target[i] = Size(i)
       ELSE commands'[i].row # "done" /\ target'[i] = 0
  /\ \A b \in Conns' : \A m \in Mail(b)' :
       (b \in Conns /\ m \in Mail(b)) \/ m = Nothing \/ m \in New
  /\ \A m \in New : Earned(m)'

\* Such a step leaves every "done" true.
LEMMA TruthKept ==
  ASSUME TypeOK, TypeOK', Kept, OkMeansDone, Deferred, NEW New, TruthStep(New)
  PROVE  OkMeansDone' /\ Deferred'
<1>1. ASSUME NEW i \in Commands'
      PROVE  target'[i] <= Size(i)' /\ (commands'[i].row = "done" => target'[i] = Size(i)')
  <2>1. CASE i \in Commands
    <3>1. Size(i)' = Size(i) /\ target'[i] <= Size(i)
          /\ (target[i] = Size(i) => target'[i] = Size(i))
      BY <2>1, SizeIs DEF TruthStep
    <3>2. commands'[i].row = "done" => commands[i].row = "done" \/ target[i] = Size(i)
      BY <1>1, <2>1 DEF TruthStep
    <3>3. commands[i].row = "done" => target[i] = Size(i)
      BY <2>1 DEF OkMeansDone
    <3>. QED BY <3>1, <3>2, <3>3
  <2>2. CASE i \notin Commands
    <3>1. commands'[i].row # "done" /\ target'[i] = 0
      BY <1>1, <2>2 DEF TruthStep
    <3>2. Size(i)' \in Nat
      BY SerialAssumption DEF Size
    <3>. QED BY <3>1, <3>2
  <2>. QED BY <2>1, <2>2
<1>2. OkMeansDone'
  BY <1>1 DEF OkMeansDone, Size
<1>3. ASSUME NEW b \in Conns', NEW m \in Mail(b)' PROVE Earned(m)'
  <2>1. CASE b \in Conns /\ m \in Mail(b)
    <3>1. Earned(m)
      BY <2>1 DEF Deferred, Mail, Range
    <3>2. CASE m.cmd # 0 /\ m.ok
      <4>1. m.cmd \in Commands /\ target[m.cmd] = Size(m.cmd)
        BY <2>1, <3>1, <3>2, MailIs DEF Earned
      <4>2. target'[m.cmd] = Size(m.cmd) /\ Size(m.cmd)' = Size(m.cmd)
        BY <4>1, SizeIs DEF TruthStep
      <4>. QED BY <4>2 DEF Earned
    <3>3. CASE ~(m.cmd # 0 /\ m.ok)
      BY <3>3 DEF Earned
    <3>. QED BY <3>2, <3>3
  <2>2. CASE m = Nothing
    BY <2>2 DEF Nothing, Result, Earned
  <2>3. CASE m \in New
    BY <2>3 DEF TruthStep
  <2>. QED BY <1>3, <2>1, <2>2, <2>3 DEF TruthStep
<1>4. ASSUME NEW b \in Conns', NEW p \in DOMAIN conns'[b].up PROVE Earned(conns[b].up[p])'
  <2>1. PICK m : m = conns'[b].up[p]
    OBVIOUS
  <2>2. m \in Mail(b)'
    BY <1>4, <2>1 DEF Mail, Range
  <2>3. Earned(m)'
    BY <1>3, <2>2
  <2>. QED BY <2>1, <2>3 DEF Earned
<1>5. ASSUME NEW b \in Conns' PROVE Earned(conns[b].got)'
  <2>1. PICK m : m = conns'[b].got
    OBVIOUS
  <2>2. m \in Mail(b)'
    BY <2>1 DEF Mail
  <2>3. Earned(m)'
    BY <1>3, <2>2
  <2>. QED BY <2>1, <2>3 DEF Earned
<1>6. Deferred'
  BY <1>4, <1>5 DEF Deferred
<1>. QED BY <1>2, <1>6

LEMMA PieceRange == ASSUME NEW s, NEW q, Piece(s, q) PROVE Range(s) \subseteq Range(q)
BY DEF Piece, Range

\* The mail after a step in which one connection changes.
LEMMA OnlyMail ==
  ASSUME TypeOK, NEW c \in Conns, NEW d, NEW u, NEW a, NEW g, NEW z, NEW e,
         Only(c, d, u, a, g, z, e), NEW New, Range(u) \subseteq Range(conns[c].up) \union New,
         g \in Mail(c) \union {Nothing}
  PROVE  /\ Conns' = Conns
         /\ \A b \in Conns' : \A m \in Mail(b)' :
              (b \in Conns /\ m \in Mail(b)) \/ m = Nothing \/ m \in New
<1>1. Conns' = Conns
  BY DEF Only
<1>2. ASSUME NEW b \in Conns, NEW m \in Mail(b)'
      PROVE  (b \in Conns /\ m \in Mail(b)) \/ m = Nothing \/ m \in New
  <2>1. CASE b # c
    <3>1. conns'[b] = conns[b]
      BY <2>1 DEF Only, Others
    <3>. QED BY <1>2, <3>1 DEF Mail, Range
  <2>2. CASE b = c
    <3>1. Mail(b)' = Range(u) \union {g}
      BY <2>2 DEF Only, Mail, Range
    <3>. QED BY <1>2, <2>2, <3>1 DEF Mail
  <2>. QED BY <2>1, <2>2
<1>. QED BY <1>1, <1>2

LEMMA SameMail ==
  ASSUME UNCHANGED conns
  PROVE  \A b \in Conns' : \A m \in Mail(b)' : b \in Conns /\ m \in Mail(b)
BY DEF Mail, Range, Conns

\* The target as it was.
LEMMA TargetSame ==
  ASSUME OkMeansDone, UNCHANGED target
  PROVE  \A i \in Commands : target'[i] <= Size(i) /\ (target[i] = Size(i) => target'[i] = Size(i))
BY DEF OkMeansDone

LEMMA RangeSent ==
  ASSUME TypeOK, NEW c \in Conns, NEW ms \in Seq(Message), NEW u \in {conns[c].up, conns[c].up \o ms}
  PROVE  Range(u) \subseteq Range(conns[c].up) \union Range(ms)
<1>1. Range(conns[c].up \o ms) = Range(conns[c].up) \union Range(ms)
  BY LinkIs, RangeConcat
<1>. QED BY <1>1
-----------------------------------------------------------------------------
(* Each step says the truth.                                               *)

Truth == Way /\ OkMeansDone /\ Deferred

\* No message comes and the target gets nothing: a row may become something but done.
LEMMA QuietTruth ==
  ASSUME Truth, TypeOK', Kept, UNCHANGED target,
         \A i \in Commands' : IF i \in Commands
                              THEN commands'[i].row = "done" => commands[i].row = "done"
                              ELSE commands'[i].row # "done" /\ target'[i] = 0,
         \A b \in Conns' : \A m \in Mail(b)' : (b \in Conns /\ m \in Mail(b)) \/ m = Nothing
  PROVE  OkMeansDone' /\ Deferred'
<1>1. TypeOK /\ OkMeansDone /\ Deferred
  BY DEF Truth, Way
<1>2. TruthStep({})
  BY <1>1, TargetSame DEF TruthStep
<1>. QED BY <1>1, <1>2, TruthKept

\* A new command has no result yet.
LEMMA OpenTruth ==
  ASSUME Truth, (\E kind \in Kinds : Dispatch(kind)) \/ BridgeSend
  PROVE  OkMeansDone' /\ Deferred'
<1>1. TypeOK /\ OnTheWay
  BY DEF Truth, Way
<1>2. /\ TypeOK' /\ Kept /\ Len(commands) \in Nat /\ Len(commands') = Len(commands) + 1
      /\ \A i \in Commands : commands'[i] = commands[i]
      /\ commands'[Len(commands) + 1].row = "none"
  <2>1. CASE \E kind \in Kinds : Dispatch(kind)
    <3>1. PICK kind \in Kinds : Dispatch(kind)
      BY <2>1
    <3>2. /\ TypeOK' /\ Kept /\ Len(commands) \in Nat /\ Len(commands') = Len(commands) + 1
          /\ \A i \in Commands : commands'[i] = commands[i]
      BY <1>1, <3>1, DispatchIs
    <3>3. commands'[Len(commands) + 1] =
            [kind |-> kind, conn |-> entry, at |-> "insert", row |-> "none"]
      BY <1>1, <3>1, DispatchIs
    <3>. QED BY <3>2, <3>3
  <2>2. CASE BridgeSend
    BY <1>1, <2>2, BridgeSendIs
  <2>. QED BY <2>1, <2>2
<1>3. UNCHANGED target /\ Len(commands) < MaxCommands
  BY DEF Dispatch, BridgeSend, board
<1>4. PICK n \in Nat : n = Len(commands) + 1
  BY <1>2
<1>5. target'[n] = 0 /\ n \notin Commands
  <2>1. n <= MaxCommands
    BY <1>2, <1>3, <1>4, CommandBoundsAssumption
  <2>. QED BY <1>1, <1>3, <1>4, <2>1, NewIs DEF Fresh
<1>6. \A i \in Commands' : i \in Commands \/ i = n
  BY <1>2, <1>4 DEF Commands
<1>7. \A b \in Conns' : \A m \in Mail(b)' : (b \in Conns /\ m \in Mail(b)) \/ m = Nothing
  <2>1. CASE \E kind \in Kinds : Dispatch(kind)
    <3>1. UNCHANGED conns
      BY <2>1 DEF Dispatch
    <3>. QED BY <3>1, SameMail
  <2>2. CASE BridgeSend
    <3>1. PICK q : Only(entry, q, conns[entry].up, conns[entry].at, conns[entry].got,
                        conns[entry].cut, conns[entry].closed)
      BY <1>1, <2>2, BridgeSendIs
    <3>2. entry \in Conns /\ conns[entry].got \in Mail(entry) \union {Nothing}
      BY <1>1, <2>2, BridgeSendIs DEF Mail
    <3>3. Range(conns[entry].up) \subseteq Range(conns[entry].up) \union {}
      OBVIOUS
    <3>4. \A b \in Conns' : \A m \in Mail(b)' : (b \in Conns /\ m \in Mail(b)) \/ m = Nothing \/ m \in {}
      BY <1>1, <3>1, <3>2, <3>3, OnlyMail
    <3>. QED BY <3>4
  <2>. QED BY <2>1, <2>2
<1>8. \A i \in Commands' : IF i \in Commands
                           THEN commands'[i].row = "done" => commands[i].row = "done"
                           ELSE commands'[i].row # "done" /\ target'[i] = 0
  BY <1>2, <1>4, <1>5, <1>6
<1>. QED BY <1>2, <1>3, <1>7, <1>8, QuietTruth

\* A row becomes sent or failed.
LEMMA SendTruth ==
  ASSUME Truth, NEW i \in Commands, Send(i) \/ SendFails(i)
  PROVE  OkMeansDone' /\ Deferred'
<1>1. TypeOK /\ commands[i].conn \in Conns
  BY DEF Truth, Way, OnTheWay
<1>2. /\ TypeOK' /\ Kept /\ Commands' = Commands /\ commands'[i].row # "done"
      /\ \A j \in Commands : j # i => commands'[j] = commands[j]
  <2>1. CASE Send(i)
    BY <1>1, <2>1, SendIs
  <2>2. CASE SendFails(i)
    BY <1>1, <2>2, SendFailsIs
  <2>. QED BY <2>1, <2>2
<1>3. UNCHANGED target
  BY DEF Send, SendFails, board
<1>4. \A b \in Conns' : \A m \in Mail(b)' : (b \in Conns /\ m \in Mail(b)) \/ m = Nothing
  <2>1. CASE UNCHANGED conns
    BY <2>1, SameMail
  <2>2. CASE Send(i) /\ ~UNCHANGED conns
    <3>1. PICK c \in Conns : c = commands[i].conn
      BY <1>1
    <3>2. PICK q : Only(c, q, conns[c].up, conns[c].at, conns[c].got, conns[c].cut, conns[c].closed)
      BY <1>1, <2>2, <3>1, SendIs
    <3>3. conns[c].got \in Mail(c) \union {Nothing}
      BY DEF Mail
    <3>4. Range(conns[c].up) \subseteq Range(conns[c].up) \union {}
      OBVIOUS
    <3>5. \A b \in Conns' : \A m \in Mail(b)' : (b \in Conns /\ m \in Mail(b)) \/ m = Nothing \/ m \in {}
      BY <1>1, <3>2, <3>3, <3>4, OnlyMail
    <3>. QED BY <3>5
  <2>3. CASE SendFails(i)
    <3>1. UNCHANGED conns
      BY <2>3 DEF SendFails
    <3>. QED BY <3>1, SameMail
  <2>. QED BY <2>1, <2>2, <2>3
<1>5. \A j \in Commands' : IF j \in Commands
                           THEN commands'[j].row = "done" => commands[j].row = "done"
                           ELSE commands'[j].row # "done" /\ target'[j] = 0
  BY <1>2
<1>. QED BY <1>2, <1>3, <1>4, <1>5, QuietTruth

\* The rows stay, and nothing is said but what was there.
LEMMA ShrinkTruth ==
  ASSUME Truth, TypeOK', Kept, UNCHANGED <<commands, target>>,
         NEW c \in Conns, NEW d, NEW u, NEW a, NEW g, NEW z, NEW e,
         Only(c, d, u, a, g, z, e), Range(u) \subseteq Range(conns[c].up),
         g \in Mail(c) \union {Nothing}
  PROVE  OkMeansDone' /\ Deferred'
<1>1. TypeOK
  BY DEF Truth, Way
<1>2. Range(u) \subseteq Range(conns[c].up) \union {}
  OBVIOUS
<1>3. \A b \in Conns' : \A m \in Mail(b)' : (b \in Conns /\ m \in Mail(b)) \/ m = Nothing \/ m \in {}
  BY <1>1, <1>2, OnlyMail
<1>4. \A j \in Commands' : IF j \in Commands
                           THEN commands'[j].row = "done" => commands[j].row = "done"
                           ELSE commands'[j].row # "done" /\ target'[j] = 0
  BY DEF Commands
<1>. QED BY <1>3, <1>4, QuietTruth

\* Nothing about the commands, the connections or the target changes.
LEMMA SameTruth ==
  ASSUME Truth, TypeOK', Kept, UNCHANGED <<commands, conns, target>>
  PROVE  OkMeansDone' /\ Deferred'
<1>1. \A b \in Conns' : \A m \in Mail(b)' : (b \in Conns /\ m \in Mail(b)) \/ m = Nothing
  BY SameMail
<1>2. \A j \in Commands' : IF j \in Commands
                           THEN commands'[j].row = "done" => commands[j].row = "done"
                           ELSE commands'[j].row # "done" /\ target'[j] = 0
  BY DEF Commands
<1>. QED BY <1>1, <1>2, QuietTruth

\* A link loses results at most.
LEMMA LinkTruth ==
  ASSUME Truth, Leave \/ Cut \/ Connect
  PROVE  OkMeansDone' /\ Deferred'
<1>1. TypeOK /\ Newest \in Conns
  BY LinksAre DEF Truth, Way
<1>2. conns[Newest].got \in Mail(Newest) \union {Nothing}
  BY DEF Mail
<1>3. CASE Leave
  <2>1. /\ TypeOK' /\ Kept /\ UNCHANGED target
        /\ Only(Newest, <<>>, conns[Newest].up, conns[Newest].at, conns[Newest].got, TRUE,
                conns[Newest].closed)
    BY <1>1, <1>3, LeaveIs
  <2>2. UNCHANGED commands
    BY <1>3 DEF Leave
  <2>3. Range(conns[Newest].up) \subseteq Range(conns[Newest].up)
    OBVIOUS
  <2>. QED BY <1>1, <1>2, <2>1, <2>2, <2>3, ShrinkTruth
<1>4. CASE Cut
  <2>1. /\ TypeOK' /\ Kept /\ UNCHANGED target
        /\ \E u \in 0..Len(conns[Newest].up), d \in 0..Len(conns[Newest].down) :
             Only(Newest, SubSeq(conns[Newest].down, 1, d), SubSeq(conns[Newest].up, 1, u),
                  conns[Newest].at, conns[Newest].got, TRUE, conns[Newest].closed)
    BY <1>1, <1>4, CutIs
  <2>2. PICK u \in 0..Len(conns[Newest].up), d \in 0..Len(conns[Newest].down) :
          Only(Newest, SubSeq(conns[Newest].down, 1, d), SubSeq(conns[Newest].up, 1, u), conns[Newest].at,
               conns[Newest].got, TRUE, conns[Newest].closed)
    BY <2>1
  <2>3. Range(SubSeq(conns[Newest].up, 1, u)) \subseteq Range(conns[Newest].up)
    BY <1>1, LinkIs, PiecePrefix, PieceRange
  <2>4. UNCHANGED commands
    BY <1>4, Zenon DEF Cut
  <2>. QED BY <1>1, <1>2, <2>1, <2>2, <2>3, <2>4, ShrinkTruth
<1>5. CASE Connect
  <2>1. /\ TypeOK' /\ Kept /\ Commands' = Commands /\ UNCHANGED target
        /\ Len(conns) \in Nat \ {0} /\ Len(conns') = Len(conns) + 1
        /\ conns'[Len(conns) + 1] = Connection
        /\ \A c \in Conns : conns'[c].up = conns[c].up /\ conns'[c].got = conns[c].got
    BY <1>1, <1>5, ConnectIs
  <2>2. UNCHANGED commands
    BY <1>5 DEF Connect
  <2>3. \A b \in Conns' : b \in Conns \/ b = Len(conns) + 1
    BY <2>1 DEF Conns
  <2>4. ASSUME NEW b \in Conns', NEW m \in Mail(b)' PROVE (b \in Conns /\ m \in Mail(b)) \/ m = Nothing
    <3>1. CASE b \in Conns
      BY <2>1, <2>4, <3>1 DEF Mail, Range
    <3>2. CASE b = Len(conns) + 1
      <4>1. conns'[b].up = <<>> /\ conns'[b].got = Nothing
        BY <2>1, <3>2 DEF Connection
      <4>. QED BY <2>4, <4>1 DEF Mail, Range
    <3>. QED BY <2>3, <3>1, <3>2
  <2>5. \A j \in Commands' : IF j \in Commands
                             THEN commands'[j].row = "done" => commands[j].row = "done"
                             ELSE commands'[j].row # "done" /\ target'[j] = 0
    BY <2>1, <2>2
  <2>. QED BY <2>1, <2>4, <2>5, QuietTruth
<1>. QED BY <1>3, <1>4, <1>5

\* A row becomes done for an "ok" that was earned.
LEMMA HandlerTruth ==
  ASSUME Truth, Carried, NEW c \in Conns, Handler(c) \/ HandlerRaises(c)
  PROVE  OkMeansDone' /\ Deferred'
<1>1. TypeOK /\ Deferred /\ OkMeansDone
  BY DEF Truth, Way
<1>2. UNCHANGED target
  BY DEF Handler, Output, ResultComes, Complete, InsertResult, Eof, HandlerRaises, board
<1>3. conns[c].up # <<>> => /\ Range(Tail(conns[c].up)) \subseteq Range(conns[c].up)
                            /\ conns[c].up[1] \in Mail(c)
  <2>1. ASSUME conns[c].up # <<>> PROVE 1 \in DOMAIN conns[c].up
    BY <1>1, <2>1, FirstIs
  <2>. QED BY <1>1, <2>1, LinkIs, PieceTail, PieceRange DEF Mail, Range
<1>4. CASE Output(c)
  <2>1. /\ TypeOK' /\ Kept /\ conns[c].up # <<>>
        /\ Only(c, conns[c].down, Tail(conns[c].up), "read", Nothing, conns[c].cut, conns[c].closed)
    BY <1>1, <1>4, OutputIs
  <2>2. UNCHANGED commands
    BY <1>4 DEF Output
  <2>. QED BY <1>2, <1>3, <2>1, <2>2, ShrinkTruth
<1>5. CASE ResultComes(c)
  <2>1. /\ TypeOK' /\ Kept /\ conns[c].up # <<>>
        /\ \/ Only(c, conns[c].down, Tail(conns[c].up), "read", Nothing, conns[c].cut, conns[c].closed)
           \/ Only(c, conns[c].down, Tail(conns[c].up), "complete", conns[c].up[1], conns[c].cut,
                   conns[c].closed)
    BY <1>1, <1>5, ResultComesIs
  <2>2. UNCHANGED commands
    BY <1>5 DEF ResultComes
  <2>. QED BY <1>2, <1>3, <2>1, <2>2, ShrinkTruth
<1>6. CASE Complete(c)
  <2>1. PICK i \in Commands : i = conns[c].got.cmd
    BY <1>1, <1>6, CompleteIs
  <2>2. /\ TypeOK' /\ Kept /\ Commands' = Commands /\ conns[c].at = "complete"
        /\ Only(c, conns[c].down, conns[c].up, "store", conns[c].got, conns[c].cut, conns[c].closed)
        /\ commands'[i].row = Status(conns[c].got.ok)
        /\ \A j \in Commands : j # i => commands'[j] = commands[j]
    BY <1>1, <1>6, <2>1, CompleteIs
  <2>3. conns[c].got.cmd # 0 /\ conns[c].got.ok \in BOOLEAN
    BY <1>1, <2>2, GotIs DEF Carried
  <2>4. commands'[i].row = "done" => target[i] = Size(i)
    <3>1. Earned(conns[c].got)
      BY <1>1 DEF Deferred
    <3>. QED BY <2>1, <2>2, <2>3, <3>1 DEF Status, Earned
  <2>5. Range(conns[c].up) \subseteq Range(conns[c].up) \union {}
        /\ conns[c].got \in Mail(c) \union {Nothing}
    BY DEF Mail
  <2>6. \A b \in Conns' : \A m \in Mail(b)' : (b \in Conns /\ m \in Mail(b)) \/ m = Nothing \/ m \in {}
    BY <1>1, <2>2, <2>5, OnlyMail
  <2>7. TruthStep({})
    BY <1>1, <1>2, <2>2, <2>4, <2>6, TargetSame DEF TruthStep
  <2>. QED BY <1>1, <2>2, <2>7, TruthKept
<1>7. CASE InsertResult(c)
  <2>1. /\ TypeOK' /\ Kept
        /\ Only(c, conns[c].down, conns[c].up, "read", Nothing, conns[c].cut, conns[c].closed)
    BY <1>1, <1>7, InsertResultIs
  <2>2. UNCHANGED commands
    BY <1>7 DEF InsertResult
  <2>3. Range(conns[c].up) \subseteq Range(conns[c].up)
    OBVIOUS
  <2>. QED BY <1>2, <2>1, <2>2, <2>3, ShrinkTruth
<1>8. CASE Eof(c) \/ HandlerRaises(c)
  <2>1. TypeOK' /\ Kept /\ Only(c, conns[c].down, <<>>, "over", Nothing, conns[c].cut, TRUE)
    BY <1>1, <1>8, EndsIs
  <2>2. UNCHANGED commands
    BY <1>8 DEF Eof, HandlerRaises
  <2>3. Range(<<>>) \subseteq Range(conns[c].up)
    BY DEF Range
  <2>. QED BY <1>2, <2>1, <2>2, <2>3, ShrinkTruth
<1>. QED BY <1>4, <1>5, <1>6, <1>7, <1>8 DEF Handler

\* The rows stay, the target gets no more than there is, and what is said is true.
LEMMA SaysTruth ==
  ASSUME Truth, TypeOK', Kept, UNCHANGED commands,
         \A i \in Commands : target'[i] <= Size(i) /\ (target[i] = Size(i) => target'[i] = Size(i)),
         NEW ms \in Seq(Message), \A p \in DOMAIN ms : Earned(ms[p])',
         NEW c \in Conns, NEW d, NEW u \in {conns[c].up, conns[c].up \o ms},
         Only(c, d, u, conns[c].at, conns[c].got, conns[c].cut, conns[c].closed)
  PROVE  OkMeansDone' /\ Deferred'
<1>1. TypeOK /\ OkMeansDone /\ Deferred
  BY DEF Truth, Way
<1>2. Range(u) \subseteq Range(conns[c].up) \union Range(ms)
  BY <1>1, RangeSent
<1>3. conns[c].got \in Mail(c) \union {Nothing}
  BY DEF Mail
<1>4. \A b \in Conns' : \A m \in Mail(b)' :
        (b \in Conns /\ m \in Mail(b)) \/ m = Nothing \/ m \in Range(ms)
  BY <1>1, <1>2, <1>3, OnlyMail
<1>5. ASSUME NEW m \in Range(ms) PROVE Earned(m)'
  <2>1. PICK p \in DOMAIN ms : m = ms[p]
    BY <1>5 DEF Range
  <2>. QED BY <2>1 DEF Earned
<1>6. \A i \in Commands' : IF i \in Commands
        THEN commands'[i].row = "done" => commands[i].row = "done" \/ target[i] = Size(i)
        ELSE commands'[i].row # "done" /\ target'[i] = 0
  BY DEF Commands
<1>7. TruthStep(Range(ms))
  BY <1>4, <1>5, <1>6 DEF TruthStep
<1>. QED BY <1>1, <1>7, TruthKept

LEMMA OneEarned ==
  ASSUME NEW i, NEW ok, NEW q, ok => i = 0 \/ target'[i] = Size(i)'
  PROVE  \A p \in DOMAIN <<Result(i, ok, q)>> : Earned(<<Result(i, ok, q)>>[p])'
<1>1. \A p \in DOMAIN <<Result(i, ok, q)>> : <<Result(i, ok, q)>>[p] = Result(i, ok, q)
  OBVIOUS
<1>2. Earned(Result(i, ok, q))'
  BY DEF Earned, Result, Size
<1>3. ASSUME NEW p \in DOMAIN <<Result(i, ok, q)>> PROVE Earned(<<Result(i, ok, q)>>[p])'
  <2>1. PICK m : m = <<Result(i, ok, q)>>[p]
    OBVIOUS
  <2>2. m = Result(i, ok, q)
    BY <1>1, <2>1
  <2>3. Earned(m)'
    BY <1>2, <2>2
  <2>. QED BY <2>1, <2>3
<1>. QED BY <1>3

\* Key presses and reads are done when the board says so; a send is not yet.
LEMMA CarryTruth ==
  ASSUME Truth, Carry
  PROVE  OkMeansDone' /\ Deferred'
<1>1. TypeOK /\ OnTheWay /\ OkMeansDone /\ Reads
  BY DEF Truth, Way, Carry
<1>2. PICK i \in Commands : i = Head(conns[Newest].down) /\ i \in 1..MaxCommands
  BY <1>1, HeadIs
<1>3. /\ Newest \in Conns /\ conns[Newest].down # <<>> /\ i = conns[Newest].down[1]
      /\ 1 \in DOMAIN conns[Newest].down
  BY <1>1, <1>2, HeadIs
<1>4. target[i] = 0
  BY <1>1, <1>3 DEF OnTheWay, Fresh
<1>5. /\ UNCHANGED commands /\ (Injects(i) \/ ReadAll(i) \/ QueueWrite(i))
      /\ UNCHANGED <<commands, entry, on, output, results, printed, faults>>
  BY <1>2 DEF Carry
<1>6. Kept /\ Commands' = Commands /\ Dispatched /\ console \in Seq(1..MaxOutput)
  BY <1>1, <1>5, TypeParts, CommandsSame DEF Boarded
<1>7. Size(i)' = Size(i) /\ Size(i) \in Nat
  BY <1>6, SizeIs
<1>8. <<>> \in Seq(1..MaxOutput)
  OBVIOUS
<1>9. CASE Injects(i)
  <2>1. TypeOK' /\ commands[i].kind = "keys"
    BY <1>1, <1>2, <1>5, <1>9, InjectsIs
  <2>2. PICK ok \in BOOLEAN :
          /\ target' = [target EXCEPT ![i] = IF ok THEN @ + 1 ELSE @]
          /\ LET c == Newest IN
             \E u \in {conns[c].up, conns[c].up \o <<Result(i, ok, <<>>)>>} :
               Only(c, Tail(conns[c].down), u, conns[c].at, conns[c].got, conns[c].cut, conns[c].closed)
    BY <1>1, <1>2, <1>5, <1>9, InjectsIs
  <2>3. PICK u \in {conns[Newest].up, conns[Newest].up \o <<Result(i, ok, <<>>)>>} :
          Only(Newest, Tail(conns[Newest].down), u, conns[Newest].at, conns[Newest].got,
               conns[Newest].cut, conns[Newest].closed)
    BY <2>2
  <2>4. Size(i) = 1
    BY <2>1, SizeIs
  <2>5. /\ \A j \in Commands : j # i => target'[j] = target[j]
        /\ target'[i] = IF ok THEN 1 ELSE 0
    BY <1>1, <1>4, <2>2, QueueIs
  <2>6. \A j \in Commands : target'[j] <= Size(j) /\ (target[j] = Size(j) => target'[j] = Size(j))
    BY <1>1, <1>4, <2>4, <2>5 DEF OkMeansDone
  <2>7. <<Result(i, ok, <<>>)>> \in Seq(Message)
    BY <1>6, <1>8, ResultIs
  <2>8. \A p \in DOMAIN <<Result(i, ok, <<>>)>> : Earned(<<Result(i, ok, <<>>)>>[p])'
    BY <1>7, <2>4, <2>5, OneEarned
  <2>. QED BY <1>3, <1>5, <1>6, <2>1, <2>3, <2>6, <2>7, <2>8, SaysTruth
<1>10. CASE ReadAll(i)
  <2>1. TypeOK' /\ commands[i].kind = "read" /\ UNCHANGED target
    BY <1>1, <1>2, <1>5, <1>10, ReadAllIs
  <2>0. PICK q \in Seq(1..MaxOutput) : q = console
    BY <1>6
  <2>2. LET c == Newest IN
        \E u \in {conns[c].up, conns[c].up \o <<Result(i, TRUE, console)>>} :
          Only(c, Tail(conns[c].down), u, conns[c].at, conns[c].got, conns[c].cut, conns[c].closed)
    BY <1>1, <1>2, <1>5, <1>10, ReadAllIs
  <2>3. PICK u \in {conns[Newest].up, conns[Newest].up \o <<Result(i, TRUE, q)>>} :
          Only(Newest, Tail(conns[Newest].down), u, conns[Newest].at, conns[Newest].got,
               conns[Newest].cut, conns[Newest].closed)
    BY <2>0, <2>2
  <2>4. Size(i) = 0
    BY <2>1 DEF Size
  <2>5. \A j \in Commands : target'[j] <= Size(j) /\ (target[j] = Size(j) => target'[j] = Size(j))
    BY <1>1, <2>1, TargetSame
  <2>6. <<Result(i, TRUE, q)>> \in Seq(Message)
    BY <1>6, ResultIs
  <2>7. \A p \in DOMAIN <<Result(i, TRUE, q)>> : Earned(<<Result(i, TRUE, q)>>[p])'
    <3>1. target'[i] = Size(i)'
      BY <1>4, <1>7, <2>1, <2>4
    <3>. QED BY <3>1, OneEarned
  <2>. QED BY <1>3, <1>5, <1>6, <2>1, <2>3, <2>5, <2>6, <2>7, SaysTruth
<1>11. CASE QueueWrite(i)
  <2>1. TypeOK' /\ UNCHANGED target
    BY <1>1, <1>2, <1>5, <1>11, QueueWriteIs
  <2>2. \/ LET c == Newest IN
           \E u \in {conns[c].up, conns[c].up \o <<Result(i, FALSE, <<>>)>>} :
             Only(c, Tail(conns[c].down), u, conns[c].at, conns[c].got, conns[c].cut, conns[c].closed)
        \/ LET c == Newest IN
           Only(c, Tail(conns[c].down), conns[c].up, conns[c].at, conns[c].got, conns[c].cut, conns[c].closed)
    BY <1>1, <1>2, <1>5, <1>11, QueueWriteIs
  <2>3. PICK u \in {conns[Newest].up, conns[Newest].up \o <<Result(i, FALSE, <<>>)>>} :
          Only(Newest, Tail(conns[Newest].down), u, conns[Newest].at, conns[Newest].got,
               conns[Newest].cut, conns[Newest].closed)
    BY <2>2
  <2>5. \A j \in Commands : target'[j] <= Size(j) /\ (target[j] = Size(j) => target'[j] = Size(j))
    BY <1>1, <2>1, TargetSame
  <2>6. <<Result(i, FALSE, <<>>)>> \in Seq(Message)
    BY <1>6, <1>8, ResultIs
  <2>7. \A p \in DOMAIN <<Result(i, FALSE, <<>>)>> : Earned(<<Result(i, FALSE, <<>>)>>[p])'
    BY OneEarned
  <2>. QED BY <1>3, <1>5, <1>6, <2>1, <2>3, <2>5, <2>6, <2>7, SaysTruth
<1>. QED BY <1>5, <1>9, <1>10, <1>11

LEMMA Between ==
  ASSUME NEW L \in Nat, NEW n \in Nat, NEW p \in 1..n, NEW q \in (n + 1)..L
  PROVE  /\ p # L /\ p + 1 \in 1..L /\ q \in 1..L /\ p < p + 1
         /\ q # p + 1 => p + 1 < q
OBVIOUS

\* A job that ends has no bytes left, and the target has all of it.
LEMMA EndedIs ==
  ASSUME TypeOK, Queued, NEW n \in 0..Len(tx), NEW p \in Finished(n)
  PROVE  tx[p] \in Commands /\ target[tx[p]] + Count(tx, n, tx[p]) = Payload
<1>1. /\ Len(tx) \in Nat /\ DOMAIN tx = 1..Len(tx) /\ p \in 1..n /\ p \in 1..Len(tx)
      /\ tx[p] \in Commands /\ n \in Nat
  BY QueueIs, FinishedIs
<1>2. PICK i \in Commands : i = tx[p]
  BY <1>1
<1>3. target[i] + Count(tx, Len(tx), i) = Payload
  BY <1>1, <1>2 DEF Queued, Bytes, Count
<1>4. ASSUME NEW q \in (n + 1)..Len(tx) PROVE tx[q] # i
  <2>1. p # Len(tx) /\ tx[p + 1] # tx[p] /\ p + 1 \in DOMAIN tx /\ q \in DOMAIN tx /\ p < p + 1
    <3>1. p = Len(tx) \/ tx[p + 1] # tx[p]
      BY DEF Finished
    <3>2. p # Len(tx) /\ p + 1 \in 1..Len(tx) /\ q \in 1..Len(tx) /\ p < p + 1
      BY <1>1, <1>4, Between, Zenon
    <3>. QED BY <1>1, <3>1, <3>2
  <2>2. CASE q = p + 1
    BY <1>2, <2>1, <2>2
  <2>3. CASE q # p + 1
    <3>1. p + 1 < q
      BY <1>1, <1>4, <2>3, Between
    <3>2. tx[p] = tx[q] => tx[p + 1] = tx[p]
      BY <1>1, <2>1, <3>1, Zenon DEF Queued
    <3>. QED BY <1>2, <2>1, <3>2
  <2>. QED BY <2>2, <2>3
<1>5. {q \in 1..Len(tx) : tx[q] = i} = {q \in 1..n : tx[q] = i}
  <2>1. ASSUME NEW q \in 1..Len(tx), tx[q] = i PROVE q \in 1..n
    BY <1>1, <1>4, <2>1
  <2>2. \A q \in 1..n : q \in 1..Len(tx)
    BY <1>1
  <2>. QED BY <2>1, <2>2
<1>6. Count(tx, Len(tx), i) = Count(tx, n, i)
  BY <1>5, Zenon DEF Count
<1>. QED BY <1>1, <1>2, <1>3, <1>6

\* A send is done when its last byte is written, and only then is an "ok" sent.
LEMMA PassTruth ==
  ASSUME Truth, NEW n \in Nat, Pass(n)
  PROVE  OkMeansDone' /\ Deferred'
<1>1. TypeOK /\ Queued /\ OkMeansDone /\ UNCHANGED commands
  BY DEF Truth, Way, Pass
<1>2. /\ TypeOK' /\ Kept /\ Commands' = Commands /\ n \in 0..Len(tx) /\ Len(tx) \in Nat
      /\ target' = [i \in 1..MaxCommands |-> target[i] + Bytes(n, i)]
      /\ Len(tx') = Len(tx) - n /\ \A p \in 1..(Len(tx) - n) : tx'[p] = tx[n + p]
  BY <1>1, PassIs
<1>3. PICK ms \in Seq(Message) :
        /\ \A p \in DOMAIN ms : PassMessage(ms[p], n)
        /\ LET c == Newest IN
           \E u \in {conns[c].up, conns[c].up \o ms} :
             Only(c, conns[c].down, u, conns[c].at, conns[c].got, conns[c].cut, conns[c].closed)
  BY <1>1, PassIs
<1>4. PICK u \in {conns[Newest].up, conns[Newest].up \o ms} :
        Only(Newest, conns[Newest].down, u, conns[Newest].at, conns[Newest].got,
             conns[Newest].cut, conns[Newest].closed)
  BY <1>3
<1>5. Newest \in Conns
  BY <1>1, LinksAre
<1>6. ASSUME NEW i \in Commands
      PROVE  /\ target'[i] = target[i] + Count(tx, n, i) /\ target[i] \in Nat /\ Count(tx, n, i) \in Nat
             /\ target'[i] <= Size(i) /\ Size(i) \in Nat /\ target[i] <= Size(i)
  <2>1. /\ target'[i] = target[i] + Count(tx, n, i) /\ target[i] \in Nat
    BY <1>1, <1>2, QueueIs DEF Bytes, Count
  <2>2. Count(tx, n, i) \in 0..n
    BY CountIs, Zenon
  <2>3. target[i] <= Size(i) /\ Size(i) \in Nat
    BY <1>1, SizeIs DEF OkMeansDone
  <2>4. CASE \A p \in 1..n : tx[p] # i
    <3>1. Count(tx, n, i) = 0
      BY <2>4, CountIs, Zenon
    <3>. QED BY <2>1, <2>3, <3>1
  <2>5. CASE \E p \in 1..n : tx[p] = i
    <3>1. PICK p \in 1..n : tx[p] = i
      BY <2>5
    <3>2. p \in DOMAIN tx
      BY <1>1, <1>2, QueueIs
    <3>3. Sends(i) /\ target[i] + Count(tx, Len(tx), i) = Payload
      BY <1>1, <3>1, <3>2 DEF Queued, Bytes, Count
    <3>4. Behind(tx, n, tx', Len(tx) - n)
      BY <1>2 DEF Behind
    <3>5a. PICK N : N = Len(tx) - n
      OBVIOUS
    <3>5. N \in Nat /\ N = Len(tx) - n /\ n + N = Len(tx)
      BY <1>2, <3>5a
    <3>6. Count(tx, n + N, i) = Count(tx, n, i) + Count(tx', N, i)
      BY <3>4, <3>5, CountSplit
    <3>7. Count(tx', N, i) \in 0..N
      BY <3>5, CountIs, Zenon
    <3>8. Size(i) = Payload
      BY <3>3, SizeIs
    <3>9. target[i] + (Count(tx, n, i) + Count(tx', N, i)) = Payload
      BY <3>3, <3>5, <3>6
    <3>. QED BY <2>1, <2>2, <2>3, <3>7, <3>8, <3>9
  <2>. QED BY <2>1, <2>2, <2>3, <2>4, <2>5
<1>7. \A i \in Commands : target'[i] <= Size(i) /\ (target[i] = Size(i) => target'[i] = Size(i))
  <2>1. ASSUME NEW i \in Commands
        PROVE  target'[i] <= Size(i) /\ (target[i] = Size(i) => target'[i] = Size(i))
    <3>1. /\ target'[i] = target[i] + Count(tx, n, i) /\ target[i] \in Nat /\ Count(tx, n, i) \in Nat
          /\ target'[i] <= Size(i) /\ Size(i) \in Nat
      BY <1>6
    <3>. QED BY <3>1
  <2>. QED BY <2>1
<1>8. ASSUME NEW p \in DOMAIN ms PROVE Earned(ms[p])'
  <2>1. PICK m : m = ms[p]
    OBVIOUS
  <2>2. CASE m = OutputOf(Head(console))
    BY <2>1, <2>2 DEF OutputOf, Result, Earned
  <2>3. CASE \E q \in Finished(n) : m = Result(tx[q], TRUE, <<>>)
    <3>1. PICK q \in Finished(n) : m = Result(tx[q], TRUE, <<>>)
      BY <2>3
    <3>2. PICK i \in Commands : i = tx[q] /\ target[i] + Count(tx, n, i) = Payload
      BY <1>1, <1>2, <3>1, EndedIs
    <3>3. Sends(i)
      BY <1>1, <1>2, <3>1, <3>2, FinishedIs, QueueIs DEF Queued
    <3>4. target'[i] = Size(i) /\ Size(i)' = Size(i)
      BY <1>2, <1>6, <3>2, <3>3, SizeIs
    <3>5. m.cmd = i
      BY <3>1, <3>2 DEF Result
    <3>6. Earned(m)'
      BY <3>4, <3>5 DEF Earned
    <3>. QED BY <2>1, <3>6
  <2>4. PassMessage(m, n)
    BY <1>3, <2>1
  <2>. QED BY <2>2, <2>3, <2>4 DEF PassMessage
<1>. QED BY <1>1, <1>2, <1>4, <1>5, <1>7, <1>8, SaysTruth

\* An error is no "ok".
LEMMA WriteFailsTruth ==
  ASSUME Truth, WriteFails
  PROVE  OkMeansDone' /\ Deferred'
<1>1. TypeOK /\ Queued /\ OkMeansDone /\ UNCHANGED commands
  BY DEF Truth, Way, WriteFails
<1>2. /\ TypeOK' /\ Kept /\ UNCHANGED target /\ tx # <<>> /\ Len(tx) \in Nat
      /\ LET c == Newest IN
         \E u \in {conns[c].up, conns[c].up \o <<Result(tx[1], FALSE, <<>>)>>} :
           Only(c, conns[c].down, u, conns[c].at, conns[c].got, conns[c].cut, conns[c].closed)
  BY <1>1, WriteFailsIs
<1>3. tx[1] \in Commands /\ Dispatched
  <2>1. tx \in Seq(Commands) /\ Dispatched
    BY <1>1, TypeParts DEF Boarded
  <2>. QED BY <1>2, <2>1, TailIs
<1>4. PICK i \in Commands : i = tx[1]
  BY <1>3
<1>5. PICK u \in {conns[Newest].up, conns[Newest].up \o <<Result(i, FALSE, <<>>)>>} :
        Only(Newest, conns[Newest].down, u, conns[Newest].at, conns[Newest].got,
             conns[Newest].cut, conns[Newest].closed)
  BY <1>2, <1>4
<1>6. <<Result(i, FALSE, <<>>)>> \in Seq(Message)
  <2>1. <<>> \in Seq(1..MaxOutput)
    OBVIOUS
  <2>. QED BY <1>3, <2>1, ResultIs
<1>7. \A p \in DOMAIN <<Result(i, FALSE, <<>>)>> : Earned(<<Result(i, FALSE, <<>>)>>[p])'
  BY OneEarned
<1>8. \A j \in Commands : target'[j] <= Size(j) /\ (target[j] = Size(j) => target'[j] = Size(j))
  BY <1>1, <1>2, TargetSame
<1>9. Newest \in Conns
  BY <1>1, LinksAre
<1>. QED BY <1>1, <1>2, <1>5, <1>6, <1>7, <1>8, <1>9, SaysTruth
-----------------------------------------------------------------------------
(* Lines in their turn.                                                    *)

\* A connection's lines are in order: stored, with the handler, to come.
TurnOf(c) ==
  /\ Below(Stored(c), Handled(c)) /\ Below(Stored(c) \union Handled(c), Coming(c))
  /\ \A p, q \in DOMAIN conns[c].up :
       p < q => Below(Range(conns[c].up[p].lines), Range(conns[c].up[q].lines))

\* A connection is in order.
LEMMA TurnIs ==
  ASSUME InTurn, NEW c \in Conns
  PROVE  TurnOf(c) /\ Below(Known(c), Range(console)) /\ Known(c) \subseteq 1..printed
BY Zenon DEF InTurn, TurnOf

\* The lines that the hub has stored of a connection do not change with the connections.
LEMMA StoredKept ==
  ASSUME TypeOK, Kept, UNCHANGED results, Received' \subseteq Received, NEW c
  PROVE  Stored(c)' \subseteq Stored(c)
<1>1. \A r \in results : r[1] \in Commands
  BY TypeParts DEF Resulted
<1>2. \A r \in results : commands'[r[1]].conn = commands[r[1]].conn
  BY <1>1 DEF Kept
<1>. QED BY <1>2 DEF Stored, Range

LEMMA ReceivedSame == ASSUME UNCHANGED <<buf, db, log>> PROVE Received' = Received
BY DEF Received, Range

LEMMA OnceSame == ASSUME OutputOnce, UNCHANGED <<buf, db, log, results>> PROVE OutputOnce'
<1>1. Received' = Received
  BY ReceivedSame
<1>2. Ordered /\ Apart
  BY OnceParts
<1>3. Parts' = Parts /\ \A j : Part(j)' = Part(j)
  BY DEF Parts, Part
<1>4. Ordered'
  <2>1. \A j \in Parts' : Rises(Part(j))'
    BY <1>2, <1>3 DEF Ordered, Rises, Follows
  <2>2. \A j, k \in Parts' : j < k => Before(Part(j), Part(k))'
    BY <1>2, <1>3 DEF Ordered, Before, Follows
  <2>. QED BY <2>1, <2>2 DEF Ordered
<1>5. Apart'
  BY <1>1, <1>2 DEF Apart, Range
<1>. QED BY <1>4, <1>5, OncePartsNext

LEMMA BelowLess ==
  ASSUME NEW S, NEW T, NEW S1, NEW T1, Below(S, T), S1 \subseteq S, T1 \subseteq T
  PROVE  Below(S1, T1)
BY DEF Below

\* The lines of a queue.
LinesOf(s) == UNION {Range(s[p].lines) : p \in DOMAIN s}
LEMMA ComingIs == \A c : Coming(c) = LinesOf(conns[c].up)
BY DEF Coming, LinesOf

\* A piece of a queue has no other lines.
LEMMA PieceLines ==
  ASSUME NEW s, NEW q, Piece(s, q)
  PROVE  LinesOf(s) \subseteq LinesOf(q)
BY DEF Piece, LinesOf

\* A connection of which lines are lost stays in order.
LEMMA TurnKept ==
  ASSUME NEW c, TurnOf(c), Stored(c)' \subseteq Stored(c), Handled(c)' \subseteq Handled(c),
         Piece(conns'[c].up, conns[c].up), DOMAIN conns'[c].up \subseteq Nat
  PROVE  TurnOf(c)' /\ Known(c)' \subseteq Known(c)
<1>1. Coming(c)' \subseteq Coming(c)
  <2>1. Coming(c)' = LinesOf(conns'[c].up)
    BY DEF Coming, LinesOf, Range
  <2>. QED BY <2>1, ComingIs, PieceLines
<1>2. Below(Stored(c), Handled(c))' /\ Below(Stored(c) \union Handled(c), Coming(c))'
  BY <1>1 DEF TurnOf, Below
<1>3. ASSUME NEW p \in DOMAIN conns'[c].up, NEW q \in DOMAIN conns'[c].up, p < q
      PROVE  Below(Range(conns[c].up[p].lines), Range(conns[c].up[q].lines))'
  <2>1. PICK n \in Nat : \A k \in DOMAIN conns'[c].up :
          n + k \in DOMAIN conns[c].up /\ conns'[c].up[k] = conns[c].up[n + k]
    BY DEF Piece
  <2>2. /\ n + p \in DOMAIN conns[c].up /\ conns'[c].up[p] = conns[c].up[n + p]
        /\ n + q \in DOMAIN conns[c].up /\ conns'[c].up[q] = conns[c].up[n + q]
    BY <2>1
  <2>3. n + p < n + q
    BY <1>3
  <2>4. Below(Range(conns[c].up[n + p].lines), Range(conns[c].up[n + q].lines))
    BY <2>2, <2>3 DEF TurnOf
  <2>. QED BY <2>2, <2>4 DEF Below, Range
<1>4. Known(c)' \subseteq Known(c)
  BY <1>1 DEF Known
<1>. QED BY <1>2, <1>3, <1>4 DEF TurnOf, Below, Range

\* The connections are in order, and the lines that the board takes from the console, X,
\* are before those that it leaves.
TurnStep(X) ==
  /\ Conns' = Conns /\ Newest' = Newest
  /\ \A row \in Received' : row[1] \in Conns
  /\ \A c \in Conns : TurnOf(c)' /\ Known(c)' \subseteq Known(c) \union (IF c = Newest THEN X ELSE {})
  /\ X \subseteq Range(console) /\ Below(X, Range(console)')
  /\ \/ printed' = printed /\ Range(console)' \subseteq Range(console)
     \/ printed' = printed + 1 /\ Range(console)' \subseteq Range(console) \union {printed + 1} /\ X = {}
  /\ \A p, q \in DOMAIN console' : p < q => console'[p] < console'[q]

\* Such a step leaves the lines in their turn.
LEMMA TurnStepIs ==
  ASSUME TypeOK, InTurn, NEW X, TurnStep(X)
  PROVE  InTurn'
<1>1. /\ printed \in Nat /\ Newest \in Conns /\ Newest \in Nat /\ Conns \subseteq Nat
      /\ \A c \in Conns : c <= Newest /\ c \in Nat
  <2>1. printed \in Nat
    BY TypeParts, CommandBoundsAssumption DEF Limited
  <2>. QED BY <2>1, LinksAre, LinkIs
<1>2. \A c \in Conns : Below(Known(c), Range(console)) /\ Known(c) \subseteq 1..printed
  BY TurnIs
<1>3. /\ \A c, d \in Conns : c < d => Below(Known(c), Known(d))
      /\ Range(console) \subseteq 1..printed
  BY DEF InTurn
<1>4. X \subseteq Range(console) /\ Conns' = Conns
  BY DEF TurnStep
<1>5. ASSUME NEW c \in Conns
      PROVE  Known(c)' \subseteq Known(c) \union X /\ (c # Newest => Known(c)' \subseteq Known(c))
  BY <1>5 DEF TurnStep
<1>6. ASSUME NEW c \in Conns PROVE Below(Known(c)', Range(console)')
  <2>1. Below(X, Range(console)')
    BY DEF TurnStep
  <2>2. Below(Known(c), Range(console)')
    <3>1. CASE Range(console)' \subseteq Range(console)
      BY <1>2, <3>1 DEF Below
    <3>2. CASE Range(console)' \subseteq Range(console) \union {printed + 1}
      <4>1. ASSUME NEW l \in Known(c), NEW m \in Range(console)' PROVE l < m
        <5>1. l \in 1..printed
          BY <1>2, <4>1
        <5>2. CASE m \in Range(console)
          BY <1>2, <4>1, <5>2 DEF Below
        <5>3. CASE m = printed + 1
          BY <1>1, <5>1, <5>3
        <5>. QED BY <3>2, <4>1, <5>2, <5>3
      <4>. QED BY <4>1 DEF Below
    <3>. QED BY <3>1, <3>2 DEF TurnStep
  <2>. QED BY <1>5, <2>1, <2>2 DEF Below
<1>7. ASSUME NEW c \in Conns PROVE Known(c)' \subseteq 1..printed'
  <2>1. Known(c)' \subseteq 1..printed
    BY <1>2, <1>3, <1>4, <1>5
  <2>2. printed' = printed \/ printed' = printed + 1
    BY DEF TurnStep
  <2>. QED BY <1>1, <2>1, <2>2
<1>8. ASSUME NEW c \in Conns, NEW d \in Conns, c < d PROVE Below(Known(c)', Known(d)')
  <2>1. c # Newest
    BY <1>1, <1>8
  <2>2. Known(c)' \subseteq Known(c) /\ Known(d)' \subseteq Known(d) \union X
    BY <1>5, <2>1
  <2>3. Below(Known(c), Known(d)) /\ Below(Known(c), X)
    BY <1>2, <1>3, <1>4, <1>8 DEF Below
  <2>. QED BY <2>2, <2>3 DEF Below
<1>9. Range(console)' \subseteq 1..printed'
  <2>1. \/ printed' = printed /\ Range(console)' \subseteq Range(console)
        \/ printed' = printed + 1 /\ Range(console)' \subseteq Range(console) \union {printed + 1}
    BY DEF TurnStep
  <2>. QED BY <1>1, <1>3, <2>1
<1>10. /\ \A c \in Conns' : /\ Below(Known(c), Range(console))' /\ (Known(c) \subseteq 1..printed)'
       /\ \A c, d \in Conns' : c < d => Below(Known(c), Known(d))'
  BY <1>4, <1>6, <1>7, <1>8 DEF Below
<1>11. \A c \in Conns' : TurnOf(c)'
  BY <1>4 DEF TurnStep
<1>12. /\ \A row \in Received' : row[1] \in Conns'
       /\ \A p, q \in DOMAIN console' : p < q => console'[p] < console'[q]
  BY <1>4 DEF TurnStep
<1>. QED BY <1>9, <1>10, <1>11, <1>12 DEF InTurn, TurnOf

\* A message stays one of its connection.
LEMMA OwnKept ==
  ASSUME TypeOK, Kept, NEW c \in Conns, NEW m \in Mail(c), Own(m, c)
  PROVE  Own(m, c)'
<1>1. m.cmd # 0 => m.cmd \in Commands
  BY MailIs
<1>. QED BY <1>1 DEF Own, Kept

\* What the handler has in hand is a result of its own, or nothing.
Having(a, g, c) ==
  IF a \in {"complete", "store"}
  THEN g.cmd # 0 /\ g.cmd \in Commands /\ commands[g.cmd].conn = c ELSE g = Nothing

\* A connection carries what it carried, and new messages of its own.
LEMMA CarriedOnly ==
  ASSUME TypeOK, Kept, Carried, NEW c \in Conns, NEW d, NEW u, NEW a, NEW g, NEW z, NEW e,
         Only(c, d, u, a, g, z, e), NEW New, Range(u) \subseteq Range(conns[c].up) \union New,
         \A m \in New : Own(m, c)', Having(a, g, c)
  PROVE  Carried'
<1>0. IF a \in {"complete", "store"}
      THEN g.cmd # 0 /\ g.cmd \in Commands /\ commands[g.cmd].conn = c ELSE g = Nothing
  BY DEF Having
<1>1. Conns' = Conns
  BY DEF Only
<1>2. ASSUME NEW b \in Conns
      PROVE  /\ \A p \in DOMAIN conns'[b].up : Own(conns[b].up[p], b)'
             /\ IF conns'[b].at \in {"complete", "store"}
                THEN conns'[b].got.cmd # 0 /\ commands'[conns'[b].got.cmd].conn = b
                ELSE conns'[b].got = Nothing
  <2>1. CASE b # c
    <3>1. conns'[b] = conns[b]
      BY <2>1 DEF Only, Others
    <3>2. ASSUME NEW p \in DOMAIN conns'[b].up PROVE Own(conns[b].up[p], b)'
      <4>1. PICK m : m = conns'[b].up[p]
        OBVIOUS
      <4>2. m \in Mail(b) /\ Own(m, b)
        BY <3>1, <3>2, <4>1 DEF Mail, Range, Carried
      <4>3. Own(m, b)'
        BY <4>2, OwnKept
      <4>. QED BY <4>1, <4>3 DEF Own
    <3>3. CASE conns[b].at \in {"complete", "store"}
      <4>1. conns[b].got.cmd \in Commands /\ conns[b].got.cmd # 0 /\ commands[conns[b].got.cmd].conn = b
        BY <3>3, GotIs DEF Carried
      <4>. QED BY <3>1, <3>2, <3>3, <4>1 DEF Kept
    <3>4. CASE conns[b].at \notin {"complete", "store"}
      BY <3>1, <3>2, <3>4 DEF Carried
    <3>. QED BY <3>3, <3>4
  <2>2. CASE b = c
    <3>1. conns'[b].up = u /\ conns'[b].at = a /\ conns'[b].got = g
      BY <2>2 DEF Only
    <3>2. ASSUME NEW p \in DOMAIN conns'[b].up PROVE Own(conns[b].up[p], b)'
      <4>1. PICK m : m = conns'[b].up[p]
        OBVIOUS
      <4>2. m \in Range(conns[c].up) \/ m \in New
        BY <3>1, <3>2, <4>1 DEF Range
      <4>3. CASE m \in Range(conns[c].up)
        <5>1. m \in Mail(c) /\ Own(m, c)
          BY <4>3 DEF Mail, Range, Carried
        <5>2. Own(m, c)'
          BY <5>1, OwnKept
        <5>. QED BY <2>2, <4>1, <5>2 DEF Own
      <4>4. CASE m \in New
        <5>1. Own(m, c)'
          BY <4>4
        <5>. QED BY <2>2, <4>1, <5>1 DEF Own
      <4>. QED BY <4>2, <4>3, <4>4
    <3>. QED BY <1>0, <2>2, <3>1, <3>2 DEF Kept
  <2>. QED BY <2>1, <2>2
<1>. QED BY <1>1, <1>2 DEF Carried, Own, Nothing, Result

LEMMA CarriedSame ==
  ASSUME TypeOK, Kept, Carried, UNCHANGED conns
  PROVE  Carried'
<1>1. Conns' = Conns
  BY DEF Conns
<1>2. ASSUME NEW b \in Conns
      PROVE  /\ \A p \in DOMAIN conns'[b].up : Own(conns[b].up[p], b)'
             /\ IF conns'[b].at \in {"complete", "store"}
                THEN conns'[b].got.cmd # 0 /\ commands'[conns'[b].got.cmd].conn = b
                ELSE conns'[b].got = Nothing
  <2>1. ASSUME NEW p \in DOMAIN conns'[b].up PROVE Own(conns[b].up[p], b)'
    <3>1. PICK m : m = conns'[b].up[p]
      OBVIOUS
    <3>2. m \in Mail(b) /\ Own(m, b)
      BY <2>1, <3>1 DEF Mail, Range, Carried
    <3>3. Own(m, b)'
      BY <3>2, OwnKept
    <3>. QED BY <3>1, <3>3 DEF Own
  <2>2. CASE conns[b].at \in {"complete", "store"}
    <3>1. conns[b].got.cmd \in Commands /\ conns[b].got.cmd # 0 /\ commands[conns[b].got.cmd].conn = b
      BY <2>2, GotIs DEF Carried
    <3>. QED BY <2>1, <2>2, <3>1 DEF Kept
  <2>3. CASE conns[b].at \notin {"complete", "store"}
    BY <2>1, <2>3 DEF Carried
  <2>. QED BY <2>2, <2>3
<1>. QED BY <1>1, <1>2 DEF Carried, Own, Nothing, Result

Lines == Carried /\ InTurn /\ OutputOnce

\* Lines are lost at most: on their way, or, of a result, with the handler.
LEMMA LinesOnly ==
  ASSUME TypeOK, TypeOK', Kept, Lines, NEW c \in Conns, NEW d, NEW u, NEW a, NEW g, NEW z, NEW e,
         Only(c, d, u, a, g, z, e), Piece(u, conns[c].up), UNCHANGED <<buf, db, log, results>>,
         UNCHANGED <<console, printed>>, g = conns[c].got \/ g = Nothing,
         IF a \in {"complete", "store"} THEN conns[c].at \in {"complete", "store"} /\ g = conns[c].got
                                        ELSE g = Nothing
  PROVE  Lines'
<1>1. Carried /\ InTurn /\ OutputOnce
  BY DEF Lines
<1>2. Received' = Received /\ OutputOnce'
  BY <1>1, ReceivedSame, OnceSame
<1>3. Conns' = Conns /\ Newest' = Newest
  BY DEF Only
<1>4. ASSUME NEW b \in Conns PROVE TurnOf(b)' /\ Known(b)' \subseteq Known(b)
  <2>1. Stored(b)' \subseteq Stored(b)
    BY <1>2, StoredKept
  <2>2. DOMAIN conns'[b].up \subseteq Nat
    <3>1. DOMAIN conns'[b].up = 1..Len(conns'[b].up)
      BY <1>3, LinkNext
    <3>. QED BY <3>1
  <2>3. Handled(b)' \subseteq Handled(b) /\ Piece(conns'[b].up, conns[b].up)
    <3>1. CASE b # c
      <4>1. conns'[b] = conns[b] /\ Piece(conns[b].up, conns[b].up)
        BY <3>1, LinkIs, PieceSame DEF Only, Others
      <4>. QED BY <4>1 DEF Handled, Range
    <3>2. CASE b = c
      <4>1. conns'[b].up = u /\ conns'[b].got = g
        BY <3>2 DEF Only
      <4>2. Nothing.lines = <<>>
        BY NothingIs
      <4>. QED BY <3>2, <4>1, <4>2 DEF Handled, Range
    <3>. QED BY <3>1, <3>2
  <2>4. TurnOf(b)
    BY <1>1, TurnIs
  <2>. QED BY <2>1, <2>2, <2>3, <2>4, TurnKept
<1>5. TurnStep({})
  <2>1. /\ \A row \in Received' : row[1] \in Conns
        /\ \A p, q \in DOMAIN console' : p < q => console'[p] < console'[q]
    BY <1>1, <1>2 DEF InTurn
  <2>2. Range(console)' = Range(console) /\ {} \subseteq Range(console) /\ Below({}, Range(console)')
    BY DEF Range, Below
  <2>. QED BY <1>3, <1>4, <2>1, <2>2 DEF TurnStep
<1>6. InTurn'
  BY <1>1, <1>5, TurnStepIs
<1>7. Carried'
  <2>0. PICK none : none = {}
    OBVIOUS
  <2>1. Range(u) \subseteq Range(conns[c].up) \union none
    BY PieceRange
  <2>2. Having(a, g, c)
    <3>1. CASE a \in {"complete", "store"}
      <4>1. conns[c].at \in {"complete", "store"} /\ g = conns[c].got
        BY <3>1
      <4>. QED BY <1>1, <3>1, <4>1, GotIs DEF Carried, Having
    <3>2. CASE a \notin {"complete", "store"}
      BY <3>2 DEF Having
    <3>. QED BY <3>1, <3>2
  <2>3. \A m \in none : Own(m, c)'
    BY <2>0
  <2>. QED BY <1>1, <2>1, <2>2, <2>3, CarriedOnly
<1>. QED BY <1>2, <1>6, <1>7 DEF Lines

\* What is received may become less, by the steps of the log.
LEMMA LinesSame ==
  ASSUME TypeOK, TypeOK', Kept, Lines, UNCHANGED <<conns, results, console, printed>>,
         Received' \subseteq Received, OutputOnce'
  PROVE  Lines'
<1>1. Carried /\ InTurn /\ OutputOnce
  BY DEF Lines
<1>3. Conns' = Conns /\ Newest' = Newest
  BY DEF Conns, Newest
<1>4. ASSUME NEW b \in Conns PROVE TurnOf(b)' /\ Known(b)' \subseteq Known(b)
  <2>1. Stored(b)' \subseteq Stored(b)
    BY StoredKept
  <2>2. DOMAIN conns'[b].up \subseteq Nat
    <3>1. DOMAIN conns'[b].up = 1..Len(conns'[b].up)
      BY <1>3, LinkNext
    <3>. QED BY <3>1
  <2>3. Handled(b)' \subseteq Handled(b) /\ Piece(conns'[b].up, conns[b].up)
    <3>1. Piece(conns[b].up, conns[b].up)
      BY LinkIs, PieceSame
    <3>. QED BY <3>1 DEF Handled, Range
  <2>4. TurnOf(b)
    BY <1>1, TurnIs
  <2>. QED BY <2>1, <2>2, <2>3, <2>4, TurnKept
<1>5. TurnStep({})
  <2>1. /\ \A row \in Received' : row[1] \in Conns
        /\ \A p, q \in DOMAIN console' : p < q => console'[p] < console'[q]
    BY <1>1 DEF InTurn
  <2>2. Range(console)' = Range(console) /\ {} \subseteq Range(console) /\ Below({}, Range(console)')
    BY DEF Range, Below
  <2>. QED BY <1>3, <1>4, <2>1, <2>2 DEF TurnStep
<1>6. InTurn'
  BY <1>1, <1>5, TurnStepIs
<1>7. Carried'
  BY <1>1, CarriedSame
<1>. QED BY <1>6, <1>7 DEF Lines
LEMMA PlacesAre ==
  ASSUME NEW T, NEW s \in Seq(T), NEW p \in DOMAIN s
  PROVE  p \in Nat
OBVIOUS


\* The board sends messages, of which only the first has lines, which it took from the
\* console.
LEMMA LinesSays ==
  ASSUME TypeOK, TypeOK', Kept, Lines, NEW c, c = Newest, NEW ms \in Seq(Message), NEW X,
         \A p \in DOMAIN ms : Own(ms[p], c)', \A p \in DOMAIN ms : p # 1 => ms[p].lines = <<>>,
         \A p \in DOMAIN ms : ms[p].lines # <<>> => Range(ms[p].lines) \subseteq X,
         NEW d, NEW u \in {conns[c].up, conns[c].up \o ms},
         Only(c, d, u, conns[c].at, conns[c].got, conns[c].cut, conns[c].closed),
         UNCHANGED <<buf, db, log, results, printed>>,
         X \subseteq Range(console), Below(X, Range(console)'),
         Range(console)' \subseteq Range(console),
         \A p, q \in DOMAIN console' : p < q => console'[p] < console'[q]
  PROVE  Lines'
<1>1. Carried /\ InTurn /\ OutputOnce /\ c \in Conns
  BY LinksAre DEF Lines
<1>2. Received' = Received /\ OutputOnce'
  BY <1>1, ReceivedSame, OnceSame
<1>3. Conns' = Conns /\ Newest' = Newest
  BY DEF Only
<1>4. ASSUME NEW b \in Conns, b # c PROVE TurnOf(b)' /\ Known(b)' \subseteq Known(b)
  <2>1. Stored(b)' \subseteq Stored(b)
    BY <1>2, StoredKept
  <2>2. DOMAIN conns'[b].up \subseteq Nat
    <3>1. DOMAIN conns'[b].up = 1..Len(conns'[b].up)
      BY <1>3, LinkNext
    <3>. QED BY <3>1
  <2>3. Handled(b)' \subseteq Handled(b) /\ Piece(conns'[b].up, conns[b].up)
    <3>1. conns'[b] = conns[b] /\ Piece(conns[b].up, conns[b].up)
      BY <1>4, LinkIs, PieceSame DEF Only, Others
    <3>. QED BY <3>1 DEF Handled, Range
  <2>4. TurnOf(b)
    BY <1>1, TurnIs
  <2>. QED BY <2>1, <2>2, <2>3, <2>4, TurnKept
<1>5. TurnOf(c) /\ Below(Known(c), Range(console))
  BY <1>1, TurnIs
<1>6. Below(Known(c), X)
  BY <1>5 DEF Below
<1>7. Stored(c)' \subseteq Stored(c) /\ Handled(c)' = Handled(c)
  <2>1. Stored(c)' \subseteq Stored(c)
    BY <1>2, StoredKept
  <2>2. conns'[c].got = conns[c].got
    BY DEF Only
  <2>. QED BY <2>1, <2>2 DEF Handled, Range
<1>8. conns'[c].up = u /\ conns[c].up \in Seq(Message)
  BY <1>1, LinkIs DEF Only
<1>8a. u \in Seq(Message)
  <2>1. conns[c].up \o ms \in Seq(Message)
    BY <1>8
  <2>. QED BY <1>8, <2>1
<1>9. ASSUME NEW p \in DOMAIN ms PROVE Range(ms[p].lines) \subseteq X /\ (p # 1 => Range(ms[p].lines) = {})
  <2>1. CASE ms[p].lines = <<>>
    BY <2>1 DEF Range
  <2>2. CASE ms[p].lines # <<>>
    BY <2>2
  <2>. QED BY <2>1, <2>2
<1>10. ASSUME NEW p \in DOMAIN u
       PROVE  \/ p \in DOMAIN conns[c].up /\ u[p] = conns[c].up[p]
              \/ /\ p - Len(conns[c].up) \in DOMAIN ms /\ u[p] = ms[p - Len(conns[c].up)]
                 /\ p > Len(conns[c].up)
  <2>1. CASE u = conns[c].up
    BY <1>10, <2>1
  <2>2. CASE u = conns[c].up \o ms
    BY <1>8, <1>10, <2>2, ConcatRows
  <2>. QED BY <2>1, <2>2
<1>11. ASSUME NEW p \in DOMAIN u
       PROVE  Range(u[p].lines) \subseteq X \/ (p \in DOMAIN conns[c].up /\ u[p] = conns[c].up[p])
  BY <1>9, <1>10
<1>12. Coming(c)' \subseteq Coming(c) \union X
  <2>1. Coming(c)' = LinesOf(u)
    BY <1>8 DEF Coming, LinesOf, Range
  <2>2. ASSUME NEW l \in LinesOf(u) PROVE l \in LinesOf(conns[c].up) \union X
    <3>1. PICK p \in DOMAIN u : l \in Range(u[p].lines)
      BY <2>2 DEF LinesOf
    <3>. QED BY <1>11, <3>1 DEF LinesOf
  <2>. QED BY <2>1, <2>2, ComingIs
<1>13. ASSUME NEW p \in DOMAIN u, NEW q \in DOMAIN u, p < q
       PROVE  Below(Range(u[p].lines), Range(u[q].lines))
  <2>0. DOMAIN conns[c].up = 1..Len(conns[c].up) /\ Len(conns[c].up) \in Nat
    BY <1>1, LinkIs
  <2>0a. p \in Nat /\ q \in Nat
    BY <1>8a, PlacesAre
  <2>1. CASE p \in DOMAIN conns[c].up /\ u[p] = conns[c].up[p]
    <3>1. CASE q \in DOMAIN conns[c].up /\ u[q] = conns[c].up[q]
      BY <1>5, <1>13, <2>1, <3>1 DEF TurnOf
    <3>2. CASE Range(u[q].lines) \subseteq X
      <4>1. Range(u[p].lines) \subseteq Known(c)
        BY <2>1 DEF Known, Coming
      <4>. QED BY <1>6, <3>2, <4>1, BelowLess
    <3>. QED BY <1>11, <3>1, <3>2
  <2>2. CASE p - Len(conns[c].up) \in DOMAIN ms /\ p > Len(conns[c].up)
    <3>1. ~(q \in DOMAIN conns[c].up)
      BY <1>13, <2>0, <2>0a, <2>2
    <3>2. /\ q - Len(conns[c].up) \in DOMAIN ms /\ u[q] = ms[q - Len(conns[c].up)]
      BY <1>10, <3>1
    <3>3. q - Len(conns[c].up) # 1
      <4>1. DOMAIN ms = 1..Len(ms)
        OBVIOUS
      <4>. QED BY <1>13, <2>0, <2>0a, <2>2, <4>1
    <3>4. Range(u[q].lines) = {}
      BY <1>9, <3>2, <3>3
    <3>. QED BY <3>4 DEF Below
  <2>. QED BY <1>10, <2>1, <2>2
<1>14. TurnOf(c)'
  <2>1. Below(Stored(c)', Handled(c)')
    BY <1>5, <1>7 DEF TurnOf, Below
  <2>2. Below(Stored(c)' \union Handled(c)', Coming(c)')
    <3>1. Below(Stored(c) \union Handled(c), Coming(c) \union X)
      BY <1>5, <1>6 DEF TurnOf, Below, Known
    <3>2. Stored(c)' \union Handled(c)' \subseteq Stored(c) \union Handled(c)
      BY <1>7
    <3>. QED BY <1>12, <3>1, <3>2, BelowLess
  <2>3. \A p, q \in DOMAIN conns'[c].up :
          p < q => Below(Range(conns'[c].up[p].lines), Range(conns'[c].up[q].lines))
    BY <1>8, <1>13
  <2>. QED BY <1>3, <2>1, <2>2, <2>3 DEF TurnOf, Below, Range
<1>15. Known(c)' \subseteq Known(c) \union X
  BY <1>7, <1>12 DEF Known
<1>16. TurnStep(X)
  <2>1. \A row \in Received' : row[1] \in Conns
    BY <1>1, <1>2 DEF InTurn
  <2>2. \A b \in Conns : TurnOf(b)' /\ Known(b)' \subseteq Known(b) \union (IF b = Newest THEN X ELSE {})
    <3>1. ASSUME NEW b \in Conns
          PROVE TurnOf(b)' /\ Known(b)' \subseteq Known(b) \union (IF b = Newest THEN X ELSE {})
      <4>1. CASE b # c
        BY <1>4, <4>1
      <4>2. CASE b = c
        BY <1>14, <1>15, <4>2 DEF TurnOf, Known
      <4>. QED BY <4>1, <4>2
    <3>. QED BY <3>1
  <2>. QED BY <1>3, <2>1, <2>2 DEF TurnStep
<1>17. InTurn'
  BY <1>1, <1>16, TurnStepIs
<1>18. Carried'
  <2>1. Range(u) \subseteq Range(conns[c].up) \union Range(ms)
    BY <1>1, RangeSent
  <2>2. ASSUME NEW m \in Range(ms) PROVE Own(m, c)'
    <3>1. PICK p \in DOMAIN ms : m = ms[p]
      BY <2>2 DEF Range
    <3>2. Own(ms[p], c)'
      OBVIOUS
    <3>. QED BY <3>1, <3>2 DEF Own
  <2>3. Having(conns[c].at, conns[c].got, c)
    <3>1. CASE conns[c].at \in {"complete", "store"}
      BY <1>1, <3>1, GotIs DEF Carried, Having
    <3>2. CASE conns[c].at \notin {"complete", "store"}
      BY <1>1, <3>2 DEF Carried, Having
    <3>. QED BY <3>1, <3>2
  <2>. QED BY <1>1, <2>1, <2>2, <2>3, CarriedOnly
<1>. QED BY <1>2, <1>17, <1>18 DEF Lines
-----------------------------------------------------------------------------
(* Lines in their turn: the hub's requests, the link and the target.       *)

\* No line moves.
LEMMA LinesStill ==
  ASSUME TypeOK, TypeOK', Kept, Lines, UNCHANGED <<conns, results, console, printed, buf, db, log>>
  PROVE  Lines'
<1>1. Received' = Received
  BY ReceivedSame
<1>2. OutputOnce'
  BY OnceSame DEF Lines
<1>. QED BY <1>1, <1>2, LinesSame

\* Messages of a connection are lost at most.
LEMMA LinesPiece ==
  ASSUME TypeOK, TypeOK', Kept, Lines, NEW c \in Conns, NEW d, NEW u, NEW z, NEW e,
         Only(c, d, u, conns[c].at, conns[c].got, z, e), Piece(u, conns[c].up),
         UNCHANGED <<buf, db, log, results, console, printed>>
  PROVE  Lines'
<1>1. PICK a, g : a = conns[c].at /\ g = conns[c].got
  OBVIOUS
<1>2. IF a \in {"complete", "store"} THEN conns[c].at \in {"complete", "store"} /\ g = conns[c].got
                                     ELSE g = Nothing
  BY <1>1 DEF Lines, Carried
<1>3. Only(c, d, u, a, g, z, e)
  BY <1>1
<1>. QED BY <1>1, <1>2, <1>3, LinesOnly

\* No request, no step of the link and no time that passes brings a line anywhere.
LEMMA OpenLines ==
  ASSUME Way, Lines, NEW kind \in Kinds, Dispatch(kind)
  PROVE  Lines'
<1>1. TypeOK /\ TypeOK' /\ Kept
  BY DispatchIs DEF Way
<1>2. UNCHANGED <<conns, results, console, printed, buf, db, log>>
  BY DEF Dispatch, board, output
<1>. QED BY <1>1, <1>2, LinesStill

LEMMA BridgeLines ==
  ASSUME Way, Lines, BridgeSend
  PROVE  Lines'
<1>1. TypeOK /\ TypeOK' /\ Kept /\ entry \in Conns
  BY BridgeSendIs DEF Way
<1>2. UNCHANGED <<results, console, printed, buf, db, log>>
  BY DEF BridgeSend, board, output
<1>3. PICK q : Only(entry, q, conns[entry].up, conns[entry].at, conns[entry].got,
                    conns[entry].cut, conns[entry].closed)
  BY BridgeSendIs DEF Way
<1>4. PICK c \in Conns : c = entry
  BY <1>1
<1>5. Piece(conns[c].up, conns[c].up)
  BY <1>1, LinkIs, PieceSame
<1>6. Only(c, q, conns[c].up, conns[c].at, conns[c].got, conns[c].cut, conns[c].closed)
  BY <1>3, <1>4
<1>. QED BY <1>1, <1>2, <1>5, <1>6, LinesPiece

LEMMA SendLines ==
  ASSUME Way, Lines, NEW i \in Commands, Send(i) \/ SendFails(i)
  PROVE  Lines'
<1>1. CASE Send(i)
  <2>1. commands[i].conn \in Conns
    BY DEF Way, OnTheWay
  <2>2. /\ TypeOK /\ TypeOK' /\ Kept
        /\ \/ UNCHANGED conns
           \/ LET c == commands[i].conn IN
              \E q \in {conns[c].down, Append(conns[c].down, i)} :
                Only(c, q, conns[c].up, conns[c].at, conns[c].got, conns[c].cut, conns[c].closed)
    BY <1>1, <2>1, SendIs DEF Way
  <2>3. UNCHANGED <<results, console, printed, buf, db, log>>
    BY <1>1 DEF Send, board, output
  <2>4. CASE UNCHANGED conns
    BY <2>2, <2>3, <2>4, LinesStill
  <2>5. CASE \E q \in {conns[commands[i].conn].down, Append(conns[commands[i].conn].down, i)} :
               LET c == commands[i].conn IN
               Only(c, q, conns[c].up, conns[c].at, conns[c].got, conns[c].cut, conns[c].closed)
    <3>1. PICK c \in Conns : c = commands[i].conn
      BY <2>1
    <3>2. PICK q : Only(c, q, conns[c].up, conns[c].at, conns[c].got, conns[c].cut, conns[c].closed)
      BY <2>5, <3>1
    <3>3. Piece(conns[c].up, conns[c].up)
      BY <2>2, LinkIs, PieceSame
    <3>. QED BY <2>2, <2>3, <3>2, <3>3, LinesPiece
  <2>. QED BY <2>2, <2>4, <2>5
<1>2. CASE SendFails(i)
  <2>1. TypeOK /\ TypeOK' /\ Kept
    BY <1>2, SendFailsIs DEF Way
  <2>2. UNCHANGED <<conns, results, console, printed, buf, db, log>>
    BY <1>2 DEF SendFails, board, output
  <2>. QED BY <2>1, <2>2, LinesStill
<1>. QED BY <1>1, <1>2

LEMMA LinkLines ==
  ASSUME Way, Lines, Leave \/ Cut
  PROVE  Lines'
<1>0. PICK c \in Conns : c = Newest
  BY LinksAre DEF Way
<1>1. CASE Leave
  <2>1. /\ TypeOK /\ TypeOK' /\ Kept
        /\ Only(c, <<>>, conns[c].up, conns[c].at, conns[c].got, TRUE, conns[c].closed)
    BY <1>0, <1>1, LeaveIs DEF Way
  <2>2. UNCHANGED <<results, console, printed, buf, db, log>>
    BY <1>1 DEF Leave, output
  <2>3. Piece(conns[c].up, conns[c].up)
    BY <2>1, LinkIs, PieceSame
  <2>. QED BY <2>1, <2>2, <2>3, LinesPiece
<1>2. CASE Cut
  <2>1. /\ TypeOK /\ TypeOK' /\ Kept
        /\ \E u \in 0..Len(conns[c].up), d \in 0..Len(conns[c].down) :
             Only(c, SubSeq(conns[c].down, 1, d), SubSeq(conns[c].up, 1, u), conns[c].at,
                  conns[c].got, TRUE, conns[c].closed)
    BY <1>0, <1>2, CutIs DEF Way
  <2>2. UNCHANGED <<results, console, printed, buf, db, log>>
    BY <1>2, Zenon DEF Cut, board, output
  <2>3. PICK n \in 0..Len(conns[c].up), m \in 0..Len(conns[c].down) :
          Only(c, SubSeq(conns[c].down, 1, m), SubSeq(conns[c].up, 1, n), conns[c].at,
               conns[c].got, TRUE, conns[c].closed)
    BY <2>1
  <2>4. Piece(SubSeq(conns[c].up, 1, n), conns[c].up)
    BY <2>1, LinkIs, PiecePrefix
  <2>. QED BY <2>1, <2>2, <2>3, <2>4, LinesPiece
<1>. QED BY <1>1, <1>2

LEMMA LogLines ==
  ASSUME Way, Lines, LogStep, UNCHANGED <<conns, results, console, printed>>
  PROVE  Lines'
BY LinesSame DEF LogStep, Way

LEMMA StillLines == ASSUME Way, Lines, UNCHANGED vars PROVE Lines'
<1>1. UNCHANGED <<commands, conns, results, console, printed, buf, db, log>>
  BY DEF vars
<1>2. TypeOK /\ TypeOK'
  BY StillWay DEF Way
<1>3. Kept
  BY <1>1 DEF Kept, Commands
<1>. QED BY <1>1, <1>2, <1>3, LinesStill
-----------------------------------------------------------------------------
(* Lines in their turn: the board.                                         *)

\* The messages that the board sends now, for commands of the connection.
LEMMA ResultOwn ==
  ASSUME TypeOK, Kept, NEW c, NEW m, m.cmd \in Commands, commands[m.cmd].conn = c
  PROVE  Own(m, c)'
<1>1. m.cmd # 0
  BY LinksAre DEF Commands
<1>2. commands'[m.cmd].conn = c
  BY DEF Kept
<1>. QED BY <1>1, <1>2 DEF Own

LEMMA ResultHas ==
  ASSUME NEW i, NEW ok, NEW q
  PROVE  Result(i, ok, q).cmd = i /\ Result(i, ok, q).lines = q
BY DEF Result

\* The console's lines are in the order in which they were printed.
LEMMA ConsoleIs ==
  ASSUME TypeOK, InTurn
  PROVE  /\ console \in Seq(1..MaxOutput) /\ DOMAIN console = 1..Len(console) /\ Len(console) \in Nat
         /\ \A p, q \in DOMAIN console : p < q => console[p] < console[q]
         /\ \A p \in DOMAIN console : console[p] \in Nat
<1>1. console \in Seq(1..MaxOutput) /\ MaxOutput \in Nat
  BY TypeParts, CommandBoundsAssumption DEF Boarded
<1>2. \A p, q \in DOMAIN console : p < q => console[p] < console[q]
  BY DEF InTurn
<1>. QED BY <1>1, <1>2

\* The board sends a result without lines.
LEMMA ResultSays ==
  ASSUME TypeOK, TypeOK', Kept, Lines, NEW c, c = Newest, NEW i \in Commands, commands[i].conn = c,
         NEW ok \in BOOLEAN, NEW d, NEW u \in {conns[c].up, conns[c].up \o <<Result(i, ok, <<>>)>>},
         Only(c, d, u, conns[c].at, conns[c].got, conns[c].cut, conns[c].closed),
         UNCHANGED <<buf, db, log, results, printed, console>>
  PROVE  Lines'
<1>1. PICK X, m, ms : X = {} /\ m = Result(i, ok, <<>>) /\ ms = <<m>>
  OBVIOUS
<1>2. c \in Conns
  BY LinksAre
<1>3. <<>> \in Seq(1..MaxOutput)
  OBVIOUS
<1>4. /\ Own(m, c)' /\ ms \in Seq(Message) /\ m.lines = <<>>
      /\ \A p \in DOMAIN ms : p = 1 /\ ms[p] = m
  <2>1. m.cmd = i /\ m.lines = <<>>
    BY <1>1, ResultHas
  <2>2. Own(m, c)'
    BY <2>1, ResultOwn
  <2>3. m \in Message
    BY <1>1, <1>3, ResultIs, TypeParts
  <2>. QED BY <1>1, <2>1, <2>2, <2>3
<1>5. \A p \in DOMAIN ms : Own(ms[p], c)'
  BY <1>4 DEF Own
<1>6. /\ \A p \in DOMAIN ms : p # 1 => ms[p].lines = <<>>
      /\ \A p \in DOMAIN ms : ms[p].lines # <<>> => Range(ms[p].lines) \subseteq X
  BY <1>4
<1>7. /\ X \subseteq Range(console) /\ Below(X, Range(console)') /\ Range(console)' \subseteq Range(console)
  BY <1>1 DEF Below, Range
<1>8. \A p, q \in DOMAIN console' : p < q => console'[p] < console'[q]
  BY ConsoleIs DEF Lines
<1>9. UNCHANGED <<buf, db, log, results, printed>> /\ u \in {conns[c].up, conns[c].up \o ms}
  BY <1>1
<1>. QED BY <1>4, <1>5, <1>6, <1>7, <1>8, <1>9, LinesSays

LEMMA OneIs ==
  ASSUME NEW S, NEW m \in S
  PROVE  <<m>> \in Seq(S) /\ \A p \in DOMAIN <<m>> : p = 1 /\ <<m>>[p] = m
OBVIOUS

\* The board sends the console.
LEMMA ReadSays ==
  ASSUME TypeOK, TypeOK', Kept, Lines, NEW c, c = Newest, NEW i \in Commands, commands[i].conn = c,
         NEW d, NEW u \in {conns[c].up, conns[c].up \o <<Result(i, TRUE, console)>>},
         Only(c, d, u, conns[c].at, conns[c].got, conns[c].cut, conns[c].closed),
         UNCHANGED <<buf, db, log, results, printed>>, console' = <<>>
  PROVE  Lines'
<1>1. PICK X, q, m, ms : /\ X = Range(console) /\ q = console
                         /\ m = Result(i, TRUE, q) /\ ms = <<m>>
  OBVIOUS
<1>2. c \in Conns
  BY LinksAre
<1>3. q \in Seq(1..MaxOutput)
  BY <1>1, ConsoleIs DEF Lines
<1>4. /\ Own(m, c)' /\ ms \in Seq(Message) /\ m.lines = q
      /\ \A p \in DOMAIN ms : p = 1 /\ ms[p] = m
  <2>0. m = Result(i, TRUE, q) /\ ms = <<m>>
    BY <1>1
  <2>1. m.cmd = i /\ m.lines = q
    BY <2>0 DEF Result
  <2>2. Own(m, c)'
    BY <2>1, ResultOwn
  <2>3. m \in Message
    BY <1>1, <1>3, ResultIs, TypeParts
  <2>4. ms \in Seq(Message) /\ \A p \in DOMAIN ms : p = 1 /\ ms[p] = m
    <3>1. <<m>> \in Seq(Message) /\ \A p \in DOMAIN <<m>> : p = 1 /\ <<m>>[p] = m
      BY <2>3, OneIs
    <3>. QED BY <2>0, <3>1, Zenon
  <2>. QED BY <2>1, <2>2, <2>4
<1>5. \A p \in DOMAIN ms : Own(ms[p], c)'
  BY <1>4 DEF Own
<1>6. /\ \A p \in DOMAIN ms : p # 1 => ms[p].lines = <<>>
      /\ \A p \in DOMAIN ms : ms[p].lines # <<>> => Range(ms[p].lines) \subseteq X
  BY <1>1, <1>4
<1>7. /\ X \subseteq Range(console) /\ Below(X, Range(console)') /\ Range(console)' \subseteq Range(console)
  BY <1>1 DEF Below, Range
<1>8. \A j, k \in DOMAIN console' : j < k => console'[j] < console'[k]
  OBVIOUS
<1>9. UNCHANGED <<buf, db, log, results, printed>> /\ u \in {conns[c].up, conns[c].up \o ms}
  BY <1>1
<1>. QED BY <1>4, <1>5, <1>6, <1>7, <1>8, <1>9, LinesSays

\* The board carries out the command at the head.
LEMMA CarryLines ==
  ASSUME Way, Lines, Carry
  PROVE  Lines'
<1>1. PICK c, i : c = Newest /\ i = Head(conns[Newest].down)
  OBVIOUS
<1>2. TypeOK /\ Reads /\ UNCHANGED <<commands, entry, on, output, results, printed, faults>>
  BY DEF Carry, Way
<1>3. i \in Commands /\ commands[i].conn = c
  <2>1. 1 \in DOMAIN conns[c].down /\ i = conns[c].down[1] /\ c \in Conns /\ i \in Commands
    BY <1>1, <1>2, HeadIs
  <2>. QED BY <2>1 DEF Way, OnTheWay
<1>4. UNCHANGED <<buf, db, log, results, printed>>
  BY <1>2 DEF output
<1>5. Kept
  BY <1>2 DEF Kept, Commands
<1>6. Injects(i) \/ ReadAll(i) \/ QueueWrite(i)
  BY <1>1 DEF Carry
<1>7. CASE Injects(i)
  <2>1. /\ TypeOK' /\ UNCHANGED console
        /\ \E ok \in BOOLEAN :
             \E u \in {conns[c].up, conns[c].up \o <<Result(i, ok, <<>>)>>} :
               Only(c, Tail(conns[c].down), u, conns[c].at, conns[c].got, conns[c].cut, conns[c].closed)
    BY <1>1, <1>2, <1>7, InjectsIs
  <2>2a. PICK ok \in BOOLEAN :
           \E u \in {conns[c].up, conns[c].up \o <<Result(i, ok, <<>>)>>} :
             Only(c, Tail(conns[c].down), u, conns[c].at, conns[c].got, conns[c].cut, conns[c].closed)
    BY <2>1
  <2>2. PICK u \in {conns[c].up, conns[c].up \o <<Result(i, ok, <<>>)>>} :
          Only(c, Tail(conns[c].down), u, conns[c].at, conns[c].got, conns[c].cut, conns[c].closed)
    BY <2>2a
  <2>3. UNCHANGED <<buf, db, log, results, printed, console>>
    BY <1>4, <2>1
  <2>. QED BY <1>1, <1>2, <1>3, <1>5, <2>1, <2>2, <2>3, ResultSays
<1>8. CASE ReadAll(i)
  <2>1. /\ TypeOK' /\ console' = <<>>
        /\ \E u \in {conns[c].up, conns[c].up \o <<Result(i, TRUE, console)>>} :
             Only(c, Tail(conns[c].down), u, conns[c].at, conns[c].got, conns[c].cut, conns[c].closed)
    BY <1>1, <1>2, <1>8, ReadAllIs
  <2>2. PICK u \in {conns[c].up, conns[c].up \o <<Result(i, TRUE, console)>>} :
          Only(c, Tail(conns[c].down), u, conns[c].at, conns[c].got, conns[c].cut, conns[c].closed)
    BY <2>1
  <2>. QED BY <1>1, <1>2, <1>3, <1>4, <1>5, <2>1, <2>2, ReadSays
<1>9. CASE QueueWrite(i)
  <2>1. /\ TypeOK' /\ UNCHANGED console
        /\ \/ \E u \in {conns[c].up, conns[c].up \o <<Result(i, FALSE, <<>>)>>} :
                Only(c, Tail(conns[c].down), u, conns[c].at, conns[c].got, conns[c].cut, conns[c].closed)
           \/ Only(c, Tail(conns[c].down), conns[c].up, conns[c].at, conns[c].got,
                   conns[c].cut, conns[c].closed)
    BY <1>1, <1>2, <1>9, QueueWriteIs
  <2>2. PICK u \in {conns[c].up, conns[c].up \o <<Result(i, FALSE, <<>>)>>} :
          Only(c, Tail(conns[c].down), u, conns[c].at, conns[c].got, conns[c].cut, conns[c].closed)
    BY <2>1
  <2>3. UNCHANGED <<buf, db, log, results, printed, console>>
    BY <1>4, <2>1
  <2>. QED BY <1>1, <1>2, <1>3, <1>5, <2>1, <2>2, <2>3, ResultSays
<1>. QED BY <1>6, <1>7, <1>8, <1>9

\* The board says that a write has failed.
LEMMA WriteFailsLines ==
  ASSUME Way, Lines, WriteFails
  PROVE  Lines'
<1>1. PICK c, i : c = Newest /\ i = tx[1]
  OBVIOUS
<1>2. /\ TypeOK' /\ Kept /\ UNCHANGED console /\ tx # <<>>
      /\ \E u \in {conns[c].up, conns[c].up \o <<Result(i, FALSE, <<>>)>>} :
           Only(c, conns[c].down, u, conns[c].at, conns[c].got, conns[c].cut, conns[c].closed)
  BY <1>1, WriteFailsIs DEF Way
<1>3. PICK u \in {conns[c].up, conns[c].up \o <<Result(i, FALSE, <<>>)>>} :
        Only(c, conns[c].down, u, conns[c].at, conns[c].got, conns[c].cut, conns[c].closed)
  BY <1>2
<1>4. TypeOK /\ tx \in Seq(Commands)
  BY TypeParts DEF Boarded, Way
<1>5. 1 \in DOMAIN tx /\ i \in Commands /\ commands[i].conn = c
  <2>1. 1 \in DOMAIN tx /\ i \in Commands
    BY <1>1, <1>2, <1>4
  <2>. QED BY <1>1, <2>1 DEF Way, Queued
<1>6. UNCHANGED <<buf, db, log, results, printed, console>>
  BY <1>2 DEF WriteFails, output
<1>. QED BY <1>1, <1>2, <1>3, <1>4, <1>5, <1>6, ResultSays

\* The board sends the line that it took.
LEMMA PassLines ==
  ASSUME Way, Lines, NEW n \in Nat, Pass(n)
  PROVE  Lines'
<1>1. PICK c : c = Newest
  OBVIOUS
<1>2. PICK X : X = IF console = <<>> THEN {} ELSE {Head(console)}
  OBVIOUS
<1>3. /\ TypeOK' /\ Kept /\ n \in 0..Len(tx)
      /\ \E ms \in Seq(Message) :
           /\ \A p \in DOMAIN ms : PassMessage(ms[p], n)
           /\ \A p \in DOMAIN ms : p # 1 => ms[p].lines = <<>>
           /\ \E u \in {conns[c].up, conns[c].up \o ms} :
                Only(c, conns[c].down, u, conns[c].at, conns[c].got, conns[c].cut, conns[c].closed)
  BY <1>1, PassIs DEF Way
<1>4. PICK ms \in Seq(Message) :
        /\ \A p \in DOMAIN ms : PassMessage(ms[p], n)
        /\ \A p \in DOMAIN ms : p # 1 => ms[p].lines = <<>>
        /\ \E u \in {conns[c].up, conns[c].up \o ms} :
             Only(c, conns[c].down, u, conns[c].at, conns[c].got, conns[c].cut, conns[c].closed)
  BY <1>3
<1>5. PICK u \in {conns[c].up, conns[c].up \o ms} :
        Only(c, conns[c].down, u, conns[c].at, conns[c].got, conns[c].cut, conns[c].closed)
  BY <1>4
<1>6. TypeOK /\ InTurn /\ n <= Len(tx)
  BY <1>3, TypeParts DEF Way, Lines, Boarded
<1>7. ASSUME NEW p \in DOMAIN ms
      PROVE  Own(ms[p], c)' /\ (ms[p].lines # <<>> => Range(ms[p].lines) \subseteq X)
  <2>0. PICK m : m = ms[p]
    OBVIOUS
  <2>1. CASE console # <<>> /\ m = OutputOf(Head(console))
    <3>1. m.cmd = 0 /\ m.lines = <<Head(console)>>
      BY <2>1 DEF OutputOf, Result
    <3>2. Own(m, c)'
      BY <3>1 DEF Own
    <3>3. Range(m.lines) \subseteq X
      BY <1>2, <2>1, <3>1 DEF Range
    <3>. QED BY <2>0, <3>2, <3>3 DEF Own
  <2>2. CASE \E q \in Finished(n) : m = Result(tx[q], TRUE, <<>>)
    <3>1. PICK q \in Finished(n) : m = Result(tx[q], TRUE, <<>>)
      BY <2>2
    <3>2. PICK i : i = tx[q]
      OBVIOUS
    <3>3. i \in Commands /\ q \in 1..Len(tx)
      BY <1>6, <3>2, FinishedIs
    <3>4. tx \in Seq(Commands)
      BY <1>6, TypeParts DEF Boarded
    <3>5. commands[i].conn = c
      BY <1>1, <3>2, <3>3, <3>4 DEF Way, Queued
    <3>8. Own(m, c)' /\ m.lines = <<>>
      <4>1. m.cmd = i /\ m.lines = <<>>
        BY <3>1, <3>2 DEF Result
      <4>. QED BY <1>3, <1>6, <3>3, <3>5, <4>1, ResultOwn
    <3>. QED BY <2>0, <3>8 DEF Own
  <2>. QED BY <1>4, <2>0, <2>1, <2>2 DEF PassMessage
<1>8. /\ X \subseteq Range(console) /\ Below(X, Range(console)') /\ Range(console)' \subseteq Range(console)
      /\ \A p, q \in DOMAIN console' : p < q => console'[p] < console'[q]
  <2>0. console' = IF console = <<>> THEN <<>> ELSE Tail(console)
    BY DEF Pass
  <2>1. CASE console = <<>>
    BY <1>2, <2>0, <2>1 DEF Range, Below
  <2>2. CASE console # <<>>
    <3>1. console \in Seq(1..MaxOutput) /\ \A p, q \in DOMAIN console : p < q => console[p] < console[q]
      BY <1>6, ConsoleIs
    <3>2. /\ Len(console) \in Nat \ {0} /\ DOMAIN console = 1..Len(console)
          /\ DOMAIN Tail(console) = 1..(Len(console) - 1) /\ Head(console) = console[1]
          /\ \A i \in 1..(Len(console) - 1) : Tail(console)[i] = console[i + 1]
      BY <2>2, <3>1, TailIs
    <3>3. X = {console[1]} /\ console' = Tail(console) /\ 1 \in DOMAIN console
      BY <1>2, <2>0, <2>2, <3>2
    <3>4. ASSUME NEW p \in DOMAIN Tail(console)
          PROVE  p + 1 \in DOMAIN console /\ Tail(console)[p] = console[p + 1] /\ 1 < p + 1 /\ p \in Nat
      BY <3>2
    <3>5. Range(Tail(console)) \subseteq Range(console) /\ X \subseteq Range(console)
      BY <3>3, <3>4 DEF Range
    <3>6. ASSUME NEW p \in DOMAIN Tail(console) PROVE console[1] < Tail(console)[p]
      BY <3>1, <3>3, <3>4
    <3>7. Below(X, Range(Tail(console)))
      BY <3>3, <3>6 DEF Below, Range
    <3>8. ASSUME NEW p \in DOMAIN Tail(console), NEW q \in DOMAIN Tail(console), p < q
          PROVE  Tail(console)[p] < Tail(console)[q]
      <4>1. p + 1 < q + 1
        BY <3>4, <3>8
      <4>. QED BY <3>1, <3>4, <4>1
    <3>. QED BY <3>3, <3>5, <3>7, <3>8 DEF Range
  <2>. QED BY <2>1, <2>2
<1>9. UNCHANGED <<buf, db, log, results, printed>>
  BY DEF Pass, output
<1>10. /\ \A p \in DOMAIN ms : Own(ms[p], c)'
       /\ \A p \in DOMAIN ms : ms[p].lines # <<>> => Range(ms[p].lines) \subseteq X
  BY <1>7 DEF Own
<1>. QED BY <1>1, <1>3, <1>4, <1>5, <1>6, <1>8, <1>9, <1>10, LinesSays
-----------------------------------------------------------------------------
(* A line is stored.                                                       *)

LEMMA AppendRows ==
  ASSUME NEW S, NEW s \in Seq(S), NEW r \in S
  PROVE  /\ Append(s, r) \in Seq(S) /\ DOMAIN Append(s, r) = 1..(Len(s) + 1) /\ Len(s) \in Nat
         /\ DOMAIN s = 1..Len(s) /\ Append(s, r)[Len(s) + 1] = r
         /\ \A p \in DOMAIN s : p \in DOMAIN Append(s, r) /\ Append(s, r)[p] = s[p]
OBVIOUS

\* Every row of the longer queue is the new one, at its end, or one of the others.
LEMMA AppendSplit ==
  ASSUME NEW S, NEW s \in Seq(S), NEW r \in S, NEW p \in DOMAIN Append(s, r)
  PROVE  \/ p \in DOMAIN s /\ Append(s, r)[p] = s[p]
         \/ p = Len(s) + 1 /\ Append(s, r)[p] = r
<1>1. /\ DOMAIN Append(s, r) = 1..(Len(s) + 1) /\ Len(s) \in Nat /\ DOMAIN s = 1..Len(s)
      /\ Append(s, r)[Len(s) + 1] = r /\ \A q \in DOMAIN s : Append(s, r)[q] = s[q]
  BY AppendRows
<1>2. CASE p = Len(s) + 1
  BY <1>1, <1>2
<1>3. CASE p # Len(s) + 1
  <2>1. p \in DOMAIN s
    BY <1>1, <1>3
  <2>. QED BY <1>1, <2>1
<1>. QED BY <1>2, <1>3

LEMMA AppendRange ==
  ASSUME NEW S, NEW s \in Seq(S), NEW r \in S
  PROVE  Range(Append(s, r)) = Range(s) \union {r}
<1>1. ASSUME NEW x \in Range(Append(s, r)) PROVE x \in Range(s) \union {r}
  <2>1. PICK p \in DOMAIN Append(s, r) : x = Append(s, r)[p]
    BY <1>1 DEF Range
  <2>. QED BY <2>1, AppendSplit DEF Range
<1>2. Range(s) \subseteq Range(Append(s, r))
  BY AppendRows DEF Range
<1>3. r \in Range(Append(s, r))
  <2>1. Len(s) + 1 \in DOMAIN Append(s, r) /\ Append(s, r)[Len(s) + 1] = r
    BY AppendRows
  <2>. QED BY <2>1 DEF Range
<1>. QED BY <1>1, <1>2, <1>3

LEMMA RisesAppend ==
  ASSUME NEW s \in Seq(Rows), NEW r \in Rows, Rises(s), \A x \in Range(s) : Follows(x, r)
  PROVE  Rises(Append(s, r))
<1>1. SUFFICES ASSUME NEW p \in DOMAIN Append(s, r), NEW q \in DOMAIN Append(s, r), p < q
               PROVE  Follows(Append(s, r)[p], Append(s, r)[q])
  BY DEF Rises
<1>2. Len(s) \in Nat /\ DOMAIN s = 1..Len(s) /\ p \in 1..(Len(s) + 1) /\ q \in 1..(Len(s) + 1)
  BY AppendRows
<1>3. p \in DOMAIN s
  BY <1>1, <1>2
<1>4. Append(s, r)[p] = s[p] /\ s[p] \in Range(s)
  BY <1>3, AppendRows DEF Range
<1>5. CASE q \in DOMAIN s /\ Append(s, r)[q] = s[q]
  BY <1>1, <1>3, <1>4, <1>5 DEF Rises
<1>6. CASE Append(s, r)[q] = r
  BY <1>4, <1>6
<1>. QED BY <1>5, <1>6, AppendSplit

LEMMA BeforeAppend ==
  ASSUME NEW s \in Seq(Rows), NEW r \in Rows, NEW t, Before(t, s), \A x \in Range(t) : Follows(x, r)
  PROVE  Before(t, Append(s, r))
<1>1. SUFFICES ASSUME NEW p \in DOMAIN t, NEW q \in DOMAIN Append(s, r)
               PROVE  Follows(t[p], Append(s, r)[q])
  BY DEF Before
<1>2. CASE q \in DOMAIN s /\ Append(s, r)[q] = s[q]
  BY <1>2 DEF Before
<1>3. CASE Append(s, r)[q] = r
  BY <1>3 DEF Range
<1>. QED BY <1>2, <1>3, AppendSplit

\* A row that follows all others, of a line in no result, is received.
LEMMA OnceAppended ==
  ASSUME Logged, OutputOnce, UNCHANGED <<db, log, results>>, NEW row \in Rows,
         buf' = Append(buf, row), \A r \in Received : Follows(r, row),
         \A r \in results : row[2] \notin Range(r[2])
  PROVE  OutputOnce' /\ Received' = Received \union {row}
<1>0. PICK last : last = Len(db) + 1
  OBVIOUS
<1>1. /\ Len(db) \in Nat /\ DOMAIN db = 1..Len(db) /\ \A j \in Parts : Part(j) \in Seq(Rows)
      /\ Part(last) = buf /\ last \in Parts /\ Parts' = Parts
  BY <1>0, PartIs DEF Parts
<1>2. buf \in Seq(Rows)
  BY <1>1
<1>3. \A j \in Parts : Part(j)' = IF j = last THEN Append(Part(j), row) ELSE Part(j)
  BY <1>0, <1>1 DEF Part, Parts
<1>4. Ordered
  BY OnceParts
<1>5. ASSUME NEW j \in Parts PROVE \A x \in Range(Part(j)) : Follows(x, row)
  BY <1>5, ReceivedIs
<1>6. ASSUME NEW j \in Parts PROVE Rises(Part(j)')
  <2>1. Rises(Part(j)) /\ Part(j) \in Seq(Rows)
    BY <1>1, <1>4 DEF Ordered
  <2>2. Rises(Append(Part(j), row))
    BY <1>5, <2>1, RisesAppend
  <2>. QED BY <1>3, <2>1, <2>2
<1>7. ASSUME NEW j \in Parts, NEW k \in Parts, j < k PROVE Before(Part(j)', Part(k)')
  <2>1. Before(Part(j), Part(k)) /\ Part(k) \in Seq(Rows)
    BY <1>1, <1>4, <1>7 DEF Ordered
  <2>2. Part(j)' = Part(j)
    <3>1. j # last
      BY <1>0, <1>1, <1>7 DEF Parts
    <3>. QED BY <1>3, <3>1
  <2>3. Before(Part(j), Append(Part(k), row))
    BY <1>5, <2>1, BeforeAppend
  <2>. QED BY <1>3, <2>1, <2>2, <2>3
<1>8. Ordered'
  <2>1. \A j \in Parts' : Rises(Part(j))'
    BY <1>1, <1>6 DEF Rises, Follows
  <2>2. \A j, k \in Parts' : j < k => Before(Part(j), Part(k))'
    BY <1>1, <1>7 DEF Before, Follows
  <2>. QED BY <2>1, <2>2 DEF Ordered
<1>9. Received' = Received \union {row}
  <2>1. Range(buf') = Range(buf) \union {row}
    BY <1>2, AppendRange
  <2>2. Received' = Range(log) \union Range(buf') \union UNION {Range(db[j].rows) : j \in DOMAIN db}
    BY DEF Received, Range
  <2>. QED BY <2>1, <2>2 DEF Received
<1>10. Apart'
  BY <1>9, OnceParts DEF Apart, Range
<1>. QED BY <1>8, <1>9, <1>10, OncePartsNext

\* A result with lines that are stored nowhere else is stored.
LEMMA OnceInserted ==
  ASSUME OutputOnce, UNCHANGED <<buf, db, log>>, NEW r, results' = results \union {r},
         \A row \in Received : row[2] \notin Range(r[2]),
         \A s \in results : \A l \in Range(s[2]) : l \notin Range(r[2])
  PROVE  OutputOnce'
<1>1. Received' = Received
  BY ReceivedSame
<1>2. Ordered /\ Apart
  BY OnceParts
<1>3. Ordered'
  <2>1. Parts' = Parts /\ \A j : Part(j)' = Part(j)
    BY DEF Parts, Part
  <2>2. \A j \in Parts' : Rises(Part(j))'
    BY <1>2, <2>1 DEF Ordered, Rises, Follows
  <2>3. \A j, k \in Parts' : j < k => Before(Part(j), Part(k))'
    BY <1>2, <2>1 DEF Ordered, Before, Follows
  <2>. QED BY <2>2, <2>3 DEF Ordered
<1>4. ASSUME NEW a \in results', NEW l \in Range(a[2])
      PROVE  /\ \A row \in Received' : row[2] # l
             /\ \A s \in results' : l \in Range(s[2]) => s = a
  <2>1. CASE a \in results
    BY <1>1, <1>2, <1>4, <2>1 DEF Apart
  <2>2. CASE a = r
    BY <1>1, <1>4, <2>2
  <2>. QED BY <2>1, <2>2
<1>5. Apart'
  BY <1>4 DEF Apart, Range
<1>. QED BY <1>3, <1>5, OncePartsNext

\* A line that the handler has, or that is to come, is after all that is stored.
LEMMA LineNew ==
  ASSUME TypeOK, InTurn, NEW c \in Conns, NEW d \in Conns,
         NEW l \in Handled(c) \union Coming(c), NEW k \in Stored(d)
  PROVE  k # l /\ (c = d => k < l)
<1>1. /\ c \in Nat /\ d \in Nat /\ printed \in Nat
  <2>1. printed \in Nat
    BY TypeParts, CommandBoundsAssumption DEF Limited
  <2>. QED BY <2>1, LinkIs
<1>2. Known(c) \subseteq 1..printed /\ Known(d) \subseteq 1..printed /\ l \in Known(c) /\ k \in Known(d)
  BY TurnIs DEF Known
<1>3. l \in Nat /\ k \in Nat
  BY <1>1, <1>2
<1>4. CASE c = d
  <2>1. k < l
    BY <1>4, TurnIs DEF TurnOf, Below
  <2>. QED BY <1>3, <2>1
<1>5. CASE c < d
  <2>1. l < k
    BY <1>2, <1>5 DEF InTurn, Below
  <2>. QED BY <1>1, <1>3, <1>5, <2>1
<1>6. CASE d < c
  <2>1. k < l
    BY <1>2, <1>6 DEF InTurn, Below
  <2>. QED BY <1>1, <1>3, <1>6, <2>1
<1>. QED BY <1>1, <1>4, <1>5, <1>6
-----------------------------------------------------------------------------
(* Lines in their turn: the hub's handlers.                                *)

\* A connection that does not change, of which nothing is stored, stays in order.
LEMMA OthersTurn ==
  ASSUME TypeOK, TypeOK', Kept, InTurn, NEW b \in Conns, conns'[b] = conns[b],
         Conns' = Conns, Stored(b)' \subseteq Stored(b)
  PROVE  TurnOf(b)' /\ Known(b)' \subseteq Known(b)
<1>1. DOMAIN conns'[b].up \subseteq Nat
  <2>1. DOMAIN conns'[b].up = 1..Len(conns'[b].up)
    BY LinkNext
  <2>. QED BY <2>1
<1>2. Handled(b)' \subseteq Handled(b) /\ Piece(conns'[b].up, conns[b].up)
  <2>1. Piece(conns[b].up, conns[b].up)
    BY LinkIs, PieceSame
  <2>. QED BY <2>1 DEF Handled, Range
<1>3. TurnOf(b)
  BY TurnIs
<1>. QED BY <1>1, <1>2, <1>3, TurnKept

\* The first message's lines are before those that follow.
LEMMA FirstBelow ==
  ASSUME TypeOK, NEW c \in Conns, conns[c].up # <<>>, TurnOf(c)
  PROVE  /\ Below(Range(conns[c].up[1].lines), LinesOf(Tail(conns[c].up)))
         /\ LinesOf(Tail(conns[c].up)) \subseteq Coming(c)
         /\ Range(conns[c].up[1].lines) \subseteq Coming(c)
<1>1. conns[c].up \in Seq(Message)
  BY LinkIs
<1>2. PICK up, t : up = conns[c].up /\ t = Tail(conns[c].up)
  OBVIOUS
<1>3. /\ Len(up) \in Nat \ {0} /\ DOMAIN up = 1..Len(up) /\ DOMAIN t = 1..(Len(up) - 1)
      /\ 1 \in DOMAIN up /\ \A i \in 1..(Len(up) - 1) : t[i] = up[i + 1]
  BY <1>1, <1>2, TailIs
<1>4. ASSUME NEW l \in LinesOf(t)
      PROVE  l \in Coming(c) /\ \A k \in Range(up[1].lines) : k < l
  <2>1. PICK p \in DOMAIN t : l \in Range(t[p].lines)
    BY <1>4 DEF LinesOf
  <2>2. p + 1 \in DOMAIN up /\ t[p] = up[p + 1] /\ 1 < p + 1
    BY <1>3
  <2>3. Below(Range(up[1].lines), Range(up[p + 1].lines))
    BY <1>2, <1>3, <2>2 DEF TurnOf
  <2>. QED BY <1>2, <2>1, <2>2, <2>3 DEF Below, Coming
<1>. QED BY <1>2, <1>3, <1>4 DEF Below, Coming

\* A handler that has nothing takes the first message; its lines are stored or kept.
LEMMA TurnTaken ==
  ASSUME TypeOK, TypeOK', NEW c \in Conns, Conns' = Conns, conns[c].up # <<>>, TurnOf(c),
         conns'[c].up = Tail(conns[c].up), Below(Stored(c)', Handled(c)'),
         Stored(c)' \union Handled(c)' \subseteq
           Stored(c) \union Handled(c) \union Range(conns[c].up[1].lines)
  PROVE  TurnOf(c)' /\ Known(c)' \subseteq Known(c)
<1>1. PICK first, rest : first = Range(conns[c].up[1].lines) /\ rest = LinesOf(Tail(conns[c].up))
  OBVIOUS
<1>2. Below(first, rest) /\ rest \subseteq Coming(c) /\ first \subseteq Coming(c)
  BY <1>1, FirstBelow
<1>3. Coming(c)' = rest
  <2>1. Coming(c)' = LinesOf(conns'[c].up)
    BY DEF Coming, LinesOf, Range
  <2>. QED BY <1>1, <2>1
<1>4. Below(Stored(c) \union Handled(c), Coming(c))
  BY DEF TurnOf
<1>5. Below(Stored(c)' \union Handled(c)', Coming(c)')
  <2>1. Below(Stored(c) \union Handled(c) \union first, rest)
    BY <1>2, <1>4 DEF Below
  <2>. QED BY <1>1, <1>3, <2>1, BelowLess
<1>6. ASSUME NEW p \in DOMAIN conns'[c].up, NEW q \in DOMAIN conns'[c].up, p < q
      PROVE  Below(Range(conns'[c].up[p].lines), Range(conns'[c].up[q].lines))
  <2>1. PICK up, t : up = conns[c].up /\ t = Tail(conns[c].up)
    OBVIOUS
  <2>2. conns[c].up \in Seq(Message)
    BY LinkIs
  <2>3. /\ Len(up) \in Nat \ {0} /\ DOMAIN up = 1..Len(up) /\ DOMAIN t = 1..(Len(up) - 1)
        /\ \A i \in 1..(Len(up) - 1) : t[i] = up[i + 1]
    BY <2>1, <2>2, TailIs
  <2>4. p \in DOMAIN t /\ q \in DOMAIN t /\ conns'[c].up = t
    BY <1>6, <2>1
  <2>5. /\ p + 1 \in DOMAIN up /\ t[p] = up[p + 1] /\ q + 1 \in DOMAIN up /\ t[q] = up[q + 1]
        /\ p + 1 < q + 1
    BY <1>6, <2>3, <2>4
  <2>6. Below(Range(up[p + 1].lines), Range(up[q + 1].lines))
    BY <2>1, <2>5 DEF TurnOf
  <2>. QED BY <2>4, <2>5, <2>6
<1>7. Known(c)' \subseteq Known(c)
  BY <1>1, <1>2, <1>3 DEF Known
<1>8. \A p, q \in DOMAIN conns'[c].up :
        p < q => Below(Range(conns[c].up[p].lines), Range(conns[c].up[q].lines))'
  BY <1>6 DEF Below, Range
<1>. QED BY <1>5, <1>7, <1>8 DEF TurnOf, Below, Range

\* The lines that the handler has are stored.
LEMMA TurnStored ==
  ASSUME NEW c, TurnOf(c), conns'[c].up = conns[c].up,
         Stored(c)' \subseteq Stored(c) \union Handled(c), Handled(c)' = {}
  PROVE  TurnOf(c)' /\ Known(c)' \subseteq Known(c)
<1>1. Coming(c)' = Coming(c)
  BY DEF Coming, Range
<1>2. Below(Stored(c), Handled(c))'
  BY DEF Below
<1>3. Below(Stored(c) \union Handled(c), Coming(c))
  BY DEF TurnOf
<1>4. Below(Stored(c) \union Handled(c), Coming(c))'
  BY <1>1, <1>3 DEF Below
<1>5. \A p, q \in DOMAIN conns'[c].up :
        p < q => Below(Range(conns[c].up[p].lines), Range(conns[c].up[q].lines))'
  BY DEF TurnOf, Below, Range
<1>6. Known(c)' \subseteq Known(c)
  BY <1>1 DEF Known
<1>. QED BY <1>2, <1>4, <1>5, <1>6 DEF TurnOf

\* A step that leaves the console alone, and the connections in order, leaves all so.
LEMMA TurnAll ==
  ASSUME TypeOK, InTurn, Conns' = Conns, Newest' = Newest, UNCHANGED <<console, printed>>,
         \A row \in Received' : row[1] \in Conns,
         \A b \in Conns : TurnOf(b)' /\ Known(b)' \subseteq Known(b)
  PROVE  InTurn'
<1>1. \A p, q \in DOMAIN console' : p < q => console'[p] < console'[q]
  BY ConsoleIs
<1>2. Range(console)' = Range(console) /\ {} \subseteq Range(console) /\ Below({}, Range(console)')
  BY DEF Range, Below
<1>3. TurnStep({})
  BY <1>1, <1>2 DEF TurnStep
<1>. QED BY <1>3, TurnStepIs

\* What is stored is stored of a connection.
LEMMA StoredHas ==
  ASSUME TypeOK, OnTheWay
  PROVE  /\ \A row \in Received : row[2] \in Stored(row[1])
         /\ \A r \in results : /\ r[1] \in Commands /\ commands[r[1]].conn \in Conns
                               /\ Range(r[2]) \subseteq Stored(commands[r[1]].conn)
<1>1. \A r \in results : r[1] \in Commands
  BY TypeParts DEF Resulted
<1>2. \A r \in results : commands[r[1]].conn \in Conns
  BY <1>1 DEF OnTheWay
<1>3. \A row \in Received : row[2] \in Stored(row[1])
  BY DEF Stored
<1>4. \A r \in results : Range(r[2]) \subseteq Stored(commands[r[1]].conn)
  BY DEF Stored
<1>. QED BY <1>1, <1>2, <1>3, <1>4

LEMMA StoredRow ==
  ASSUME TypeOK, Kept, UNCHANGED results, NEW row, Received' = Received \union {row}, NEW b
  PROVE  Stored(b)' \subseteq Stored(b) \union (IF row[1] = b THEN {row[2]} ELSE {})
<1>1. \A r \in results : r[1] \in Commands
  BY TypeParts DEF Resulted
<1>2. \A r \in results : commands'[r[1]].conn = commands[r[1]].conn
  BY <1>1 DEF Kept
<1>. QED BY <1>2 DEF Stored, Range

LEMMA StoredResult ==
  ASSUME TypeOK, Kept, Received' = Received, NEW i \in Commands, NEW q,
         results' = results \union {<<i, q>>}, NEW b
  PROVE  Stored(b)' \subseteq Stored(b) \union (IF commands[i].conn = b THEN Range(q) ELSE {})
<1>1. \A r \in results : r[1] \in Commands
  BY TypeParts DEF Resulted
<1>2. \A r \in results : commands'[r[1]].conn = commands[r[1]].conn
  BY <1>1 DEF Kept
<1>3. commands'[i].conn = commands[i].conn
  BY DEF Kept
<1>. QED BY <1>2, <1>3 DEF Stored, Range

\* A handler that reads has nothing.
LEMMA ReadingHas ==
  ASSUME TypeOK, Carried, NEW c \in Conns, conns[c].at \notin {"complete", "store"}
  PROVE  Handled(c) = {}
<1>1. conns[c].got = Nothing /\ Nothing.lines = <<>>
  BY NothingIs DEF Carried
<1>. QED BY <1>1 DEF Handled, Range

\* A line of output is stored after all others of its connection.
LEMMA OutputLines ==
  ASSUME Way, Lines, NEW c \in Conns, Output(c)
  PROVE  Lines'
<1>0. TypeOK /\ OnTheWay /\ Carried /\ InTurn /\ OutputOnce
  BY DEF Way, Lines
<1>1. PICK m, l, row : m = conns[c].up[1] /\ l = m.lines[1] /\ row = <<c, l>>
  OBVIOUS
<1>2. /\ TypeOK' /\ Kept /\ conns[c].up # <<>> /\ conns[c].at = "read" /\ m.cmd = 0 /\ Len(m.lines) = 1
      /\ Only(c, conns[c].down, Tail(conns[c].up), "read", Nothing, conns[c].cut, conns[c].closed)
      /\ row \in Rows /\ buf' = Append(buf, row)
  BY <1>0, <1>1, OutputIs
<1>3. UNCHANGED <<db, log, results, console, printed>>
  BY DEF Output, board
<1>4. Range(m.lines) = {l}
  <2>1. m.lines \in Seq(1..MaxOutput)
    BY <1>0, <1>1, <1>2, FirstIs
  <2>2. DOMAIN m.lines = {1}
    BY <1>2, <2>1
  <2>. QED BY <1>1, <2>2 DEF Range
<1>5. l \in Coming(c) /\ Handled(c) = {} /\ TurnOf(c)
  <2>1. TurnOf(c)
    BY <1>0, TurnIs
  <2>2. Range(m.lines) \subseteq Coming(c)
    BY <1>0, <1>1, <1>2, <2>1, FirstBelow
  <2>. QED BY <1>0, <1>2, <1>4, <2>1, <2>2, ReadingHas
<1>6. ASSUME NEW r \in Received PROVE Follows(r, row)
  <2>1. PICK d, k : d = r[1] /\ k = r[2]
    OBVIOUS
  <2>2. d \in Conns /\ k \in Stored(d)
    BY <1>0, <2>1, StoredHas DEF InTurn
  <2>3. k # l /\ (c = d => k < l)
    BY <1>0, <1>5, <2>2, LineNew
  <2>. QED BY <1>1, <2>1, <2>3 DEF Follows
<1>7. ASSUME NEW r \in results PROVE row[2] \notin Range(r[2])
  <2>1. PICK d : d = commands[r[1]].conn
    OBVIOUS
  <2>2. d \in Conns /\ Range(r[2]) \subseteq Stored(d)
    BY <1>0, <2>1, StoredHas
  <2>3. \A k \in Stored(d) : k # l
    BY <1>0, <1>5, <2>2, LineNew
  <2>. QED BY <1>1, <2>2, <2>3
<1>8. OutputOnce' /\ Received' = Received \union {row}
  <2>1. Logged
    BY <1>0, TypeParts
  <2>. QED BY <1>0, <1>2, <1>3, <1>6, <1>7, <2>1, OnceAppended
<1>9. Conns' = Conns /\ Newest' = Newest /\ conns'[c].up = Tail(conns[c].up) /\ conns'[c].got = Nothing
  BY <1>2 DEF Only
<1>10. ASSUME NEW b \in Conns PROVE TurnOf(b)' /\ Known(b)' \subseteq Known(b)
  <2>1. Stored(b)' \subseteq Stored(b) \union (IF row[1] = b THEN {row[2]} ELSE {})
    BY <1>0, <1>2, <1>3, <1>8, StoredRow
  <2>2. CASE b # c
    <3>1. Stored(b)' \subseteq Stored(b)
      BY <1>1, <2>1, <2>2
    <3>2. conns'[b] = conns[b]
      BY <1>2, <2>2 DEF Only, Others
    <3>. QED BY <1>0, <1>2, <1>9, <3>1, <3>2, OthersTurn
  <2>3. CASE b = c
    <3>1. Stored(c)' \subseteq Stored(c) \union {l}
      BY <1>1, <2>1, <2>3
    <3>2. Handled(c)' = {}
      <4>1. Nothing.lines = <<>>
        BY <1>0, NothingIs
      <4>. QED BY <1>9, <4>1 DEF Handled, Range
    <3>3. Below(Stored(c)', Handled(c)')
      BY <3>2 DEF Below
    <3>4. TurnOf(c)' /\ Known(c)' \subseteq Known(c)
      BY <1>0, <1>1, <1>2, <1>4, <1>5, <1>9, <3>1, <3>2, <3>3, TurnTaken
    <3>. QED BY <2>3, <3>4 DEF TurnOf, Known
  <2>. QED BY <2>2, <2>3
<1>11. InTurn'
  <2>1. \A r \in Received' : r[1] \in Conns
    BY <1>0, <1>1, <1>8 DEF InTurn
  <2>. QED BY <1>0, <1>3, <1>9, <1>10, <2>1, TurnAll
<1>12. Carried'
  <2>1. PICK none, t, a : none = {} /\ t = Tail(conns[c].up) /\ a = "read"
    OBVIOUS
  <2>2. Range(t) \subseteq Range(conns[c].up) \union none
    <3>1. Piece(t, conns[c].up)
      BY <1>0, <1>2, <2>1, LinkIs, PieceTail
    <3>. QED BY <3>1, PieceRange
  <2>3. (\A x \in none : Own(x, c)') /\ Having(a, Nothing, c)
    BY <2>1 DEF Having
  <2>. QED BY <1>0, <1>2, <2>1, <2>2, <2>3, CarriedOnly
<1>. QED BY <1>8, <1>11, <1>12 DEF Lines

\* The lines of a result are stored after all others of their connection.
LEMMA InsertResultLines ==
  ASSUME Way, Lines, NEW c \in Conns, InsertResult(c)
  PROVE  Lines'
<1>0. TypeOK /\ OnTheWay /\ Carried /\ InTurn /\ OutputOnce
  BY DEF Way, Lines
<1>1. PICK i, q : i = conns[c].got.cmd /\ q = conns[c].got.lines
  OBVIOUS
<1>2. /\ TypeOK' /\ Kept /\ i \in Commands /\ commands[i].conn = c
      /\ results' = results \union {<<i, q>>}
      /\ Only(c, conns[c].down, conns[c].up, "read", Nothing, conns[c].cut, conns[c].closed)
  BY <1>0, <1>1, InsertResultIs
<1>3. UNCHANGED <<buf, db, log, console, printed>>
  BY DEF InsertResult, board, output
<1>4. Range(q) = Handled(c) /\ TurnOf(c)
  BY <1>0, <1>1, TurnIs DEF Handled
<1>5. ASSUME NEW row \in Received PROVE row[2] \notin Range(q)
  <2>1. PICK d : d = row[1]
    OBVIOUS
  <2>2. d \in Conns /\ row[2] \in Stored(d)
    BY <1>0, <2>1, StoredHas DEF InTurn
  <2>3. \A l \in Handled(c), k \in Stored(d) : k # l
    BY <1>0, <2>2, LineNew
  <2>. QED BY <1>4, <2>2, <2>3
<1>6. ASSUME NEW r \in results PROVE \A l \in Range(r[2]) : l \notin Range(q)
  <2>1. PICK d : d = commands[r[1]].conn
    OBVIOUS
  <2>2. d \in Conns /\ Range(r[2]) \subseteq Stored(d)
    BY <1>0, <2>1, StoredHas
  <2>3. \A l \in Handled(c), k \in Stored(d) : k # l
    BY <1>0, <2>2, LineNew
  <2>. QED BY <1>4, <2>2, <2>3
<1>7. OutputOnce' /\ Received' = Received
  <2>1. PICK r : r = <<i, q>>
    OBVIOUS
  <2>2. /\ \A row \in Received : row[2] \notin Range(r[2])
        /\ \A s \in results : \A l \in Range(s[2]) : l \notin Range(r[2])
    BY <1>5, <1>6, <2>1
  <2>. QED BY <1>0, <1>2, <1>3, <2>1, <2>2, OnceInserted, ReceivedSame
<1>8. Conns' = Conns /\ Newest' = Newest /\ conns'[c].up = conns[c].up /\ conns'[c].got = Nothing
  BY <1>2 DEF Only
<1>9. ASSUME NEW b \in Conns PROVE TurnOf(b)' /\ Known(b)' \subseteq Known(b)
  <2>1. Stored(b)' \subseteq Stored(b) \union (IF commands[i].conn = b THEN Range(q) ELSE {})
    BY <1>0, <1>2, <1>7, StoredResult
  <2>2. CASE b # c
    <3>1. Stored(b)' \subseteq Stored(b)
      BY <1>2, <2>1, <2>2
    <3>2. conns'[b] = conns[b]
      BY <1>2, <2>2 DEF Only, Others
    <3>. QED BY <1>0, <1>2, <1>8, <3>1, <3>2, OthersTurn
  <2>3. CASE b = c
    <3>1. Stored(c)' \subseteq Stored(c) \union Handled(c)
      BY <1>2, <1>4, <2>1, <2>3
    <3>2. Handled(c)' = {}
      <4>1. Nothing.lines = <<>>
        BY <1>0, NothingIs
      <4>. QED BY <1>8, <4>1 DEF Handled, Range
    <3>3. TurnOf(c)' /\ Known(c)' \subseteq Known(c)
      BY <1>4, <1>8, <3>1, <3>2, TurnStored
    <3>. QED BY <2>3, <3>3 DEF TurnOf, Known
  <2>. QED BY <2>2, <2>3
<1>10. InTurn'
  <2>1. \A r \in Received' : r[1] \in Conns
    BY <1>0, <1>7 DEF InTurn
  <2>. QED BY <1>0, <1>3, <1>8, <1>9, <2>1, TurnAll
<1>11. Carried'
  <2>1. PICK none, t, a : none = {} /\ t = conns[c].up /\ a = "read"
    OBVIOUS
  <2>2. Range(t) \subseteq Range(conns[c].up) \union none
    BY <2>1
  <2>3. (\A x \in none : Own(x, c)') /\ Having(a, Nothing, c)
    BY <2>1 DEF Having
  <2>. QED BY <1>0, <1>2, <2>1, <2>2, <2>3, CarriedOnly
<1>. QED BY <1>7, <1>10, <1>11 DEF Lines

\* The handler takes the lines of a result.
LEMMA ResultComesLines ==
  ASSUME Way, Lines, NEW c \in Conns, ResultComes(c)
  PROVE  Lines'
<1>0. TypeOK /\ Carried /\ InTurn /\ OutputOnce
  BY DEF Way, Lines
<1>1. PICK m : m = conns[c].up[1]
  OBVIOUS
<1>2. /\ TypeOK' /\ Kept /\ conns[c].up # <<>> /\ conns[c].at = "read" /\ m.cmd # 0
      /\ \/ Only(c, conns[c].down, Tail(conns[c].up), "read", Nothing, conns[c].cut, conns[c].closed)
         \/ Only(c, conns[c].down, Tail(conns[c].up), "complete", m, conns[c].cut, conns[c].closed)
  BY <1>0, <1>1, ResultComesIs
<1>3. UNCHANGED <<buf, db, log, results, console, printed>>
  BY DEF ResultComes, board, output
<1>4. Piece(Tail(conns[c].up), conns[c].up)
  BY <1>0, <1>2, LinkIs, PieceTail
<1>5. CASE Only(c, conns[c].down, Tail(conns[c].up), "read", Nothing, conns[c].cut, conns[c].closed)
  <2>1. PICK a, g : a = "read" /\ g = Nothing
    OBVIOUS
  <2>2. Only(c, conns[c].down, Tail(conns[c].up), a, g, conns[c].cut, conns[c].closed)
    BY <1>5, <2>1
  <2>3. IF a \in {"complete", "store"} THEN conns[c].at \in {"complete", "store"} /\ g = conns[c].got
                                       ELSE g = Nothing
    BY <2>1
  <2>. QED BY <1>0, <1>2, <1>3, <1>4, <2>1, <2>2, <2>3, LinesOnly
<1>6. CASE Only(c, conns[c].down, Tail(conns[c].up), "complete", m, conns[c].cut, conns[c].closed)
  <2>1. Received' = Received /\ OutputOnce'
    BY <1>0, <1>3, ReceivedSame, OnceSame
  <2>2. Conns' = Conns /\ Newest' = Newest /\ conns'[c].up = Tail(conns[c].up) /\ conns'[c].got = m
    BY <1>6 DEF Only
  <2>3. TurnOf(c) /\ Range(m.lines) \subseteq Coming(c)
    <3>1. TurnOf(c)
      BY <1>0, TurnIs
    <3>. QED BY <1>0, <1>1, <1>2, <3>1, FirstBelow
  <2>4. ASSUME NEW b \in Conns PROVE TurnOf(b)' /\ Known(b)' \subseteq Known(b)
    <3>1. Stored(b)' \subseteq Stored(b)
      BY <1>0, <1>2, <1>3, <2>1, StoredKept
    <3>2. CASE b # c
      <4>1. conns'[b] = conns[b]
        BY <1>6, <3>2 DEF Only, Others
      <4>. QED BY <1>0, <1>2, <2>2, <3>1, <4>1, OthersTurn
    <3>3. CASE b = c
      <4>1. Handled(c)' = Range(m.lines)
        BY <2>2 DEF Handled, Range
      <4>2. Below(Stored(c), Range(m.lines))
        BY <2>3 DEF TurnOf, Below
      <4>3. Stored(c)' \subseteq Stored(c)
        BY <3>1, <3>3
      <4>4. Below(Stored(c)', Handled(c)')
        BY <4>1, <4>2, <4>3 DEF Below
      <4>5. TurnOf(c)' /\ Known(c)' \subseteq Known(c)
        BY <1>0, <1>1, <1>2, <2>2, <2>3, <4>1, <4>3, <4>4, TurnTaken
      <4>. QED BY <3>3, <4>5 DEF TurnOf, Known
    <3>. QED BY <3>2, <3>3
  <2>5. InTurn'
    <3>1. \A r \in Received' : r[1] \in Conns
      BY <1>0, <2>1 DEF InTurn
    <3>. QED BY <1>0, <1>3, <2>2, <2>4, <3>1, TurnAll
  <2>6. Carried'
    <3>1. PICK none, t, a : none = {} /\ t = Tail(conns[c].up) /\ a = "complete"
      OBVIOUS
    <3>2. Range(t) \subseteq Range(conns[c].up) \union none
      BY <1>4, <3>1, PieceRange
    <3>3. m.cmd \in Commands /\ commands[m.cmd].conn = c
      <4>1. 1 \in DOMAIN conns[c].up /\ m.cmd \in 0..Len(commands) /\ Len(commands) \in Nat
        BY <1>0, <1>1, <1>2, FirstIs
      <4>2. Own(m, c)
        BY <1>0, <1>1, <4>1 DEF Carried
      <4>. QED BY <1>2, <4>1, <4>2 DEF Own, Commands
    <3>4. (\A x \in none : Own(x, c)') /\ Having(a, m, c)
      BY <1>2, <3>1, <3>3 DEF Having
    <3>. QED BY <1>0, <1>2, <1>6, <3>1, <3>2, <3>4, CarriedOnly
  <2>. QED BY <2>1, <2>5, <2>6 DEF Lines
<1>. QED BY <1>2, <1>5, <1>6

\* The handler keeps them while the row is completed.
LEMMA CompleteLines ==
  ASSUME Way, Lines, NEW c \in Conns, Complete(c)
  PROVE  Lines'
<1>0. TypeOK /\ Carried
  BY DEF Way, Lines
<1>1. PICK a, g : a = "store" /\ g = conns[c].got
  OBVIOUS
<1>2. /\ TypeOK' /\ Kept /\ conns[c].at = "complete"
      /\ Only(c, conns[c].down, conns[c].up, a, g, conns[c].cut, conns[c].closed)
  BY <1>0, <1>1, CompleteIs
<1>3. UNCHANGED <<buf, db, log, results, console, printed>>
  BY DEF Complete, board, output
<1>4. Piece(conns[c].up, conns[c].up)
  BY <1>0, LinkIs, PieceSame
<1>5. IF a \in {"complete", "store"} THEN conns[c].at \in {"complete", "store"} /\ g = conns[c].got
                                     ELSE g = Nothing
  BY <1>1, <1>2
<1>. QED BY <1>0, <1>1, <1>2, <1>3, <1>4, <1>5, LinesOnly

\* A handler that ends drops what it has.
LEMMA EndsLines ==
  ASSUME Way, Lines, NEW c \in Conns, Eof(c) \/ HandlerRaises(c)
  PROVE  Lines'
<1>0. TypeOK
  BY DEF Way
<1>1. PICK u, a, g : u = <<>> /\ a = "over" /\ g = Nothing
  OBVIOUS
<1>2. /\ TypeOK' /\ Kept /\ Only(c, conns[c].down, u, a, g, conns[c].cut, TRUE)
  BY <1>0, <1>1, EndsIs
<1>3. UNCHANGED <<buf, db, log, results, console, printed>>
  BY DEF Eof, HandlerRaises, board, output
<1>4. Piece(u, conns[c].up)
  BY <1>1, PieceEmpty
<1>5. IF a \in {"complete", "store"} THEN conns[c].at \in {"complete", "store"} /\ g = conns[c].got
                                     ELSE g = Nothing
  BY <1>1
<1>. QED BY <1>0, <1>1, <1>2, <1>3, <1>4, <1>5, LinesOnly

\* A handler leaves the lines in their turn.
LEMMA HandlerLines ==
  ASSUME Way, Lines, NEW c \in Conns, Handler(c) \/ HandlerRaises(c)
  PROVE  Lines'
<1>1. CASE Output(c)
  BY <1>1, OutputLines
<1>2. CASE ResultComes(c)
  BY <1>2, ResultComesLines
<1>3. CASE Complete(c)
  BY <1>3, CompleteLines
<1>4. CASE InsertResult(c)
  BY <1>4, InsertResultLines
<1>5. CASE Eof(c) \/ HandlerRaises(c)
  BY <1>5, EndsLines
<1>. QED BY <1>1, <1>2, <1>3, <1>4, <1>5 DEF Handler

\* The target's next line comes after all others.
LEMMA PrintsLines ==
  ASSUME Way, Lines, Prints
  PROVE  Lines'
<1>0. TypeOK /\ Carried /\ InTurn /\ OutputOnce
  BY DEF Way, Lines
<1>1. PICK l : l = printed + 1
  OBVIOUS
<1>2. TypeOK' /\ Kept /\ console' = Append(console, l) /\ printed' = printed + 1
  BY <1>0, <1>1, PrintsIs
<1>3. UNCHANGED <<conns, buf, db, log, results>>
  BY DEF Prints, output
<1>4. Received' = Received /\ OutputOnce' /\ Conns' = Conns /\ Newest' = Newest
  BY <1>0, <1>3, ReceivedSame, OnceSame DEF Conns, Newest
<1>5. printed \in Nat /\ console \in Seq(Nat) /\ l \in Nat
  <2>1. printed \in Nat
    BY <1>0, TypeParts, CommandBoundsAssumption DEF Limited
  <2>2. console \in Seq(1..MaxOutput) /\ MaxOutput \in Nat
    BY <1>0, ConsoleIs, CommandBoundsAssumption
  <2>3. console \in Seq(Nat)
    BY <2>2
  <2>. QED BY <1>1, <2>1, <2>3
<1>6. ASSUME NEW b \in Conns PROVE TurnOf(b)' /\ Known(b)' \subseteq Known(b)
  <2>1. Stored(b)' \subseteq Stored(b)
    BY <1>0, <1>2, <1>3, <1>4, StoredKept
  <2>. QED BY <1>0, <1>2, <1>3, <1>4, <2>1, OthersTurn
<1>7. Range(console') = Range(console) \union {l}
  BY <1>2, <1>5, AppendRange
<1>8. ASSUME NEW p \in DOMAIN console', NEW q \in DOMAIN console', p < q
      PROVE  console'[p] < console'[q]
  <2>1. /\ DOMAIN Append(console, l) = 1..(Len(console) + 1) /\ Len(console) \in Nat
        /\ DOMAIN console = 1..Len(console)
    BY <1>5, AppendRows
  <2>2. p \in DOMAIN console
    BY <1>2, <1>8, <2>1
  <2>3. console'[p] = console[p]
    BY <1>2, <1>5, <2>2, AppendRows
  <2>4. CASE q \in DOMAIN console /\ Append(console, l)[q] = console[q]
    BY <1>0, <1>2, <1>8, <2>2, <2>3, <2>4 DEF InTurn
  <2>5. CASE Append(console, l)[q] = l
    <3>1. console[p] \in 1..printed
      BY <1>0, <2>2 DEF InTurn, Range
    <3>. QED BY <1>1, <1>2, <1>5, <2>3, <2>5, <3>1
  <2>. QED BY <1>2, <1>5, <1>8, <2>4, <2>5, AppendSplit
<1>9. TurnStep({})
  <2>1. \A row \in Received' : row[1] \in Conns
    BY <1>0, <1>4 DEF InTurn
  <2>2. /\ {} \subseteq Range(console) /\ Below({}, Range(console)')
        /\ Range(console)' \subseteq Range(console) \union {printed + 1}
    BY <1>1, <1>7 DEF Below, Range
  <2>3. \A b \in Conns : /\ TurnOf(b)'
                         /\ Known(b)' \subseteq Known(b) \union (IF b = Newest THEN {} ELSE {})
    BY <1>6
  <2>. QED BY <1>2, <1>4, <1>8, <2>1, <2>2, <2>3 DEF TurnStep
<1>10. InTurn' /\ Carried'
  BY <1>0, <1>2, <1>3, <1>9, TurnStepIs, CarriedSame
<1>. QED BY <1>4, <1>10 DEF Lines

\* A new connection has no lines; the others keep theirs.
LEMMA ConnectLines ==
  ASSUME Way, Lines, Connect
  PROVE  Lines'
<1>0. TypeOK /\ OnTheWay /\ Carried /\ InTurn /\ OutputOnce
  BY DEF Way, Lines
<1>1. /\ TypeOK' /\ Kept /\ Len(conns) \in Nat \ {0} /\ Len(conns') = Len(conns) + 1
      /\ conns'[Len(conns) + 1] = Connection
      /\ \A c \in Conns :
           /\ conns'[c].up = conns[c].up /\ conns'[c].at = conns[c].at /\ conns'[c].got = conns[c].got
  BY <1>0, ConnectIs
<1>2. UNCHANGED <<commands, buf, db, log, results, console, printed>>
  BY DEF Connect, output
<1>3. Received' = Received /\ OutputOnce'
  BY <1>0, <1>2, ReceivedSame, OnceSame
<1>4. PICK new : new = Len(conns) + 1
  OBVIOUS
<1>5. Conns' = Conns \union {new} /\ new \notin Conns /\ new \in Nat /\ \A c \in Conns : c \in Nat /\ c < new
  BY <1>1, <1>4 DEF Conns
<1>6. ASSUME NEW c \in Conns
      PROVE  Stored(c)' = Stored(c) /\ Handled(c)' = Handled(c) /\ Coming(c)' = Coming(c)
  <2>1. Stored(c)' = Stored(c)
    BY <1>2, <1>3 DEF Stored, Range
  <2>. QED BY <1>1, <2>1 DEF Handled, Coming, Range
<1>7. conns'[new].up = <<>> /\ conns'[new].at = "read" /\ conns'[new].got = Nothing
  BY <1>1, <1>4 DEF Connection
<1>8. Stored(new)' = {} /\ Handled(new)' = {} /\ Coming(new)' = {}
  <2>1. Stored(new)' = {}
    <3>1. \A row \in Received' : row[1] # new
      BY <1>0, <1>3, <1>5 DEF InTurn
    <3>2. \A r \in results' : commands'[r[1]].conn # new
      BY <1>0, <1>2, <1>5, StoredHas
    <3>. QED BY <3>1, <3>2 DEF Stored
  <2>2. Handled(new)' = {}
    <3>1. Nothing.lines = <<>>
      BY <1>0, NothingIs
    <3>. QED BY <1>7, <3>1 DEF Handled, Range
  <2>3. Coming(new)' = {}
    BY <1>7 DEF Coming
  <2>. QED BY <2>1, <2>2, <2>3
<1>9. Known(new)' = {} /\ \A c \in Conns : Known(c)' = Known(c)
  BY <1>6, <1>8 DEF Known
<1>10. ASSUME NEW c \in Conns'
       PROVE  /\ Below(Stored(c)', Handled(c)') /\ Below(Stored(c)' \union Handled(c)', Coming(c)')
              /\ \A p, q \in DOMAIN conns'[c].up :
                   p < q => Below(Range(conns'[c].up[p].lines), Range(conns'[c].up[q].lines))
              /\ Below(Known(c)', Range(console)') /\ Known(c)' \subseteq 1..printed'
  <2>1. CASE c \in Conns
    <3>1. TurnOf(c) /\ Below(Known(c), Range(console)) /\ Known(c) \subseteq 1..printed
      BY <1>0, <2>1, TurnIs
    <3>2. conns'[c].up = conns[c].up /\ Range(console)' = Range(console) /\ printed' = printed
      BY <1>1, <1>2, <2>1 DEF Range
    <3>3. \A p, q \in DOMAIN conns'[c].up :
            p < q => Below(Range(conns'[c].up[p].lines), Range(conns'[c].up[q].lines))
      BY <3>1, <3>2 DEF TurnOf
    <3>. QED BY <1>6, <1>9, <2>1, <3>1, <3>2, <3>3 DEF TurnOf
  <2>2. CASE c = new
    <3>1. \A p, q \in DOMAIN conns'[c].up :
            p < q => Below(Range(conns'[c].up[p].lines), Range(conns'[c].up[q].lines))
      BY <1>7, <2>2
    <3>2. Stored(c)' = {} /\ Handled(c)' = {} /\ Known(c)' = {}
      BY <1>8, <1>9, <2>2 DEF Stored, Handled, Known, Coming
    <3>. QED BY <3>1, <3>2 DEF Below
  <2>. QED BY <1>5, <2>1, <2>2
<1>11. ASSUME NEW c \in Conns', NEW d \in Conns', c < d PROVE Below(Known(c)', Known(d)')
  <2>1. c \in Conns
    BY <1>5, <1>11
  <2>2. CASE d \in Conns
    BY <1>0, <1>9, <1>11, <2>1, <2>2 DEF InTurn
  <2>3. CASE d = new
    <3>1. Known(d)' = {}
      BY <1>9, <2>3 DEF Known, Stored, Handled, Coming
    <3>. QED BY <3>1 DEF Below
  <2>. QED BY <1>5, <2>2, <2>3
<1>12. InTurn'
  <2>1. \A row \in Received' : row[1] \in Conns'
    BY <1>0, <1>3, <1>5 DEF InTurn
  <2>2. /\ Range(console)' \subseteq 1..printed'
        /\ \A p, q \in DOMAIN console' : p < q => console'[p] < console'[q]
    BY <1>0, <1>2 DEF InTurn, Range
  <2>3. \A c \in Conns' :
          /\ Below(Stored(c), Handled(c))' /\ Below(Stored(c) \union Handled(c), Coming(c))'
          /\ \A p, q \in DOMAIN conns'[c].up :
               p < q => Below(Range(conns[c].up[p].lines), Range(conns[c].up[q].lines))'
          /\ Below(Known(c), Range(console))' /\ (Known(c) \subseteq 1..printed)'
    BY <1>10 DEF Below, Range
  <2>4. \A c, d \in Conns' : c < d => Below(Known(c), Known(d))'
    BY <1>11 DEF Below
  <2>. QED BY <2>1, <2>2, <2>3, <2>4 DEF InTurn
<1>13. Carried'
  <2>1. ASSUME NEW c \in Conns'
        PROVE  /\ \A p \in DOMAIN conns'[c].up : Own(conns[c].up[p], c)'
               /\ IF conns'[c].at \in {"complete", "store"}
                  THEN conns'[c].got.cmd # 0 /\ commands'[conns'[c].got.cmd].conn = c
                  ELSE conns'[c].got = Nothing
    <3>1. CASE c \in Conns
      <4>1. \A p \in DOMAIN conns[c].up : Own(conns[c].up[p], c)
        BY <1>0, <3>1 DEF Carried
      <4>2. \A p \in DOMAIN conns'[c].up : Own(conns[c].up[p], c)'
        BY <1>1, <1>2, <3>1, <4>1 DEF Own
      <4>. QED BY <1>0, <1>1, <1>2, <3>1, <4>2 DEF Carried
    <3>2. CASE c = new
      BY <1>7, <3>2
    <3>. QED BY <1>5, <3>1, <3>2
  <2>. QED BY <2>1 DEF Carried, Own, Nothing, Result
<1>. QED BY <1>3, <1>12, <1>13 DEF Lines
-----------------------------------------------------------------------------
(* The invariant.                                                          *)

\* A listing waits for what it waited for: only steps of the log change that.
LEMMA RequestedKept == ASSUME Requested, UNCHANGED output PROVE Requested'
<1>1. UNCHANGED <<db, log, request, need, lost>>
  BY DEF output
<1>. QED BY <1>1 DEF Requested, InFront, Range

\* The invariant is its parts.
LEMMA InvariantParts == PathInvariant <=> Truth /\ Lines /\ Requested
BY DEF PathInvariant, Truth, Way, Lines

LEMMA InvariantPartsNext ==
  Way' /\ OkMeansDone' /\ Deferred' /\ Lines' /\ Requested' => PathInvariant'
BY DEF PathInvariant, Way, Lines

\* Nothing has been dispatched, printed or stored, and there is one connection.
LEMMA InitIs == Init => PathInvariant
<1>1. SUFFICES ASSUME Init PROVE PathInvariant
  OBVIOUS
<1>2. /\ commands = <<>> /\ conns = <<Connection>> /\ entry = 1 /\ on = TRUE /\ tx = <<>>
      /\ pending = 0 /\ console = <<>> /\ target = [i \in 1..MaxCommands |-> 0]
      /\ buf = <<>> /\ db = <<>> /\ log = <<>> /\ results = {} /\ request = <<>> /\ need = {}
      /\ printed = 0 /\ faults = 0 /\ lost = {}
  BY <1>1 DEF Init
<1>3. Commands = {} /\ Conns = {1} /\ Newest = 1 /\ conns[1] = Connection
  BY <1>2 DEF Commands, Conns, Newest
<1>4. /\ conns[1].down = <<>> /\ conns[1].up = <<>> /\ conns[1].at = "read"
      /\ conns[1].got = Nothing /\ conns[1].cut = FALSE /\ conns[1].closed = FALSE
  BY <1>3 DEF Connection
<1>5. Nothing.cmd = 0 /\ Nothing.lines = <<>> /\ Nothing.ok = TRUE
  BY DEF Nothing, Result
<1>6. TypeOK
  <2>1. Dispatched
    BY <1>2, CommandBoundsAssumption DEF Dispatched
  <2>2. Linked
    <3>1. <<>> \in Seq(Commands) /\ <<>> \in Seq(Message) /\ <<>> \in Seq(1..MaxOutput)
      OBVIOUS
    <3>2. Nothing \in Message
      BY <1>2, <3>1 DEF Nothing, Message, Result
    <3>3. Connection \in Connections
      BY <3>1, <3>2 DEF Connection, Connections
    <3>4. conns \in Seq(Connections) /\ Len(conns) = 1
      BY <1>2, <3>3
    <3>. QED BY <1>2, <3>4, CommandBoundsAssumption DEF Linked
  <2>3. Boarded
    <3>1. <<>> \in Seq(Commands) /\ <<>> \in Seq(1..MaxOutput)
      OBVIOUS
    <3>. QED BY <1>2, <3>1 DEF Boarded
  <2>4. Logged
    <3>1. /\ <<>> \in Seq(Rows) /\ <<>> \in Seq({"flush", "start", "list"})
          /\ <<>> \in Seq([by : {"flusher", "flush", "start", "list"}, rows : Seq(Rows)])
      OBVIOUS
    <3>. QED BY <1>2, <3>1 DEF Logged
  <2>5. Resulted /\ Limited
    BY <1>2, CommandBoundsAssumption DEF Resulted, Limited
  <2>. QED BY <2>1, <2>2, <2>3, <2>4, <2>5, TypeParts
<1>7. Queued
  BY <1>2 DEF Queued
<1>8. OnTheWay
  BY <1>2, <1>3, <1>4 DEF OnTheWay
<1>9. OkMeansDone /\ Deferred
  BY <1>3, <1>4, <1>5 DEF OkMeansDone, Deferred, Earned
<1>10. Received = {}
  BY <1>2 DEF Received, Range
<1>11. Carried
  BY <1>3, <1>4 DEF Carried
<1>12. InTurn
  <2>1. Stored(1) = {}
    BY <1>2, <1>10 DEF Stored
  <2>2. Handled(1) = {} /\ Coming(1) = {}
    BY <1>4, <1>5 DEF Handled, Coming, Range
  <2>3. Known(1) = {} /\ Range(console) = {}
    BY <1>2, <2>1, <2>2 DEF Known, Range
  <2>4. \A c \in Conns :
          /\ Below(Stored(c), Handled(c)) /\ Below(Stored(c) \union Handled(c), Coming(c))
          /\ \A p, q \in DOMAIN conns[c].up :
               p < q => Below(Range(conns[c].up[p].lines), Range(conns[c].up[q].lines))
          /\ Below(Known(c), Range(console)) /\ Known(c) \subseteq 1..printed
    BY <1>3, <1>4, <2>1, <2>2, <2>3 DEF Below
  <2>5. \A c, d \in Conns : c < d => Below(Known(c), Known(d))
    BY <1>3
  <2>6. Range(console) \subseteq 1..printed /\ \A p, q \in DOMAIN console : p < q => console[p] < console[q]
    BY <1>2, <2>3
  <2>. QED BY <1>10, <2>4, <2>5, <2>6 DEF InTurn
<1>13. OutputOnce
  <2>1. \A j \in Parts : Part(j) = <<>>
    BY <1>2 DEF Part, Parts
  <2>2. Ordered
    BY <2>1 DEF Ordered, Rises, Before
  <2>3. Apart
    BY <1>2 DEF Apart
  <2>. QED BY <2>2, <2>3, OnceParts
<1>14. Requested
  BY <1>2 DEF Requested, Plans
<1>. QED BY <1>6, <1>7, <1>8, <1>9, <1>11, <1>12, <1>13, <1>14 DEF PathInvariant

\* A step of the log preserves it.
LEMMA LogPath ==
  ASSUME PathInvariant, LogStep, UNCHANGED <<commands, conns, console, results, printed, target, tx>>
  PROVE  PathInvariant'
<1>1. Way /\ Truth /\ Lines
  BY InvariantParts DEF Truth
<1>2. TypeOK' /\ Kept /\ Requested'
  BY DEF LogStep
<1>3. Way'
  BY <1>1, LogWay
<1>4. Lines'
  BY <1>1, LogLines
<1>5. OkMeansDone' /\ Deferred'
  BY <1>1, <1>2, SameTruth
<1>. QED BY <1>2, <1>3, <1>4, <1>5, InvariantPartsNext

\* Every step preserves the invariant.
LEMMA StepIs == PathInvariant /\ [Next]_vars => PathInvariant'
<1>0. SUFFICES ASSUME PathInvariant, [Next]_vars PROVE PathInvariant'
  OBVIOUS
<1>1. /\ Way /\ Truth /\ Lines /\ Requested
      /\ TypeOK /\ OutputOnce /\ Carried
  BY <1>0, InvariantParts DEF Truth, Way, Lines
<1>2. CASE UNCHANGED output /\ Way' /\ OkMeansDone' /\ Deferred' /\ Lines'
  BY <1>1, <1>2, RequestedKept, InvariantPartsNext
<1>3. ASSUME NEW kind \in Kinds, Dispatch(kind) PROVE PathInvariant'
  <2>1. UNCHANGED output
    BY <1>3 DEF Dispatch
  <2>. QED BY <1>1, <1>2, <1>3, <2>1, DispatchWay, OpenTruth, OpenLines
<1>4. CASE BridgeSend
  <2>1. UNCHANGED output
    BY <1>4 DEF BridgeSend
  <2>. QED BY <1>1, <1>2, <1>4, <2>1, BridgeSendWay, OpenTruth, BridgeLines
<1>5. ASSUME NEW i \in Commands, Send(i) PROVE PathInvariant'
  <2>1. UNCHANGED output
    BY <1>5 DEF Send
  <2>. QED BY <1>1, <1>2, <1>5, <2>1, SendWay, SendTruth, SendLines
<1>6. ASSUME NEW i \in Commands, SendFails(i) PROVE PathInvariant'
  <2>1. UNCHANGED output
    BY <1>6 DEF SendFails
  <2>. QED BY <1>1, <1>2, <1>6, <2>1, SendFailsWay, SendTruth, SendLines
<1>7. ASSUME NEW c \in Conns, Handler(c) \/ HandlerRaises(c) PROVE PathInvariant'
  <2>1. Way' /\ OkMeansDone' /\ Deferred' /\ Lines'
    BY <1>1, <1>7, HandlerWay, HandlerTruth, HandlerLines
  <2>2. Requested'
    <3>1. UNCHANGED <<db, log, request, need, lost>>
      BY <1>7 DEF Handler, Output, ResultComes, Complete, InsertResult, Eof, HandlerRaises, output
    <3>. QED BY <1>1, <3>1 DEF Requested, InFront, Range
  <2>. QED BY <2>1, <2>2, InvariantPartsNext
<1>8. CASE Carry
  <2>1. UNCHANGED output
    BY <1>8 DEF Carry
  <2>. QED BY <1>1, <1>2, <1>8, <2>1, CarryWay, CarryTruth, CarryLines
<1>9. ASSUME NEW n \in Nat, Pass(n) PROVE PathInvariant'
  <2>1. UNCHANGED output
    BY <1>9 DEF Pass
  <2>. QED BY <1>1, <1>2, <1>9, <2>1, PassWay, PassTruth, PassLines
<1>10. CASE WriteFails
  <2>1. UNCHANGED output
    BY <1>10 DEF WriteFails
  <2>. QED BY <1>1, <1>2, <1>10, <2>1, WriteFailsWay, WriteFailsTruth, WriteFailsLines
<1>11. CASE Leave
  <2>1. UNCHANGED output
    BY <1>11 DEF Leave
  <2>. QED BY <1>1, <1>2, <1>11, <2>1, LinkWay, LinkTruth, LinkLines
<1>12. CASE Cut
  <2>1. UNCHANGED output
    BY <1>12, Zenon DEF Cut
  <2>. QED BY <1>1, <1>2, <1>12, <2>1, LinkWay, LinkTruth, LinkLines
<1>13. CASE Connect
  <2>1. UNCHANGED output
    BY <1>13 DEF Connect
  <2>. QED BY <1>1, <1>2, <1>13, <2>1, ConnectWay, LinkTruth, ConnectLines
<1>14. CASE Prints
  <2>1. UNCHANGED <<output, commands, conns, target>>
    BY <1>14 DEF Prints
  <2>2. TypeOK' /\ Kept
    BY <1>1, <1>14, PrintsIs
  <2>3. OkMeansDone' /\ Deferred'
    BY <1>1, <2>1, <2>2, SameTruth
  <2>. QED BY <1>1, <1>2, <1>14, <2>1, <2>3, PrintsWay, PrintsLines
<1>15. CASE Flush
  BY <1>0, <1>1, <1>15, FlushIs, LogPath
<1>16. ASSUME NEW steps \in {<<"list">>, <<"start", "list">>}, Begins(steps) PROVE PathInvariant'
  BY <1>0, <1>1, <1>16, BeginsIs, LogPath
<1>17. CASE Inserted \/ InsertRaises \/ Listed
  BY <1>0, <1>1, <1>17, DoneIs, LogPath
<1>18. CASE UNCHANGED vars
  <2>1. UNCHANGED <<output, commands, conns, target>>
    BY <1>18 DEF vars, output
  <2>2. Way' /\ Lines'
    BY <1>1, <1>18, StillWay, StillLines
  <2>3. TypeOK' /\ Kept
    BY <2>1, <2>2 DEF Way, Kept, Commands
  <2>4. OkMeansDone' /\ Deferred'
    BY <1>1, <2>1, <2>3, SameTruth
  <2>. QED BY <1>2, <2>1, <2>2, <2>4
<1>19. CASE NodeOutput \/ OutputSearch \/ NodeOutputDownload \/ SessionCast
  <2>1. CASE Begins(<<"list">>)
    BY <1>16, <2>1
  <2>2. CASE Begins(<<"start", "list">>)
    BY <1>16, <2>2
  <2>. QED BY <1>19, <2>1, <2>2 DEF NodeOutput, OutputSearch, NodeOutputDownload, SessionCast
<1>20. CASE Dispatches
  BY <1>5, <1>6, <1>20 DEF Dispatches
<1>21. CASE Pass(0) \/ Writes
  <2>1. 1..Budget \subseteq Nat /\ 0 \in Nat
    OBVIOUS
  <2>. QED BY <1>9, <1>21, <2>1 DEF Writes
<1>. QED BY <1>0, <1>3, <1>4, <1>7, <1>8, <1>10, <1>11, <1>12, <1>13, <1>14, <1>15, <1>17,
            <1>18, <1>19, <1>20, <1>21 DEF Next, Database

\* At every reachable state of the path: a queue holds what the target does not have, a
\* command is on one way once, an "ok" is earned, and lines are in their turn.
THEOREM PathInvariantHolds == Spec => []PathInvariant
BY InitIs, StepIs, PTL DEF Spec

\* The variables have their types, and BackChannel._tx_pending is what the queue holds,
\* after partial writes, refusals, errors and reconnections (backchannel.py).
THEOREM TypeCorrect == Spec => []TypeOK
<1>1. PathInvariant => TypeOK
  BY DEF PathInvariant
<1>. QED BY <1>1, PathInvariantHolds, PTL

\* A row is done only when the target has had all of the command, and never more
\* (Hub.dispatch_command and handle_message, BackChannel.drain_tx).
THEOREM OkMeansDoneHolds == Spec => []OkMeansDone
<1>1. PathInvariant => OkMeansDone
  BY DEF PathInvariant
<1>. QED BY <1>1, PathInvariantHolds, PTL

\* A line of the console is stored once at most, and lines of a connection in order
\* (BackChannel.poll_output and read_all, Database.flush_output).
THEOREM OutputOnceHolds == Spec => []OutputOnce
<1>1. PathInvariant => OutputOnce
  BY DEF PathInvariant
<1>. QED BY <1>1, PathInvariantHolds, PTL

\* A listing finds all output that the hub had when it was asked for, unless an
\* insertion raised (node_output, output_search, node_output_download, session_cast).
THEOREM BackfillCompleteHolds == Spec => []BackfillComplete
<1>1. PathInvariant => BackfillComplete
  <2>1. SUFFICES ASSUME PathInvariant, db # <<>>, Head(db).by \in {"start", "list"}
                 PROVE  need \subseteq Range(log) \union lost
    BY DEF BackfillComplete
  <2>2. Logged /\ Requested
    BY <2>1, TypeParts DEF PathInvariant
  <2>3. 1 \in DOMAIN db /\ Head(db) = db[1]
    <3>1. db \in Seq(Request)
      BY <2>2 DEF Logged, Request
    <3>. QED BY <2>1, <3>1
  <2>4. db[1].rows = <<>> /\ need \subseteq Range(log) \union lost \union InFront(1)
    BY <2>1, <2>2, <2>3 DEF Requested
  <2>5. InFront(1) = {}
    <3>1. \A k \in 1..1 : k = 1
      OBVIOUS
    <3>. QED BY <2>4, <3>1 DEF InFront, Range
  <2>. QED BY <2>4, <2>5
<1>. QED BY <1>1, PathInvariantHolds, PTL
=============================================================================
