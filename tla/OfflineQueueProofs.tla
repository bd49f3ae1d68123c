------------------------- MODULE OfflineQueueProofs -------------------------
(***************************************************************************)
(* For any number of rows, connections and faults, and any rows of unknown *)
(* types: the types, the order in which rows are sent, how often each one  *)
(* is, and that a row only leaves the pending state for a reason.          *)
(*                                                                         *)
(* The argument is that one drain at a time is past its lock (OneHolder),  *)
(* and that its batch is closed downwards: no pending row below a row of   *)
(* the batch is outside it (NoneSkipped).  From these, SentInOrder: once a *)
(* row was sent, no older row can be any more.  SentOnce counts the sends  *)
(* a row may have had, by where it stands.                                 *)
(*                                                                         *)
(* That nothing is stranded is Coverage: while the node is served, someone *)
(* is still to send each pending row, whatever is interleaved.             *)
(***************************************************************************)
EXTENDS OfflineQueue, TLAPS, WellFoundedInduction

Faults == crashes + dbErrors

\* k has read its rows and has not given up on them
Active(k) == at[k] \in {"expire", "next", "send", "mark"}

\* Only the holder of the lock is past it.
OneHolder == \A k \in Drainers : at[k] # "idle" => HasLock(k)

\* Ids are handed out in order, and rows get nowhere before they are inserted.
Inserted ==
  /\ \A i, j \in Rows : i < j /\ status[j] # "none" => status[i] # "none"
  /\ \A i \in late : status[i] # "none"
  /\ \A k \in Drainers : cutoff[k] \subseteq late
  /\ \A k \in Drainers : Active(k) => \A i \in batch[k] : status[i] # "none"

\* Below a row of a batch there is no pending row outside it, but for those the
\* drain is about to expire.
NoneSkipped ==
  \A k \in Drainers : Active(k) =>
    \A j \in batch[k], i \in Rows : i < j /\ status[i] = "pending" =>
       i \in batch[k] \/ (at[k] = "expire" /\ i \in cutoff[k])

\* Once a row was sent, every older one is done with.
SentInOrder ==
  \A i, j \in Rows : i < j /\ sends[j] > 0 =>
     /\ status[i] \notin {"none", "pending"}
     /\ \A k \in Drainers : Active(k) => i \notin batch[k]

\* i was sent by a drain that has not marked it yet
Unmarked(i) == \E k \in Drainers : at[k] = "mark" /\ i = First(batch[k])

\* A row that may be sent again was sent at most once per fault, the others at
\* most once more.
SentOnce ==
  \A i \in Rows :
    /\ sends[i] <= 1 + Faults
    /\ status[i] \in {"none", "pending"} /\ ~Unmarked(i) => sends[i] <= Faults
    /\ \A k \in Drainers : Active(k) /\ i \in batch[k] /\ ~Unmarked(i) => sends[i] <= Faults

\* A row is marked only after it was sent.
MarkedSent == \A i \in Rows : Unmarked(i) => sends[i] > 0

Invariant ==
  /\ TypeOK /\ OneHolder /\ Inserted /\ NoneSkipped /\ SentInOrder /\ SentOnce
  /\ MarkedSent /\ NothingLost

\* k waits in the queue q; nobody waits twice.
In(k, q) == \E p \in 1..Len(q) : q[p] = k
Once(q) == \A p, r \in 1..Len(q) : q[p] = q[r] => p = r

\* Who is in the lock's queue; and who can hold the node id.
Lined ==
  /\ Once(lock)
  /\ \A c \in Conns : In(HelloDrain(c), lock) <=> handler[c] = "draining"
  /\ \A i \in Rows : In(EnqueueDrain(i), lock) <=> enq[i] = "draining"
  /\ \A c \in Conns : registered = c => handler[c] \in {"added", "draining", "loop"}
  /\ \A c \in Conns : peer[c] = "idle" => handler[c] = "none"
  /\ \A i \in Rows : status[i] = "none" => enq[i] = "none"

\* k will read the table, or has read i and not given up.
Comes(k) == In(k, lock) /\ at[k] \in {"idle", "take"}
Has(k, i) == Active(k) /\ (i \in batch[k] \/ (at[k] = "expire" /\ i \in cutoff[k]))

Served(c) == registered = c /\ peer[c] = "up"

\* A frame for another connection than the one that serves the node by now: that one's
\* hello drain is still to come.
Retaken ==
  \A k \in Drainers, c \in Conns : at[k] = "send" /\ Served(c) =>
    \/ target[k] = c \/ handler[c] = "added"
    \/ In(HelloDrain(c), lock) /\ at[HelloDrain(c)] = "idle"

\* While the node is served, somebody will send each pending row.
Covered ==
  dbErrors = 0 =>
    \A c \in Conns, i \in Pending : Served(c) =>
      \/ handler[c] = "added" \/ enq[i] = "inserted"
      \/ \E k \in Drainers : Comes(k) \/ Has(k, i)

Coverage == Lined /\ Retaken /\ Covered

-----------------------------------------------------------------------------
(* The first row of a batch.                                               *)

Less == {p \in Nat \X Nat : p[1] < p[2]}

\* The order of the numbers is well founded, by the library.
LEMMA LessWellFounded == IsWellFoundedOn(Less, Nat)
<1>1. OpToRel(<, Nat) = Less
  BY Zenon DEF OpToRel, Less
<1>. QED BY <1>1, NatLessThanWellFounded, Zenon

\* A set of rows that is not empty has a first one.
LEMMA FirstFacts ==
  ASSUME NEW S \in SUBSET Rows, S # {}
  PROVE  First(S) \in S /\ \A j \in S : First(S) <= j
<1>1. S \subseteq Nat
  BY BoundsAssumption DEF Rows
<1>2. PICK i \in S : \A j \in S : ~ (<<j, i>> \in Less)
  BY <1>1, WFMin, LessWellFounded
<1>3. \A j, k \in Nat : j < k => <<j, k>> \in Less
  BY DEF Less
<1>4. \A j \in S : ~(j < i)
  BY <1>1, <1>2, <1>3, Zenon
<1>5. \A j \in S : i <= j
  BY <1>1, <1>4
<1>. QED BY <1>5 DEF First

-----------------------------------------------------------------------------
(* The start, and the steps outside a drain.                               *)

\* The invariant holds at the start.
LEMMA InitInvariant == Init => Invariant
<1>. SUFFICES ASSUME Init PROVE Invariant
  OBVIOUS
<1>1. TypeOK
  BY BoundsAssumption DEF Init, TypeOK, Offline
<1>2. OneHolder /\ NoneSkipped
  BY DEF Init, OneHolder, NoneSkipped, Active
<1>3. Inserted
  BY DEF Init, Inserted, Active
<1>4. SentInOrder
  BY DEF Init, SentInOrder
<1>5. SentOnce /\ MarkedSent
  <2>1. \A i \in Rows : ~Unmarked(i) /\ sends[i] = 0
    BY DEF Init, Unmarked
  <2>2. Faults = 0
    BY DEF Init, Faults
  <2>. QED BY <2>1, <2>2 DEF SentOnce, MarkedSent
<1>6. NothingLost
  BY DEF Init, NothingLost
<1>. QED BY <1>1, <1>2, <1>3, <1>4, <1>5, <1>6 DEF Invariant

\* Steps that touch neither the rows nor the drains, and leave the holder of the
\* lock in place.
LEMMA QuietPreserves ==
  ASSUME Invariant, TypeOK',
         UNCHANGED <<status, late, drains, crashes, dbErrors, sends>>,
         \A k \in Drainers : HasLock(k) => HasLock(k)'
  PROVE  Invariant'
<1>1. OneHolder'
  BY DEF Invariant, OneHolder, drains
<1>2. Inserted' /\ NoneSkipped' /\ SentInOrder' /\ NothingLost'
  BY DEF Invariant, Inserted, NoneSkipped, SentInOrder, NothingLost, Active, drains
<1>3. (\A i \in Rows : Unmarked(i)' = Unmarked(i)) /\ Faults' = Faults
  BY DEF Unmarked, Faults, drains
<1>4. SentOnce' /\ MarkedSent'
  BY <1>3 DEF Invariant, SentOnce, MarkedSent, Active, drains
<1>. QED BY <1>1, <1>2, <1>4 DEF Invariant

\* A request that goes on to drain the queue, or does not.
LEMMA EnqueueReturnsPreserves ==
  ASSUME Invariant, NEW i \in Rows, EnqueueReturns(i)
  PROVE  Invariant'
<1>1. UNCHANGED <<status, late, node, drains, crashes, dbErrors, sends>>
  BY DEF EnqueueReturns
<1>2. lock \in Seq(Drainers) /\ EnqueueDrain(i) \in Drainers
  BY DEF Invariant, TypeOK, Drainers
<1>3. lock' \in Seq(Drainers) /\ \A k \in Drainers : HasLock(k) => HasLock(k)'
  BY <1>2 DEF EnqueueReturns, HasLock
<1>4. enq' \in [Rows -> {"none", "inserted", "draining", "done"}]
  BY DEF EnqueueReturns, Invariant, TypeOK
<1>5. TypeOK'
  BY <1>1, <1>3, <1>4 DEF Invariant, TypeOK, drains, node
<1>. QED BY <1>1, <1>3, <1>5, QuietPreserves

\* The connections.
LEMMA ConnectionPreserves ==
  ASSUME Invariant, NEW c \in Conns,
         Dial(c) \/ Leave(c) \/ Register(c) \/ Welcome(c) \/ SweepOffline(c) \/ Eof(c)
  PROVE  Invariant'
<1>1. /\ UNCHANGED <<status, late, enq, drains, crashes, dbErrors, sends>>
      /\ lock' = lock \/ lock' = Append(lock, HelloDrain(c))
  BY DEF Dial, Leave, Register, Welcome, SweepOffline, Eof
<1>2. lock \in Seq(Drainers) /\ HelloDrain(c) \in Drainers
  BY DEF Invariant, TypeOK, Drainers
<1>3. lock' \in Seq(Drainers) /\ \A k \in Drainers : HasLock(k) => HasLock(k)'
  BY <1>1, <1>2 DEF HasLock
<1>4. peer' \in [Conns -> {"idle", "up", "left"}]
  BY DEF Dial, Leave, Register, Welcome, SweepOffline, Eof, Invariant, TypeOK
<1>5. handler' \in [Conns -> {"none", "hello", "added", "draining", "loop", "done"}]
  <2>1. \/ handler' = handler
        \/ \E h \in {"hello", "added", "draining", "done"} :
             handler' = [handler EXCEPT ![c] = h]
    BY DEF Dial, Leave, Register, Welcome, SweepOffline, Eof
  <2>. QED BY <2>1 DEF Invariant, TypeOK
<1>6. registered' \in Conns \union {Offline}
  <2>1. registered' \in {registered, c, Offline}
    BY DEF Dial, Leave, Register, Welcome, SweepOffline, Eof
  <2>. QED BY <2>1 DEF Invariant, TypeOK
<1>7. TypeOK'
  <2>1. UNCHANGED <<status, late, enq, at, cutoff, batch, target, crashes, dbErrors, sends>>
    BY <1>1 DEF drains
  <2>. QED BY <1>3, <1>4, <1>5, <1>6, <2>1 DEF Invariant, TypeOK
<1>. QED BY <1>1, <1>3, <1>7, QuietPreserves

\* A new row: nothing after it was inserted or sent.
LEMMA EnqueuePreserves ==
  ASSUME Invariant, NEW i \in Rows, Enqueue(i)
  PROVE  Invariant'
<1>1. /\ status[i] = "none" /\ \A j \in Rows : j < i => status[j] # "none"
      /\ \A j \in Rows : status'[j] = IF j = i THEN "pending" ELSE status[j]
      /\ UNCHANGED <<late, node, lock, drains, crashes, dbErrors, sends>>
  BY DEF Enqueue, Invariant, TypeOK
<1>2. TypeOK'
  BY <1>1 DEF Enqueue, Invariant, TypeOK, node, drains
<1>3. OneHolder'
  BY <1>1 DEF Invariant, OneHolder, HasLock, drains
<1>4. Inserted'
  BY <1>1 DEF Invariant, TypeOK, Inserted, Active, drains
<1>5. NoneSkipped'
  BY <1>1 DEF Invariant, TypeOK, Inserted, NoneSkipped, Active, drains
<1>6. SentInOrder'
  BY <1>1 DEF Invariant, SentInOrder, Active, drains
<1>7. (\A j \in Rows : Unmarked(j)' = Unmarked(j)) /\ Faults' = Faults
  BY <1>1 DEF Unmarked, Faults, drains
<1>8. SentOnce' /\ MarkedSent'
  BY <1>1, <1>7 DEF Invariant, SentOnce, MarkedSent, Active, drains
<1>9. NothingLost'
  BY <1>1 DEF Invariant, NothingLost
<1>. QED BY <1>2, <1>3, <1>4, <1>5, <1>6, <1>8, <1>9 DEF Invariant

\* A cancelled row, and one whose time is over.
LEMMA CancelPreserves ==
  ASSUME Invariant, NEW i \in Rows, CancelQueued(i) \/ Lapse(i)
  PROVE  Invariant'
<1>1. /\ status[i] = "pending"
      /\ \A j \in Rows : status'[j] = status[j] \/ (j = i /\ status'[j] = "cancelled")
      /\ late' = late \/ late' = late \union {i}
      /\ UNCHANGED <<node, lock, drains, crashes, dbErrors, sends>>
  BY DEF CancelQueued, Lapse, Invariant, TypeOK
<1>2. TypeOK'
  BY <1>1 DEF CancelQueued, Lapse, Invariant, TypeOK, node, drains
<1>3. OneHolder'
  BY <1>1 DEF Invariant, OneHolder, HasLock, drains
<1>4. Inserted' /\ NoneSkipped' /\ SentInOrder'
  BY <1>1 DEF Invariant, TypeOK, Inserted, NoneSkipped, SentInOrder, Active, drains
<1>5. (\A j \in Rows : Unmarked(j)' = Unmarked(j)) /\ Faults' = Faults
  BY <1>1 DEF Unmarked, Faults, drains
<1>6. SentOnce' /\ MarkedSent'
  BY <1>1, <1>5 DEF Invariant, SentOnce, MarkedSent, Active, drains
<1>7. NothingLost'
  BY <1>1 DEF Invariant, NothingLost
<1>. QED BY <1>2, <1>3, <1>4, <1>6, <1>7 DEF Invariant

\* A crash leaves no drain behind, and is a fault more.
LEMMA CrashPreserves ==
  ASSUME Invariant, Crash
  PROVE  Invariant'
<1>1. /\ \A k \in Drainers : at'[k] = "idle" /\ cutoff'[k] = {}
      /\ UNCHANGED <<status, late, sends>>
  BY DEF Crash
<1>2. TypeOK'
  <2>1. /\ peer' \in [Conns -> {"idle", "up", "left"}]
        /\ handler' \in [Conns -> {"none", "hello", "added", "draining", "loop", "done"}]
        /\ enq' \in [Rows -> {"none", "inserted", "draining", "done"}]
    BY DEF Crash, Invariant, TypeOK
  <2>2. registered' = Offline /\ lock' \in Seq(Drainers)
    BY DEF Crash
  <2>3. /\ at' \in [Drainers -> {"idle", "take", "expire", "next", "send", "mark", "stop"}]
        /\ cutoff' \in [Drainers -> SUBSET Rows] /\ batch' \in [Drainers -> SUBSET Rows]
        /\ target' \in [Drainers -> Conns \union {Offline}]
    BY DEF Crash
  <2>4. crashes' \in Nat /\ dbErrors' \in Nat /\ crashes' + dbErrors' <= MaxFaults
    BY BoundsAssumption DEF Crash, Invariant, TypeOK
  <2>. QED BY <1>1, <2>1, <2>2, <2>3, <2>4 DEF Invariant, TypeOK
<1>3. OneHolder' /\ NoneSkipped'
  BY <1>1 DEF OneHolder, NoneSkipped, Active
<1>4. Inserted' /\ SentInOrder' /\ NothingLost'
  BY <1>1 DEF Invariant, Inserted, SentInOrder, NothingLost, Active
<1>5. /\ \A j \in Rows : ~Unmarked(j)' /\ sends[j] \in Nat
      /\ Faults \in Nat /\ Faults' = Faults + 1
  BY <1>1 DEF Unmarked, Faults, Crash, Invariant, TypeOK
<1>6. SentOnce' /\ MarkedSent'
  BY <1>1, <1>5 DEF Invariant, SentOnce, MarkedSent, Active
<1>. QED BY <1>2, <1>3, <1>4, <1>6 DEF Invariant

-----------------------------------------------------------------------------
(* The steps of a drain.                                                   *)

\* While k is past the lock no other drain is, and only its first row can have
\* been sent and not yet marked.
LEMMA Alone ==
  ASSUME Invariant, NEW k \in Drainers, at[k] # "idle"
  PROVE  /\ HasLock(k)
         /\ \A k2 \in Drainers : k2 # k => at[k2] = "idle" /\ ~Active(k2)
         /\ \A i \in Rows : Unmarked(i) <=> at[k] = "mark" /\ i = First(batch[k])
<1>1. HasLock(k) /\ \A k2 \in Drainers : k2 # k => at[k2] = "idle"
  BY DEF Invariant, OneHolder, HasLock
<1>2. \A k2 \in Drainers : k2 # k => ~Active(k2)
  BY <1>1 DEF Active
<1>3. \A i \in Rows : Unmarked(i) <=> at[k] = "mark" /\ i = First(batch[k])
  BY <1>1 DEF Unmarked
<1>. QED BY <1>1, <1>2, <1>3

\* Begin: only the holder of the lock starts.
LEMMA BeginPreserves ==
  ASSUME Invariant, NEW k \in Drainers, Begin(k)
  PROVE  Invariant'
<1>1. /\ HasLock(k) /\ at[k] = "idle"
      /\ \A k2 \in Drainers : at'[k2] = IF k2 = k THEN "take" ELSE at[k2]
      /\ \A k2 \in Drainers : cutoff'[k2] = IF k2 = k THEN late ELSE cutoff[k2]
      /\ UNCHANGED <<status, late, node, enq, lock, batch, target, crashes, dbErrors, sends>>
  BY DEF Begin, Invariant, TypeOK
<1>2. /\ at' \in [Drainers -> {"idle", "take", "expire", "next", "send", "mark", "stop"}]
      /\ cutoff' \in [Drainers -> SUBSET Rows]
  BY DEF Begin, Invariant, TypeOK
<1>3. TypeOK'
  BY <1>1, <1>2 DEF Invariant, TypeOK, node
<1>4. OneHolder'
  BY <1>1 DEF Invariant, OneHolder, HasLock
<1>5. \A k2 \in Drainers : Active(k2)' = Active(k2) /\ (Active(k2) => k2 # k)
  BY <1>1 DEF Active
<1>6. Inserted'
  BY <1>1, <1>5 DEF Invariant, Inserted
<1>7. NoneSkipped' /\ SentInOrder' /\ NothingLost'
  BY <1>1, <1>5 DEF Invariant, NoneSkipped, SentInOrder, NothingLost
<1>8. (\A i \in Rows : Unmarked(i)' = Unmarked(i)) /\ Faults' = Faults
  BY <1>1 DEF Unmarked, Faults
<1>9. SentOnce' /\ MarkedSent'
  BY <1>1, <1>5, <1>8 DEF Invariant, SentOnce, MarkedSent
<1>. QED BY <1>3, <1>4, <1>6, <1>7, <1>9 DEF Invariant

\* Take: the batch is every pending row but the late ones it read the clock for,
\* and those are to be expired before anything is sent.
LEMMA TakePreserves ==
  ASSUME Invariant, NEW k \in Drainers, Take(k)
  PROVE  Invariant'
<1>1. /\ at[k] = "take" /\ at'[k] \in {"next", "expire"}
      /\ Pending \intersect cutoff[k] # {} => at'[k] = "expire"
      /\ batch'[k] = Pending \ cutoff[k] /\ cutoff'[k] = Pending \intersect cutoff[k]
      /\ \A k2 \in Drainers :
           k2 # k => /\ at'[k2] = at[k2] /\ batch'[k2] = batch[k2]
                     /\ cutoff'[k2] = cutoff[k2]
      /\ UNCHANGED <<status, late, node, enq, lock, target, crashes, dbErrors, sends>>
  BY DEF Take, Invariant, TypeOK
<1>2. /\ at' \in [Drainers -> {"idle", "take", "expire", "next", "send", "mark", "stop"}]
      /\ cutoff' \in [Drainers -> SUBSET Rows] /\ batch' \in [Drainers -> SUBSET Rows]
  BY DEF Take, Invariant, TypeOK, Pending
<1>3. TypeOK'
  BY <1>1, <1>2 DEF Invariant, TypeOK, node
<1>4. /\ HasLock(k) /\ \A k2 \in Drainers : k2 # k => at[k2] = "idle"
      /\ \A i \in Rows : ~Unmarked(i)
  BY <1>1, Alone
<1>5. OneHolder'
  BY <1>1, <1>4 DEF OneHolder, HasLock
<1>6. (\A k2 \in Drainers : Active(k2)' => k2 = k) /\ ~Active(k)
  BY <1>1, <1>4 DEF Active
<1>7. \A i \in batch'[k] : i \in Rows /\ status[i] = "pending"
  BY <1>1 DEF Pending
<1>8. Inserted'
  BY <1>1, <1>6, <1>7 DEF Invariant, Inserted
<1>9. NoneSkipped'
  BY <1>1, <1>6 DEF NoneSkipped, Pending
<1>10. SentInOrder' /\ NothingLost'
  BY <1>1, <1>6, <1>7 DEF Invariant, SentInOrder, NothingLost
<1>11. (\A i \in Rows : ~Unmarked(i)') /\ Faults' = Faults
  BY <1>1, <1>4 DEF Unmarked, Faults
<1>12. SentOnce' /\ MarkedSent'
  BY <1>1, <1>4, <1>6, <1>7, <1>11 DEF Invariant, SentOnce, MarkedSent
<1>. QED BY <1>3, <1>5, <1>8, <1>9, <1>10, <1>12 DEF Invariant

\* Expire: the rows that the batch skipped are pending no more.
LEMMA ExpirePreserves ==
  ASSUME Invariant, NEW k \in Drainers, Expire(k)
  PROVE  Invariant'
<1>1. /\ at[k] = "expire"
      /\ \A i \in Rows : status'[i] = IF i \in cutoff[k] THEN "expired" ELSE status[i]
      /\ \A k2 \in Drainers : at'[k2] = IF k2 = k THEN "next" ELSE at[k2]
      /\ UNCHANGED <<late, node, enq, lock, cutoff, batch, target, crashes, dbErrors, sends>>
  BY DEF Expire, Invariant, TypeOK
<1>2. /\ at' \in [Drainers -> {"idle", "take", "expire", "next", "send", "mark", "stop"}]
      /\ status' \in [Rows -> {"none", "pending", "delivered", "expired", "cancelled"}]
  BY DEF Expire, Invariant, TypeOK
<1>3. TypeOK'
  BY <1>1, <1>2 DEF Invariant, TypeOK, node
<1>4. /\ HasLock(k) /\ \A k2 \in Drainers : k2 # k => at[k2] = "idle"
      /\ \A i \in Rows : ~Unmarked(i)
  BY <1>1, Alone
<1>5. OneHolder'
  BY <1>1, <1>4 DEF OneHolder, HasLock
<1>6. \A k2 \in Drainers : (Active(k2)' => k2 = k) /\ Active(k)
  BY <1>1, <1>4 DEF Active
<1>7. cutoff[k] \subseteq late /\ \A i \in cutoff[k] : status[i] # "none"
  BY DEF Invariant, Inserted
<1>8. Inserted'
  BY <1>1, <1>2, <1>6, <1>7 DEF Invariant, TypeOK, Inserted
<1>9. NoneSkipped'
  BY <1>1, <1>6 DEF Invariant, NoneSkipped
<1>10. SentInOrder' /\ NothingLost'
  BY <1>1, <1>6, <1>7 DEF Invariant, SentInOrder, NothingLost
<1>11. (\A i \in Rows : ~Unmarked(i)') /\ Faults' = Faults
  BY <1>1, <1>4 DEF Unmarked, Faults
<1>12. SentOnce' /\ MarkedSent'
  BY <1>1, <1>4, <1>6, <1>11 DEF Invariant, SentOnce, MarkedSent
<1>. QED BY <1>3, <1>5, <1>8, <1>9, <1>10, <1>12 DEF Invariant

\* The steps that only move the drain on, or end it, with nothing sent since its
\* last mark.
LEMMA MovePreserves ==
  ASSUME Invariant, NEW k \in Drainers, Dispatch(k) \/ DispatchFails(k) \/ SendFails(k)
  PROVE  Invariant'
<1>1. /\ at[k] \in {"next", "send"} /\ at'[k] \in {"send", "stop"}
      /\ at'[k] = "send" => registered # Offline /\ target'[k] = registered /\ batch[k] # {}
      /\ \A k2 \in Drainers : k2 # k => at'[k2] = at[k2] /\ target'[k2] = target[k2]
      /\ UNCHANGED <<status, late, node, enq, lock, cutoff, batch, crashes, dbErrors, sends>>
  BY DEF Dispatch, DispatchFails, SendFails, CanDispatch, Invariant, TypeOK
<1>2. /\ at' \in [Drainers -> {"idle", "take", "expire", "next", "send", "mark", "stop"}]
      /\ target' \in [Drainers -> Conns \union {Offline}]
  BY DEF Dispatch, DispatchFails, SendFails, Invariant, TypeOK
<1>3. TypeOK'
  BY <1>1, <1>2 DEF Invariant, TypeOK, node
<1>4. /\ HasLock(k) /\ \A k2 \in Drainers : k2 # k => at[k2] = "idle"
      /\ \A i \in Rows : ~Unmarked(i)
  BY <1>1, Alone
<1>5. OneHolder'
  BY <1>1, <1>4 DEF OneHolder, HasLock
<1>6. Active(k) /\ at[k] # "expire" /\ at'[k] # "expire"
      /\ \A k2 \in Drainers : Active(k2)' => k2 = k
  BY <1>1, <1>4 DEF Active
<1>7. Inserted' /\ SentInOrder' /\ NothingLost'
  BY <1>1, <1>6 DEF Invariant, Inserted, SentInOrder, NothingLost
<1>8. NoneSkipped'
  BY <1>1, <1>6 DEF Invariant, NoneSkipped
<1>9. (\A i \in Rows : ~Unmarked(i)') /\ Faults' = Faults
  BY <1>1, <1>4 DEF Unmarked, Faults
<1>10. SentOnce' /\ MarkedSent'
  BY <1>1, <1>4, <1>6, <1>9 DEF Invariant, SentOnce, MarkedSent
<1>. QED BY <1>3, <1>5, <1>7, <1>8, <1>10 DEF Invariant

\* Send: the first row of the batch goes out. Every older row is done with,
\* because the batch is closed downwards.
LEMMA SendPreserves ==
  ASSUME Invariant, NEW k \in Drainers, Send(k)
  PROVE  Invariant'
<1>. DEFINE f == First(batch[k])
<1>1. /\ at[k] = "send" /\ at'[k] = "mark"
      /\ \A k2 \in Drainers : k2 # k => at'[k2] = at[k2]
      /\ UNCHANGED <<status, late, node, enq, lock, cutoff, batch, target, crashes, dbErrors>>
  BY DEF Send, Invariant, TypeOK
<1>2. /\ batch[k] \subseteq Rows /\ batch[k] # {} /\ target[k] # Offline
      /\ sends \in [Rows -> Nat] /\ Rows \subseteq Nat
  BY <1>1, BoundsAssumption DEF Invariant, TypeOK, Rows
<1>3. f \in Rows /\ f \in batch[k] /\ \A j \in batch[k] : f <= j
  BY <1>2, FirstFacts
<1>4. \A i \in Rows : sends'[i] = IF i = f THEN sends[i] + 1 ELSE sends[i]
  BY <1>2, <1>3 DEF Send
<1>5. TypeOK'
  <2>1. /\ at' \in [Drainers -> {"idle", "take", "expire", "next", "send", "mark", "stop"}]
        /\ sends' \in [Rows -> Nat]
    <3>1. at' = [at EXCEPT ![k] = "mark"] /\ sends' = [sends EXCEPT ![f] = sends[f] + 1]
      BY DEF Send
    <3>. HIDE DEF f
    <3>2. sends' \in [Rows -> Nat]
      BY <1>2, <1>3, <3>1
    <3>. QED BY <3>1, <3>2 DEF Invariant, TypeOK
  <2>. QED BY <1>1, <1>2, <2>1 DEF Invariant, TypeOK, node
<1>6. /\ HasLock(k) /\ \A k2 \in Drainers : k2 # k => at[k2] = "idle"
      /\ \A i \in Rows : ~Unmarked(i)
  BY <1>1, Alone
<1>7. OneHolder'
  BY <1>1, <1>6 DEF OneHolder, HasLock
<1>8. Active(k) /\ \A k2 \in Drainers : Active(k2)' => k2 = k
  BY <1>1, <1>6 DEF Active
<1>9. Inserted' /\ NoneSkipped'
  BY <1>1, <1>8 DEF Invariant, Inserted, NoneSkipped
<1>10. ASSUME NEW i \in Rows, i < f
       PROVE  status[i] \notin {"none", "pending"} /\ i \notin batch[k]
  <2>. HIDE DEF f
  <2>1. i \notin batch[k]
    BY <1>2, <1>3, <1>10
  <2>2. status[f] # "none" /\ status[i] # "none"
    BY <1>3, <1>8, <1>10 DEF Invariant, Inserted
  <2>3. status[i] # "pending"
    BY <1>1, <1>3, <1>8, <1>10, <2>1 DEF Invariant, NoneSkipped
  <2>. QED BY <2>1, <2>2, <2>3
<1>11. SentInOrder'
  BY <1>1, <1>3, <1>4, <1>8, <1>10 DEF Invariant, SentInOrder
<1>12. (\A i \in Rows : Unmarked(i)' <=> i = f) /\ Faults' = Faults
  BY <1>1, <1>6 DEF Unmarked, Faults
<1>13. Faults \in Nat
  BY DEF Faults, Invariant, TypeOK
<1>14. \A i \in Rows : sends[i] \in Nat
  BY <1>2
<1>15. sends[f] <= Faults /\ sends'[f] = sends[f] + 1
  BY <1>3, <1>4, <1>6, <1>8 DEF Invariant, SentOnce
<1>16. SentOnce'
  BY <1>1, <1>3, <1>4, <1>6, <1>8, <1>12, <1>13, <1>14, <1>15 DEF Invariant, SentOnce
<1>17. MarkedSent'
  BY <1>3, <1>12, <1>14, <1>15 DEF MarkedSent
<1>18. NothingLost'
  BY <1>1, <1>4, <1>14, <1>15 DEF Invariant, NothingLost
<1>. QED BY <1>5, <1>7, <1>9, <1>11, <1>16, <1>17, <1>18 DEF Invariant

\* Mark: the row was sent, and leaves the batch.
LEMMA MarkPreserves ==
  ASSUME Invariant, NEW k \in Drainers, Mark(k)
  PROVE  Invariant'
<1>. DEFINE f == First(batch[k])
<1>1. /\ at[k] = "mark" /\ at'[k] = "next" /\ batch'[k] = batch[k] \ {f}
      /\ \A k2 \in Drainers : k2 # k => at'[k2] = at[k2] /\ batch'[k2] = batch[k2]
      /\ \A i \in Rows : status'[i] = IF i = f THEN "delivered" ELSE status[i]
      /\ UNCHANGED <<late, node, enq, lock, cutoff, target, crashes, dbErrors, sends>>
  BY DEF Mark, Invariant, TypeOK
<1>2. TypeOK'
  <2>1. /\ at' \in [Drainers -> {"idle", "take", "expire", "next", "send", "mark", "stop"}]
        /\ batch' \in [Drainers -> SUBSET Rows]
        /\ status' \in [Rows -> {"none", "pending", "delivered", "expired", "cancelled"}]
    BY DEF Mark, Invariant, TypeOK
  <2>. QED BY <1>1, <2>1 DEF Invariant, TypeOK, node
<1>3. /\ HasLock(k) /\ \A k2 \in Drainers : k2 # k => at[k2] = "idle"
      /\ \A i \in Rows : Unmarked(i) <=> i = f
  BY <1>1, Alone
<1>4. OneHolder'
  BY <1>1, <1>3 DEF OneHolder, HasLock
<1>5. Active(k) /\ \A k2 \in Drainers : Active(k2)' => k2 = k
  BY <1>1, <1>3 DEF Active
<1>6. \A i \in Rows : status'[i] = "pending" => status[i] = "pending" /\ i # f
  BY <1>1
<1>7. Inserted'
  <2>1. late \subseteq Rows /\ batch[k] \subseteq Rows
    BY DEF Invariant, TypeOK
  <2>2. \A i \in Rows : status'[i] = "none" <=> status[i] = "none" /\ i # f
    BY <1>1
  <2>3. status[f] # "none"
    <3>1. batch[k] # {}
      BY <1>1 DEF Invariant, TypeOK
    <3>. QED BY <1>5, <2>1, <3>1, FirstFacts DEF Invariant, Inserted
  <2>4. \A i \in Rows : status'[i] = "none" <=> status[i] = "none"
    BY <2>2, <2>3
  <2>. QED BY <1>1, <1>5, <2>1, <2>4 DEF Invariant, Inserted
<1>8. NoneSkipped'
  BY <1>1, <1>5, <1>6 DEF Invariant, NoneSkipped
<1>9. SentInOrder'
  BY <1>1, <1>5 DEF Invariant, SentInOrder
<1>10. (\A i \in Rows : ~Unmarked(i)') /\ Faults' = Faults
  BY <1>1, <1>3 DEF Unmarked, Faults
<1>11. SentOnce' /\ MarkedSent'
  BY <1>1, <1>3, <1>5, <1>10 DEF Invariant, SentOnce, MarkedSent
<1>12. NothingLost'
  BY <1>1, <1>3 DEF Invariant, NothingLost, MarkedSent
<1>. QED BY <1>2, <1>4, <1>7, <1>8, <1>9, <1>11, <1>12 DEF Invariant

\* MarkRaises: the row that was sent may be sent again, and a fault is counted.
LEMMA MarkRaisesPreserves ==
  ASSUME Invariant, NEW k \in Drainers, MarkRaises(k)
  PROVE  Invariant'
<1>1. /\ at[k] = "mark" /\ at'[k] = "stop" /\ dbErrors' = dbErrors + 1
      /\ \A k2 \in Drainers : k2 # k => at'[k2] = at[k2]
      /\ UNCHANGED <<status, late, node, enq, lock, cutoff, batch, target, crashes, sends>>
  BY DEF MarkRaises, Invariant, TypeOK
<1>2. TypeOK'
  <2>1. at' \in [Drainers -> {"idle", "take", "expire", "next", "send", "mark", "stop"}]
    BY DEF MarkRaises, Invariant, TypeOK
  <2>2. dbErrors' \in Nat /\ crashes + dbErrors' <= MaxFaults
    BY BoundsAssumption DEF MarkRaises, Invariant, TypeOK
  <2>. QED BY <1>1, <2>1, <2>2 DEF Invariant, TypeOK, node
<1>3. /\ HasLock(k) /\ \A k2 \in Drainers : k2 # k => at[k2] = "idle"
  BY <1>1, Alone
<1>4. OneHolder'
  BY <1>1, <1>3 DEF OneHolder, HasLock
<1>5. \A k2 \in Drainers : ~Active(k2)'
  BY <1>1, <1>3 DEF Active
<1>6. Inserted' /\ NoneSkipped' /\ SentInOrder' /\ NothingLost'
  BY <1>1, <1>5 DEF Invariant, Inserted, NoneSkipped, SentInOrder, NothingLost
<1>7. /\ \A i \in Rows : ~Unmarked(i)' /\ sends[i] \in Nat
      /\ Faults \in Nat /\ Faults' = Faults + 1
  BY <1>1, <1>3 DEF Unmarked, Faults, Invariant, TypeOK
<1>8. SentOnce' /\ MarkedSent'
  BY <1>1, <1>5, <1>7 DEF Invariant, SentOnce, MarkedSent
<1>. QED BY <1>2, <1>4, <1>6, <1>8 DEF Invariant

\* Release: nobody is past the lock, until the next one begins.
LEMMA ReleasePreserves ==
  ASSUME Invariant, NEW k \in Drainers, Release(k)
  PROVE  Invariant'
<1>1. /\ at[k] \in {"next", "stop"} /\ at'[k] = "idle" /\ cutoff'[k] = {}
      /\ \A k2 \in Drainers : k2 # k => at'[k2] = at[k2] /\ cutoff'[k2] = cutoff[k2]
      /\ UNCHANGED <<status, late, peer, registered, crashes, dbErrors, sends>>
  BY DEF Release, Invariant, TypeOK
<1>2. /\ HasLock(k) /\ \A k2 \in Drainers : k2 # k => at[k2] = "idle"
      /\ \A i \in Rows : ~Unmarked(i)
  BY <1>1, Alone
<1>3. TypeOK'
  <2>1. /\ at' \in [Drainers -> {"idle", "take", "expire", "next", "send", "mark", "stop"}]
        /\ cutoff' \in [Drainers -> SUBSET Rows] /\ batch' \in [Drainers -> SUBSET Rows]
        /\ target' \in [Drainers -> Conns \union {Offline}]
    BY DEF Release, Invariant, TypeOK
  <2>2. lock' \in Seq(Drainers)
    BY <1>2 DEF Release, HasLock, Invariant, TypeOK
  <2>3. /\ handler' \in [Conns -> {"none", "hello", "added", "draining", "loop", "done"}]
        /\ enq' \in [Rows -> {"none", "inserted", "draining", "done"}]
    BY DEF Release, Invariant, TypeOK
  <2>4. \A k2 \in Drainers : at'[k2] = "idle"
    BY <1>1, <1>2
  <2>. QED BY <1>1, <2>1, <2>2, <2>3, <2>4 DEF Invariant, TypeOK
<1>4. \A k2 \in Drainers : at'[k2] = "idle"
  BY <1>1, <1>2
<1>5. OneHolder' /\ NoneSkipped'
  BY <1>4 DEF OneHolder, NoneSkipped, Active
<1>6. Inserted' /\ SentInOrder' /\ NothingLost'
  BY <1>1, <1>4 DEF Invariant, Inserted, SentInOrder, NothingLost, Active
<1>7. (\A i \in Rows : ~Unmarked(i)') /\ Faults' = Faults
  BY <1>1, <1>4 DEF Unmarked, Faults
<1>8. SentOnce' /\ MarkedSent'
  BY <1>1, <1>2, <1>4, <1>7 DEF Invariant, SentOnce, MarkedSent, Active
<1>. QED BY <1>3, <1>5, <1>6, <1>8 DEF Invariant

-----------------------------------------------------------------------------
(* Nothing is stranded.                                                    *)

\* The names of drains are different.
LEMMA DrainFacts ==
  /\ \A c \in Conns : HelloDrain(c) \in Drainers /\ c # Offline
  /\ \A i \in Rows : EnqueueDrain(i) \in Drainers
  /\ \A c, d \in Conns : HelloDrain(c) = HelloDrain(d) => c = d
  /\ \A i, j \in Rows : EnqueueDrain(i) = EnqueueDrain(j) => i = j
  /\ \A c \in Conns, i \in Rows : HelloDrain(c) # EnqueueDrain(i)
BY BoundsAssumption DEF Drainers, HelloDrain, EnqueueDrain, Conns, Offline

\* Who joins a queue waits at its end.
LEMMA JoinFacts ==
  ASSUME NEW q \in Seq(Drainers), Once(q), NEW k \in Drainers, ~In(k, q)
  PROVE  Once(Append(q, k)) /\ \A j : In(j, Append(q, k)) <=> In(j, q) \/ j = k
<1>1. /\ Len(Append(q, k)) = Len(q) + 1 /\ Len(q) \in Nat /\ Append(q, k)[Len(q) + 1] = k
      /\ \A p \in 1..Len(q) : Append(q, k)[p] = q[p]
  OBVIOUS
<1>2. Once(Append(q, k))
  BY <1>1 DEF Once, In
<1>3. ASSUME NEW j PROVE In(j, Append(q, k)) <=> In(j, q) \/ j = k
  BY <1>1 DEF In
<1>. QED BY <1>2, <1>3

\* Who has had the lock leaves from the front.
LEMMA LeaveFacts ==
  ASSUME NEW q \in Seq(Drainers), Once(q), q # <<>>
  PROVE  Once(Tail(q)) /\ \A j : In(j, Tail(q)) <=> In(j, q) /\ j # Head(q)
<1>1. /\ Len(Tail(q)) = Len(q) - 1 /\ Len(q) \in Nat \ {0} /\ Head(q) = q[1]
      /\ \A p \in 1..(Len(q) - 1) : Tail(q)[p] = q[p + 1]
  OBVIOUS
<1>2. Once(Tail(q))
  BY <1>1 DEF Once
<1>3. ASSUME NEW j PROVE In(j, Tail(q)) <=> In(j, q) /\ j # Head(q)
  <2>1. ASSUME In(j, Tail(q)) PROVE In(j, q) /\ j # Head(q)
    BY <1>1, <2>1 DEF In, Once
  <2>2. ASSUME In(j, q), j # Head(q) PROVE In(j, Tail(q))
    <3>1. PICK p \in 1..Len(q) : q[p] = j
      BY <2>2 DEF In
    <3>2. p - 1 \in 1..Len(Tail(q)) /\ Tail(q)[p - 1] = q[p]
      BY <1>1, <2>2, <3>1
    <3>. QED BY <3>1, <3>2 DEF In
  <2>. QED BY <2>1, <2>2
<1>. QED BY <1>2, <1>3

\* A drain that is past the lock is in its queue.
LEMMA HolderIn ==
  ASSUME Invariant, NEW k \in Drainers, at[k] # "idle"
  PROVE  In(k, lock) /\ Head(lock) = k /\ lock # <<>> /\ lock \in Seq(Drainers)
<1>1. HasLock(k) /\ lock \in Seq(Drainers)
  BY DEF Invariant, OneHolder, TypeOK
<1>2. Len(lock) \in Nat \ {0} /\ Head(lock) = lock[1]
  BY <1>1 DEF HasLock
<1>. QED BY <1>1, <1>2 DEF HasLock, In

\* Steps of a row alone: it is pending no longer, or late.
LEMMA RowCovered ==
  ASSUME Invariant, Coverage, NEW i \in Rows, CancelQueued(i) \/ Lapse(i)
  PROVE  Coverage'
<1>1. /\ UNCHANGED <<peer, handler, registered, enq, lock, at, cutoff, batch, target, dbErrors>>
      /\ Pending' \subseteq Pending /\ \A j \in Rows : status'[j] = "none" => status[j] = "none"
  BY DEF CancelQueued, Lapse, Pending, node, drains, Invariant, TypeOK
<1>2. Lined' /\ Retaken'
  BY <1>1 DEF Coverage, Lined, Retaken, Served
<1>3. Covered'
  BY <1>1 DEF Coverage, Covered, Comes, Has, Active, Served
<1>. QED BY <1>2, <1>3 DEF Coverage

\* A new row has a request, which has still to look at the registry;
LEMMA EnqueueCovered ==
  ASSUME Invariant, Coverage, NEW i \in Rows, Enqueue(i)
  PROVE  Coverage'
<1>1. /\ UNCHANGED <<peer, handler, registered, lock, at, cutoff, batch, target, dbErrors>>
      /\ enq'[i] = "inserted" /\ \A j \in Rows : j # i => enq'[j] = enq[j]
      /\ status[i] = "none" /\ status'[i] = "pending"
      /\ \A j \in Rows : j # i => status'[j] = status[j]
  BY DEF Enqueue, node, drains, Invariant, TypeOK
<1>2. enq[i] = "none"
  BY <1>1 DEF Coverage, Lined
<1>3. Lined'
  BY <1>1, <1>2 DEF Coverage, Lined
<1>4. Retaken'
  BY <1>1 DEF Coverage, Retaken, Served
<1>5. Covered'
  <2>1. \A j \in Pending' : j = i \/ j \in Pending
    BY <1>1 DEF Pending
  <2>2. \A j \in Pending' : j \in Rows
    BY DEF Pending
  <2>. QED BY <1>1, <2>1, <2>2 DEF Coverage, Covered, Comes, Has, Active, Served
<1>. QED BY <1>3, <1>4, <1>5 DEF Coverage

\* when it has, and the node is served, a drain of its own waits for the lock.
LEMMA EnqueueReturnsCovered ==
  ASSUME Invariant, Coverage, NEW i \in Rows, EnqueueReturns(i)
  PROVE  Coverage'
<1>1. /\ UNCHANGED <<status, peer, handler, registered, at, cutoff, batch, target, dbErrors>>
      /\ enq[i] = "inserted" /\ \A j \in Rows : j # i => enq'[j] = enq[j]
      /\ status[i] # "none"
  BY DEF EnqueueReturns, node, drains, Invariant, TypeOK, Coverage, Lined
<1>2. ~In(EnqueueDrain(i), lock) /\ at[EnqueueDrain(i)] = "idle"
  <2>1. ~In(EnqueueDrain(i), lock)
    BY <1>1 DEF Coverage, Lined
  <2>. QED BY <2>1, HolderIn, DrainFacts
<1>3. CASE registered = Offline
  <2>1. enq'[i] = "done" /\ lock' = lock
    BY <1>3 DEF EnqueueReturns, Invariant, TypeOK
  <2>2. \A c \in Conns : ~Served(c) /\ ~Served(c)'
    BY <1>1, <1>3, DrainFacts DEF Served
  <2>3. Lined'
    BY <1>1, <2>1 DEF Coverage, Lined
  <2>. QED BY <2>2, <2>3 DEF Coverage, Retaken, Covered
<1>4. CASE registered # Offline
  <2>1. enq'[i] = "draining" /\ lock' = Append(lock, EnqueueDrain(i))
    BY <1>4 DEF EnqueueReturns, Invariant, TypeOK
  <2>2. Once(lock') /\ \A j : In(j, lock') <=> In(j, lock) \/ j = EnqueueDrain(i)
    BY <1>2, <2>1, DrainFacts, JoinFacts DEF Invariant, TypeOK, Coverage, Lined
  <2>3. Lined'
    BY <1>1, <2>1, <2>2, DrainFacts DEF Coverage, Lined
  <2>4. Retaken'
    BY <1>1, <2>2 DEF Coverage, Retaken, Served
  <2>5. Comes(EnqueueDrain(i))'
    BY <1>1, <1>2, <2>2 DEF Comes
  <2>6. Covered'
    BY <2>5, DrainFacts DEF Covered
  <2>. QED BY <2>3, <2>4, <2>6 DEF Coverage
<1>. QED BY <1>3, <1>4

\* A connection that takes the node will drain the queue, and one that leaves needs not.
LEMMA ConnectionCovered ==
  ASSUME Invariant, Coverage, NEW c \in Conns,
         Dial(c) \/ Leave(c) \/ Register(c) \/ Welcome(c) \/ SweepOffline(c) \/ Eof(c)
  PROVE  Coverage'
<1>0. /\ UNCHANGED <<status, enq, at, cutoff, batch, target, dbErrors>> /\ c # Offline
      /\ peer \in [Conns -> {"idle", "up", "left"}]
      /\ handler \in [Conns -> {"none", "hello", "added", "draining", "loop", "done"}]
  BY DrainFacts DEF Dial, Leave, Register, Welcome, SweepOffline, Eof, drains, Invariant, TypeOK
<1>1. CASE Welcome(c)
  <2>1. /\ handler[c] = "added" /\ handler'[c] = "draining" /\ lock' = Append(lock, HelloDrain(c))
        /\ \A d \in Conns : d # c => handler'[d] = handler[d]
        /\ UNCHANGED <<peer, registered>>
    BY <1>0, <1>1 DEF Welcome
  <2>2. ~In(HelloDrain(c), lock) /\ at[HelloDrain(c)] = "idle"
    <3>1. ~In(HelloDrain(c), lock)
      BY <2>1 DEF Coverage, Lined
    <3>. QED BY <3>1, HolderIn, DrainFacts
  <2>3. Once(lock') /\ \A j : In(j, lock') <=> In(j, lock) \/ j = HelloDrain(c)
    BY <2>1, <2>2, DrainFacts, JoinFacts DEF Invariant, TypeOK, Coverage, Lined
  <2>4. Lined'
    BY <1>0, <2>1, <2>3, DrainFacts DEF Coverage, Lined
  <2>5. Retaken'
    BY <1>0, <2>1, <2>2, <2>3 DEF Coverage, Retaken, Served
  <2>6. Comes(HelloDrain(c))'
    BY <1>0, <2>2, <2>3 DEF Comes
  <2>7. Covered'
    BY <2>6, DrainFacts DEF Covered
  <2>. QED BY <2>4, <2>5, <2>7 DEF Coverage
<1>2. CASE ~Welcome(c)
  <2>1. /\ lock' = lock
        /\ \A d \in Conns : d # c => handler'[d] = handler[d] /\ peer'[d] = peer[d]
        /\ \/ handler[c] \notin {"added", "draining"} /\ handler'[c] # "draining"
           \/ handler'[c] = handler[c]
    <3>1. CASE Dial(c)
      <4>1. handler[c] = "none"
        BY <3>1, <1>0 DEF Dial, Coverage, Lined
      <4>. QED BY <4>1, <1>0, <3>1 DEF Dial
    <3>2. CASE Leave(c)
      BY <1>0, <3>2 DEF Leave
    <3>3. CASE Register(c)
      BY <1>0, <3>3 DEF Register
    <3>4. CASE SweepOffline(c)
      BY <1>0, <3>4 DEF SweepOffline
    <3>5. CASE Eof(c)
      BY <1>0, <3>5 DEF Eof
    <3>. QED BY <1>2, <3>1, <3>2, <3>3, <3>4, <3>5
  <2>2. \A d \in Conns : Served(d)' =>
          handler'[d] = "added" \/ (Served(d) /\ handler'[d] = handler[d])
    <3>1. CASE Dial(c)
      BY <1>0, <3>1 DEF Dial, Served, Coverage, Lined
    <3>2. CASE Leave(c)
      BY <1>0, <3>2 DEF Leave, Served
    <3>3. CASE Register(c)
      BY <1>0, <3>3 DEF Register, Served
    <3>4. CASE SweepOffline(c) \/ Eof(c)
      BY <1>0, <2>1, <3>4, DrainFacts DEF SweepOffline, Eof, Served
    <3>. QED BY <1>2, <3>1, <3>2, <3>3, <3>4
  <2>3. Lined'
    <3>1. \A d \in Conns : registered' = d => handler'[d] \in {"added", "draining", "loop"}
      BY <1>0, <1>2, DrainFacts DEF Dial, Leave, Register, SweepOffline, Eof, Coverage, Lined
    <3>2. \A d \in Conns : peer'[d] = "idle" => handler'[d] = "none"
      BY <1>0, <1>2 DEF Dial, Leave, Register, SweepOffline, Eof, Coverage, Lined
    <3>. QED BY <1>0, <2>1, <3>1, <3>2 DEF Coverage, Lined
  <2>4. Retaken'
    BY <1>0, <2>1, <2>2 DEF Coverage, Retaken
  <2>5. Covered'
    <3>1. Pending' = Pending /\ \A k \in Drainers : /\ Comes(k)' <=> Comes(k)
                                                   /\ \A i \in Rows : Has(k, i)' <=> Has(k, i)
      BY <1>0, <2>1 DEF Pending, Comes, Has, Active
    <3>. QED BY <1>0, <2>2, <3>1 DEF Coverage, Covered, Pending
  <2>. QED BY <2>3, <2>4, <2>5 DEF Coverage
<1>. QED BY <1>1, <1>2

\* A drain gives up only a row that cannot be sent to the connection that serves the
\* node by now.
LEMMA DrainCovered ==
  ASSUME Unsupported = {}, Invariant, Coverage, NEW k \in Drainers,
         \/ Begin(k) \/ Take(k) \/ Expire(k) \/ Dispatch(k) \/ DispatchFails(k) \/ Send(k)
         \/ SendFails(k) \/ Mark(k) \/ MarkRaises(k)
  PROVE  Coverage'
<1>0. /\ UNCHANGED <<peer, handler, registered, enq, lock>>
      /\ at \in [Drainers -> {"idle", "take", "expire", "next", "send", "mark", "stop"}]
      /\ batch \in [Drainers -> SUBSET Rows] /\ cutoff \in [Drainers -> SUBSET Rows]
      /\ target \in [Drainers -> Conns \union {Offline}]
      /\ status \in [Rows -> {"none", "pending", "delivered", "expired", "cancelled"}]
  BY DEF Begin, Take, Expire, Dispatch, DispatchFails, Send, SendFails, Mark, MarkRaises, node,
         Invariant, TypeOK
<1>1. /\ HasLock(k) /\ In(k, lock)
      /\ \A j \in Drainers : j # k => at[j] = "idle"
  <2>1. at[k] # "idle" \/ HasLock(k)
    BY DEF Begin, Take, Expire, Dispatch, DispatchFails, Send, SendFails, Mark, MarkRaises
  <2>2. HasLock(k) /\ \A j \in Drainers : j # k => at[j] = "idle"
    BY <2>1 DEF Invariant, OneHolder, HasLock
  <2>3. lock \in Seq(Drainers) /\ lock # <<>> /\ Head(lock) = k
    BY <2>2 DEF HasLock, Invariant, TypeOK
  <2>4. Len(lock) \in Nat \ {0} /\ lock[1] = k
    BY <2>3
  <2>. QED BY <2>2, <2>4 DEF In
<1>2. /\ \A j \in Drainers : j # k => /\ at'[j] = at[j] /\ batch'[j] = batch[j]
                                      /\ cutoff'[j] = cutoff[j] /\ target'[j] = target[j]
      /\ \A i \in Rows : status'[i] = "none" => status[i] = "none"
  BY <1>0 DEF Begin, Take, Expire, Dispatch, DispatchFails, Send, SendFails, Mark, MarkRaises
<1>3. Lined'
  BY <1>0, <1>2 DEF Coverage, Lined
<1>4. Retaken'
  <2>. SUFFICES ASSUME at'[k] = "send", NEW c \in Conns, Served(c)
                PROVE  target'[k] = c
    BY <1>0, <1>1, <1>2 DEF Retaken, Served
  <2>1. Dispatch(k)
    BY <1>0 DEF Begin, Take, Expire, DispatchFails, Send, SendFails, Mark, MarkRaises
  <2>. QED BY <1>0, <2>1 DEF Dispatch, Served
<1>5. Covered'
  <2>. SUFFICES ASSUME dbErrors' = 0, NEW c \in Conns, Served(c), NEW i \in Pending',
                       handler[c] # "added", enq[i] # "inserted",
                       \A j \in Drainers : j # k => ~(In(j, lock) /\ at[j] = "idle")
                PROVE  Comes(k)' \/ Has(k, i)'
    BY <1>0, <1>1, <1>2 DEF Covered, Served, Comes
  <2>1. i \in Rows /\ status'[i] = "pending" /\ dbErrors \in Nat
    BY DEF Pending, Invariant, TypeOK
  <2>2. CASE Begin(k)
    BY <1>0, <1>1, <2>2 DEF Begin, Comes
  <2>3. CASE Take(k)
    BY <1>0, <2>1, <2>3 DEF Take, Has, Active, Pending
  <2>4. ASSUME at[k] # "take", status[i] = "pending", dbErrors = 0 PROVE Has(k, i) \/ at[k] = "idle"
    <3>1. PICK j \in Drainers : Comes(j) \/ Has(j, i)
      BY <2>1, <2>4 DEF Coverage, Covered, Pending
    <3>2. j = k
      BY <1>1, <3>1 DEF Comes, Has, Active
    <3>. QED BY <2>4, <3>1, <3>2 DEF Comes
  <2>5. CASE Expire(k)
    BY <1>0, <2>1, <2>4, <2>5 DEF Expire, Has, Active
  <2>6. CASE Dispatch(k)
    BY <1>0, <2>1, <2>4, <2>6 DEF Dispatch, Has, Active
  <2>7. CASE DispatchFails(k)
    BY <2>7, DrainFacts DEF DispatchFails, CanDispatch, Served
  <2>8. CASE Send(k)
    BY <1>0, <2>1, <2>4, <2>8 DEF Send, Has, Active
  <2>9. CASE SendFails(k)
    <3>1. at[k] = "send" /\ SocketDead(target[k])
      BY <2>9 DEF SendFails
    <3>2. target[k] = c \/ (In(HelloDrain(c), lock) /\ at[HelloDrain(c)] = "idle")
      BY <3>1 DEF Coverage, Retaken
    <3>3. HelloDrain(c) # k \/ at[HelloDrain(c)] # "idle"
      BY <3>1
    <3>. QED BY <3>1, <3>2, <3>3, DrainFacts DEF SocketDead, Served
  <2>10. CASE Mark(k)
    BY <1>0, <2>1, <2>4, <2>10 DEF Mark, Has, Active
  <2>11. CASE MarkRaises(k)
    BY <2>1, <2>11 DEF MarkRaises
  <2>. QED BY <2>2, <2>3, <2>5, <2>6, <2>7, <2>8, <2>9, <2>10, <2>11
<1>. QED BY <1>3, <1>4, <1>5 DEF Coverage

\* A drain that ends has nothing left, or the next one is to read the table.
LEMMA ReleaseCovered ==
  ASSUME Invariant, Coverage, NEW k \in Drainers, Release(k)
  PROVE  Coverage'
<1>0. /\ UNCHANGED <<status, peer, registered, dbErrors>> /\ lock' = Tail(lock)
      /\ at[k] = "stop" \/ (at[k] = "next" /\ batch[k] = {})
      /\ \A j \in Drainers : j # k => at'[j] = at[j]
      /\ \A c \in Conns : handler'[c] = IF k = HelloDrain(c) THEN "loop" ELSE handler[c]
      /\ \A i \in Rows : enq'[i] = IF k = EnqueueDrain(i) THEN "done" ELSE enq[i]
  BY DEF Release, Invariant, TypeOK
<1>1. In(k, lock) /\ Head(lock) = k /\ lock # <<>> /\ lock \in Seq(Drainers)
  BY <1>0, HolderIn
<1>2. Once(lock') /\ \A j : In(j, lock') <=> In(j, lock) /\ j # k
  BY <1>0, <1>1, LeaveFacts DEF Coverage, Lined
<1>3. \A j \in Drainers : j # k => at[j] = "idle"
  BY <1>0, Alone
<1>4. /\ \A c \in Conns : k = HelloDrain(c) => handler[c] = "draining"
      /\ \A i \in Rows : k = EnqueueDrain(i) => enq[i] = "draining"
  BY <1>1 DEF Coverage, Lined
<1>5. Lined'
  <2>1. \A c \in Conns : In(HelloDrain(c), lock') <=> handler'[c] = "draining"
    BY <1>0, <1>2 DEF Coverage, Lined
  <2>2. \A i \in Rows : In(EnqueueDrain(i), lock') <=> enq'[i] = "draining"
    BY <1>0, <1>2 DEF Coverage, Lined
  <2>3. \A c \in Conns : peer[c] = "idle" => handler'[c] = "none"
    BY <1>0, <1>4 DEF Coverage, Lined
  <2>4. \A i \in Rows : status[i] = "none" => enq'[i] = "none"
    BY <1>0, <1>4 DEF Coverage, Lined
  <2>5. \A c \in Conns : registered = c => handler'[c] \in {"added", "draining", "loop"}
    BY <1>0 DEF Coverage, Lined
  <2>. QED BY <1>0, <1>2, <2>1, <2>2, <2>3, <2>4, <2>5 DEF Lined
<1>6. Retaken'
  <2>1. at'[k] = "idle"
    BY DEF Release, Invariant, TypeOK
  <2>. QED BY <1>0, <1>3, <2>1 DEF Retaken
<1>7. Covered'
  <2>. SUFFICES ASSUME dbErrors = 0, NEW c \in Conns, Served(c), NEW i \in Pending,
                       handler'[c] # "added", enq'[i] # "inserted"
                PROVE  \E j \in Drainers : Comes(j)'
    BY <1>0 DEF Covered, Served, Pending
  <2>1. i \in Rows /\ handler[c] # "added" /\ enq[i] # "inserted"
    BY <1>0, <1>4 DEF Pending
  <2>2. PICK j \in Drainers : Comes(j) \/ Has(j, i)
    BY <2>1 DEF Coverage, Covered
  <2>3. j # k /\ Comes(j)
    BY <1>0, <1>3, <2>2 DEF Comes, Has, Active
  <2>. QED BY <1>0, <1>2, <2>3 DEF Comes
<1>. QED BY <1>5, <1>6, <1>7 DEF Coverage

\* After a crash nobody serves the node.
LEMMA CrashCovered ==
  ASSUME Invariant, Coverage, Crash
  PROVE  Coverage'
<1>1. /\ registered' = Offline /\ lock' = <<>> /\ UNCHANGED status
      /\ \A c \in Conns : handler'[c] = IF handler[c] = "none" THEN "none" ELSE "done"
      /\ \A i \in Rows : enq'[i] = IF enq[i] = "none" THEN "none" ELSE "done"
      /\ \A c \in Conns : peer'[c] = "idle" => peer[c] = "idle"
  BY DEF Crash, Invariant, TypeOK
<1>2. Lined'
  <2>1. Once(lock') /\ \A k : ~In(k, lock')
    BY <1>1 DEF Once, In
  <2>. QED BY <1>1, <2>1, DrainFacts DEF Coverage, Lined
<1>3. \A c \in Conns : ~Served(c)'
  BY <1>1, DrainFacts DEF Served
<1>. QED BY <1>2, <1>3 DEF Coverage, Retaken, Covered

-----------------------------------------------------------------------------
(* The theorems.                                                           *)

\* Every step preserves the invariant.
LEMMA NextPreserves == Invariant /\ [Next]_vars => Invariant'
<1>. SUFFICES ASSUME Invariant, [Next]_vars PROVE Invariant'
  OBVIOUS
<1>1. CASE UNCHANGED vars
  <2>1. /\ UNCHANGED <<status, late, drains, crashes, dbErrors, sends>>
        /\ UNCHANGED <<peer, handler, registered, enq, lock>>
    BY <1>1 DEF vars, drains
  <2>2. TypeOK' /\ \A k \in Drainers : HasLock(k) => HasLock(k)'
    BY <2>1 DEF Invariant, TypeOK, HasLock, drains
  <2>. QED BY <2>1, <2>2, QuietPreserves
<1>2. CASE \E i \in Rows : Enqueue(i) \/ EnqueueReturns(i) \/ CancelQueued(i) \/ Lapse(i)
  BY <1>2, EnqueuePreserves, EnqueueReturnsPreserves, CancelPreserves
<1>3. CASE \E c \in Conns :
             \/ Dial(c) \/ Leave(c) \/ Register(c) \/ Welcome(c) \/ SweepOffline(c) \/ Eof(c)
  BY <1>3, ConnectionPreserves
<1>4. ASSUME NEW k \in Drainers,
             \/ Begin(k) \/ Take(k) \/ Expire(k) \/ Dispatch(k) \/ DispatchFails(k) \/ Send(k)
             \/ SendFails(k) \/ Mark(k) \/ MarkRaises(k) \/ Release(k)
      PROVE  Invariant'
  BY <1>4, BeginPreserves, TakePreserves, ExpirePreserves, MovePreserves, SendPreserves,
     MarkPreserves, MarkRaisesPreserves, ReleasePreserves
<1>5. CASE Crash
  BY <1>5, CrashPreserves
<1>. QED BY <1>1, <1>2, <1>3, <1>4, <1>5 DEF Next

\* The invariant holds of every behaviour, whatever the bounds.
THEOREM InvariantHolds == Spec => []Invariant
<1>. QED BY InitInvariant, NextPreserves, PTL DEF Spec

\* Every variable has its type, and a frame goes to a node that was online.
THEOREM TypeCorrect == Spec => []TypeOK
<1>1. Invariant => TypeOK
  BY DEF Invariant
<1>. QED BY <1>1, InvariantHolds, PTL

\* A row leaves the pending state only by being sent, cancelled, or found late.
THEOREM NothingLostHolds == Spec => []NothingLost
<1>1. Invariant => NothingLost
  BY DEF Invariant
<1>. QED BY <1>1, InvariantHolds, PTL

\* A row is sent once, and once more for each fault at the most.
THEOREM RepeatNeedsFaultHolds == Spec => []RepeatNeedsFault
<1>1. ASSUME Invariant PROVE RepeatNeedsFault
  <2>1. \A i \in Rows : sends[i] <= 1 + Faults
    BY <1>1 DEF Invariant, SentOnce
  <2>2. crashes \in Nat /\ dbErrors \in Nat /\ \A i \in Rows : sends[i] \in Nat
    BY <1>1 DEF Invariant, TypeOK
  <2>. QED BY <2>1, <2>2 DEF RepeatNeedsFault, Faults
<1>. QED BY <1>1, InvariantHolds, PTL

\* A row is never sent after one that was enqueued later.
THEOREM InIssueOrderHolds == Spec => InIssueOrder
<1>. DEFINE Ordered == \A i, j \in Rows : sends'[i] > sends[i] /\ i < j => sends[j] = 0
<1>1. ASSUME Invariant, Next PROVE Ordered
  <2>. SUFFICES ASSUME NEW i \in Rows, NEW j \in Rows, sends'[i] > sends[i], i < j
                PROVE  sends[j] = 0
    OBVIOUS
  <2>1. sends \in [Rows -> Nat]
    BY <1>1 DEF Invariant, TypeOK
  <2>2. PICK k \in Drainers : Send(k)
    <3>1. sends' # sends
      BY <2>1
    <3>. QED BY <1>1, <3>1 DEF Next, Enqueue, EnqueueReturns, CancelQueued, Lapse, Dial,
            Leave, Register, Welcome, SweepOffline, Eof, Begin, Take, Expire, Dispatch,
            DispatchFails, SendFails, Mark, MarkRaises, Release, Crash
  <2>3. Active(k) /\ batch[k] \subseteq Rows /\ batch[k] # {}
    BY <1>1, <2>2 DEF Send, Active, Invariant, TypeOK
  <2>4. i = First(batch[k])
    BY <2>1, <2>2 DEF Send
  <2>5. i \in batch[k]
    BY <2>3, <2>4, FirstFacts
  <2>. QED BY <1>1, <2>1, <2>3, <2>5 DEF Invariant, SentInOrder
<1>2. Invariant /\ [Next]_vars => [Ordered]_vars
  BY <1>1
<1>. QED BY <1>2, InvariantHolds, PTL DEF Spec, InIssueOrder

\* While the node is online and idle, and every request and drain has run to its end,
\* no row is left pending: between an enqueue's look at the registry and a hello's look
\* at the table none slips through.  At a row of a type that build_node_frame does not
\* know a drain stops (core.py), so there are none.
THEOREM NothingStrandedHolds ==
  ASSUME Unsupported = {}
  PROVE  Spec => []NothingStranded
<1>1. Init => Coverage
  <2>. SUFFICES ASSUME Init PROVE Coverage
    OBVIOUS
  <2>1. Once(lock) /\ \A k : ~In(k, lock)
    BY DEF Init, Once, In
  <2>2. Lined
    BY <2>1, DrainFacts DEF Init, Lined
  <2>3. \A c \in Conns : ~Served(c)
    BY DrainFacts DEF Init, Served
  <2>. QED BY <2>2, <2>3 DEF Coverage, Retaken, Covered
<1>2. Invariant /\ Coverage /\ [Next]_vars => Coverage'
  <2>. SUFFICES ASSUME Invariant, Coverage, [Next]_vars PROVE Coverage'
    OBVIOUS
  <2>1. CASE UNCHANGED vars
    <3>1. UNCHANGED <<status, peer, handler, registered, enq, lock, at, cutoff, batch, target, dbErrors>>
      BY <2>1 DEF vars
    <3>. QED BY <3>1 DEF Coverage, Lined, Retaken, Covered, Comes, Has, Active, Served, Pending
  <2>2. CASE \E i \in Rows : Enqueue(i) \/ EnqueueReturns(i) \/ CancelQueued(i) \/ Lapse(i)
    BY <2>2, RowCovered, EnqueueCovered, EnqueueReturnsCovered
  <2>3. CASE \E c \in Conns :
               \/ Dial(c) \/ Leave(c) \/ Register(c) \/ Welcome(c) \/ SweepOffline(c) \/ Eof(c)
    BY <2>3, ConnectionCovered
  <2>4. ASSUME NEW k \in Drainers,
               \/ Begin(k) \/ Take(k) \/ Expire(k) \/ Dispatch(k) \/ DispatchFails(k) \/ Send(k)
               \/ SendFails(k) \/ Mark(k) \/ MarkRaises(k) \/ Release(k)
        PROVE  Coverage'
    BY <2>4, DrainCovered, ReleaseCovered
  <2>5. CASE Crash
    BY <2>5, CrashCovered
  <2>. QED BY <2>1, <2>2, <2>3, <2>4, <2>5 DEF Next
<1>3. Invariant /\ Coverage => NothingStranded
  <2>. SUFFICES ASSUME Invariant, Coverage, NEW c \in Conns, registered = c, peer[c] = "up",
                       handler[c] = "loop", lock = <<>>, \A i \in Rows : enq[i] # "inserted",
                       dbErrors = 0, NEW i \in Pending
                PROVE  FALSE
    BY DEF NothingStranded
  <2>1. PICK k \in Drainers : Comes(k) \/ Has(k, i)
    BY DEF Coverage, Covered, Served, Pending
  <2>2. In(k, lock)
    BY <2>1, HolderIn DEF Comes, Has, Active
  <2>. QED BY <2>2 DEF In
<1>. QED BY <1>1, <1>2, <1>3, InvariantHolds, PTL DEF Spec

=============================================================================
