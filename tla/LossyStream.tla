---------------------------- MODULE LossyStream ----------------------------
(***************************************************************************)
(* What one browser is promised by the event bus (eventbus.py, docstring   *)
(* lines 8-10): events arrive in the order in which they were published,   *)
(* none twice, some possibly skipped, and the browser can always tell:     *)
(* an event carries the gap mark exactly when events between it and the    *)
(* previously delivered one were lost.                                     *)
(*                                                                         *)
(* Events are numbered by their position in the stream offered to that     *)
(* browser.  EventBus implements one such stream per browser.              *)
(***************************************************************************)
EXTENDS Naturals

VARIABLES
  offered,    \* how many events have been published to this browser
  last,       \* the number of the last event it was sent, 0 before the first
  mark        \* whether that event carried the gap mark

vars == <<offered, last, mark>>

Init == offered = 0 /\ last = 0 /\ mark = FALSE

Offer == offered' = offered + 1 /\ UNCHANGED <<last, mark>>

Deliver(k) ==
  /\ last < k /\ k <= offered
  /\ last' = k
  /\ mark' = (k # last + 1)
  /\ UNCHANGED offered

Next == Offer \/ \E k \in (last + 1)..offered : Deliver(k)

Spec == Init /\ [][Next]_vars

=============================================================================
