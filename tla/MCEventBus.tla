---------------------------- MODULE MCEventBus ----------------------------
(* Two browsers, one node, a queue of two and four events each: enough for  *)
(* an overflow before, between and after takes.                            *)
EXTENDS EventBus
=============================================================================
