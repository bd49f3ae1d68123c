--------------------------- MODULE MCOfflineQueue ---------------------------
(* The instance that TLC checks: every row is of a type that the hub can    *)
(* turn into a frame.                                                       *)
EXTENDS OfflineQueue

NoRow == {}
=============================================================================
