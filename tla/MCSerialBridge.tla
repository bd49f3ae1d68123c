--------------------------- MODULE MCSerialBridge ---------------------------
(* The instance that TLC checks: one board, one port, two requests at once.  *)
EXTENDS SerialBridge
=============================================================================
