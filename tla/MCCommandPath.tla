--------------------------- MODULE MCCommandPath ---------------------------
(* The instance that TLC checks: sends of two bytes, of which the queue of   *)
(* the back-channel holds one at a time.                                    *)
EXTENDS CommandPath
=============================================================================
