--------------------------- MODULE MCHubSteering ---------------------------
(* The instance that TLC checks: a primary and a backup, the two hubs that  *)
(* a board's settings can name, each the peer of the other.                *)
EXTENDS HubSteering

CONSTANTS primary, backup
TwoHubs == <<primary, backup>>
EachOther == [h \in {primary, backup} |-> IF h = primary THEN <<backup>> ELSE <<primary>>]
=============================================================================
