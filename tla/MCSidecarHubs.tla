--------------------------- MODULE MCSidecarHubs ---------------------------
(* The instance that TLC checks: a primary and a backup hub.                *)
EXTENDS SidecarHubs
=============================================================================
