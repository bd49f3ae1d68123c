-------------------------- MODULE MCShellSessions --------------------------
(* The instance that TLC checks: two chats that compete for one node.       *)
EXTENDS ShellSessions

CONSTANTS a, b, n
=============================================================================
