-------------------------- MODULE MCNodeLifecycle --------------------------
(* The instance that TLC checks.  One node id: its connections race with    *)
(* each other for its registry entry.                                       *)
EXTENDS NodeLifecycle

CONSTANTS c1, c2, n1

OneNode == [c \in Conns |-> n1]
=============================================================================
