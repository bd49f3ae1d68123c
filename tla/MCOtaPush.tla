----------------------------- MODULE MCOtaPush -----------------------------
(* The instances that TLC checks: bundles of one file, so that a transfer   *)
(* is a begin, a chunk and a commit, each of which can be late or lost; the *)
(* canary is also pushed to on its own.                                     *)
EXTENDS OtaPush

CONSTANTS n1, n2
TwoNodes == <<n1, n2>>
=============================================================================
