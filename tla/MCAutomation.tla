---------------------------- MODULE MCAutomation ----------------------------
(* The instances that TLC checks: a runbook that types something and waits  *)
(* for its echo, and a direct job that looks for a prompt and pauses.       *)
EXTENDS Automation

CONSTANTS a, b

Both == <<a, b>>
OnlyA == {a}
LookAndPause == <<"try", "delay">>
TypeAndWait == <<"act", "await">>
=============================================================================
