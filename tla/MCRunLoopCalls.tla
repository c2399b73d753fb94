---------------------------- MODULE MCRunLoopCalls ----------------------------
(***************************************************************************)
(* Instances of RunLoopCalls for TLC: two client tasks that share          *)
(* registrations, and a function queue that fills up.                      *)
(***************************************************************************)
EXTENDS RunLoopCalls

CONSTANTS audio, console, r1, r2

TwoClients       == {audio, console}
OneClient        == {audio}
TwoRegistrations == {r1, r2}
=============================================================================
