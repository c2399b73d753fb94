------------------------------- MODULE MCStdin -------------------------------
(***************************************************************************)
(* The instance of the run loop with its console for TLC: two tasks that   *)
(* call the loop, a function queue that fills up, and two different keys.  *)
(***************************************************************************)
EXTENDS Stdin

CONSTANTS audio, transport, r1

TwoClients == {audio, transport}
TwoKeys    == <<"a", "b">>
=============================================================================
