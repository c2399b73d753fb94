--------------------------- MODULE MCRunLoopTimers ---------------------------
(***************************************************************************)
(* Instances of RunLoopTimers for TLC.                                     *)
(***************************************************************************)
EXTENDS RunLoopTimers, TLC

CONSTANTS t1, t2, t3

TwoTimers   == {t1, t2}
ThreeTimers == {t1, t2, t3}

(* The application treats all timers alike. *)
Symmetry == Permutations(ThreeTimers)
=============================================================================
