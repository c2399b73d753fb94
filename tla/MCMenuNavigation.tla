--------------------------- MODULE MCMenuNavigation ---------------------------
(* Instances of MenuNavigation for TLC. *)
EXTENDS MenuNavigation, TLC

CONSTANTS phone, laptop, headset

ThreeDevices == {phone, laptop, headset}
Symmetry == Permutations(ThreeDevices)
=============================================================================
