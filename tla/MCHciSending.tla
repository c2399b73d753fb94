---------------------------- MODULE MCHciSending ----------------------------
(***************************************************************************)
(* Instances of HciSending for TLC: one connection with two channels, or   *)
(* two connections with one each.                                          *)
(***************************************************************************)
EXTENDS HciSending

CONSTANTS h1, h2, c1, c2, c3

OneLinkHandles == [c \in {c1, c2} |-> h1]
TwoLinkHandles == [c \in {c1, c3} |-> IF c = c3 THEN h2 ELSE h1]
=============================================================================
