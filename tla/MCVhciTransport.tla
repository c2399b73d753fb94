-------------------------- MODULE MCVhciTransport --------------------------
(***************************************************************************)
(* Instances of VhciTransport for TLC.  A packet is its H4 type and a few  *)
(* bytes that tell it from the others.                                     *)
(***************************************************************************)
EXTENDS VhciTransport

(* Lengths differ, so that frames wrap around the storage at every offset. *)
MixedPackets == { <<2, 1, 2>>, <<4, 3>>, <<4>> }

(* Frames of 4 and 8 bytes in a storage of 12: a frame may wrap, but a     *)
(* packet that fits always fits with its length.                           *)
EvenPackets == { <<2, 1>>, <<4, 1, 2, 3, 4, 5>> }
=============================================================================
