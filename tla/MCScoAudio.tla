------------------------------ MODULE MCScoAudio ------------------------------
(***************************************************************************)
(* Instances of ScoAudio for TLC.  The sizes keep the order of the real    *)
(* ones: a CVSD packet is shorter and an mSBC frame longer than a DMA      *)
(* buffer, and mSBC needs twice the prebuffer.                             *)
(***************************************************************************)
EXTENDS ScoAudio

CONSTANTS phone, laptop

BothLinks == {phone, laptop}
Sizes      == [c \in Codecs |-> IF c = CVSD THEN 1 ELSE 3]
Prebuffers == [c \in Codecs |-> IF c = CVSD THEN 2 ELSE 4]
=============================================================================
