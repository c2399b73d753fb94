-------------------------- MODULE MCRingBufferFifo --------------------------
(* An instance of RingBufferFifo small enough to visit every pair of       *)
(* indices, with blocks from empty to one byte more than the storage.      *)
EXTENDS RingBufferFifo

MCSize == 4
MCValues == {0, 1}
MCBlocks == {<<>>, <<1>>, <<0, 1>>, <<1, 0, 1>>, <<0, 0, 1, 1>>, <<1, 1, 0, 0, 1>>}
MCAmounts == 0 .. 5
=============================================================================
