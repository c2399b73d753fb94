--------------------------- MODULE RingBufferFifo ---------------------------
(***************************************************************************)
(* Sequences of calls to one ring buffer, in any order, as its users make  *)
(* them: the VHCI transport (bytes of HCI packets) and the audio glue      *)
(* (PCM and mSBC bytes).  RingBufferSpec implements ByteFifo.              *)
(***************************************************************************)
EXTENDS BtRingBuffer

CONSTANTS
  Size,     \* bytes of storage
  Values,   \* values a byte can have
  Blocks,   \* blocks a caller writes
  Amounts   \* numbers of bytes a caller asks for

ASSUME SizeAssumption    == Size \in Nat \ {0}
ASSUME BlocksAssumption  == Blocks \subseteq Seq(Values)
ASSUME AmountsAssumption == Amounts \subseteq Nat

VARIABLES
  ring,    \* the ring buffer
  answer   \* what the last call gave its caller: a status or the bytes read

ringVars == <<ring, answer>>

RingBufferInit ==
  /\ \E b \in Values : ring = New([k \in 0 .. Size-1 |-> b], Size)
  /\ answer = <<>>

WriteCall(data) ==
  /\ ring' = Write(ring, data)
  /\ answer' = <<WriteStatus(ring, data)>>

ReadCall(n) ==
  /\ ring' = Read(ring, n)
  /\ answer' = ReadData(ring, n)

ResetCall ==
  /\ ring' = Reset(ring)
  /\ answer' = <<>>

RingBufferNext ==
  \/ \E data \in Blocks : WriteCall(data)
  \/ \E n \in Amounts : ReadCall(n)
  \/ ResetCall

RingBufferSpec == RingBufferInit /\ [][RingBufferNext]_ringVars

-----------------------------------------------------------------------------
(* The indices stay inside the storage and "full" is set only when they    *)
(* meet: with "full" set at other indices, bytes_available would report    *)
(* Size bytes of which most were never written.                            *)
RingBufferTypeOK ==
  /\ ring \in RingBuffers(Size, Values)
  /\ ring.full => ring.last_read_index = ring.last_written_index

(* btstack_ring_buffer_write stores a block whole or refuses it, and       *)
(* btstack_ring_buffer_read returns the oldest bytes, wherever the block   *)
(* wraps around the end of the storage.                                    *)
Fifo == INSTANCE ByteFifo WITH queue <- Contents(ring), Byte <- Values
ImplementsFifo == Fifo!FifoSpec
=============================================================================
