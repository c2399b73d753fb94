------------------------------ MODULE ByteFifo ------------------------------
(***************************************************************************)
(* What a ring buffer promises: a queue of at most Size bytes.  A block is *)
(* appended whole or refused, a read takes the oldest bytes there are, up  *)
(* to the number asked for, and answer is what the last call told its      *)
(* caller.                                                                 *)
(***************************************************************************)
EXTENDS Integers, Sequences

CONSTANTS Size, Byte, Blocks, Amounts

VARIABLES queue, answer

FifoInit == queue = <<>> /\ answer = <<>>

Put(data) ==
  /\ Len(queue) + Len(data) <= Size
  /\ queue' = queue \o data
  /\ answer' = <<0>>

Refuse(data) ==
  /\ Len(queue) + Len(data) > Size
  /\ answer' = <<7>>
  /\ UNCHANGED queue

Take(n) ==
  LET m == IF n <= Len(queue) THEN n ELSE Len(queue)
  IN  /\ answer' = SubSeq(queue, 1, m)
      /\ queue' = SubSeq(queue, m + 1, Len(queue))

Clear == queue' = <<>> /\ answer' = <<>>

FifoNext ==
  \/ \E data \in Blocks : Put(data) \/ Refuse(data)
  \/ \E n \in Amounts : Take(n)
  \/ Clear

FifoSpec == FifoInit /\ [][FifoNext]_<<queue, answer>>
=============================================================================
