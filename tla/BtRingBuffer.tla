---------------------------- MODULE BtRingBuffer ----------------------------
(***************************************************************************)
(* The byte ring buffer of BTstack (lib/BTstack/src/btstack_ring_buffer.c) *)
(* as operators on a record with the fields of btstack_ring_buffer_t.      *)
(*                                                                         *)
(* The three mutable fields are two indices and the flag "full", which     *)
(* tells a full buffer from an empty one when the indices are equal.       *)
(* Indices never use modulo in the code: they are advanced in at most two  *)
(* chunks and wrapped by comparison, and so they are here.                 *)
(***************************************************************************)
EXTENDS Integers, Sequences

(* btstack_min *)
Least(a, b) == IF a <= b THEN a ELSE b

ERROR_CODE_SUCCESS == 0
ERROR_CODE_MEMORY_CAPACITY_EXCEEDED == 7

(* Ring buffers of n bytes, each a member of byte. *)
RingBuffers(n, byte) ==
  [ storage : [0 .. n-1 -> byte], size : {n},
    last_read_index : 0 .. n-1, last_written_index : 0 .. n-1,
    full : BOOLEAN ]

Reset(rb) ==
  [rb EXCEPT !.last_read_index = 0, !.last_written_index = 0, !.full = FALSE]

(* The storage is the caller's array: whatever bytes it already holds. *)
New(storage, n) ==
  [ storage |-> storage, size |-> n, last_read_index |-> 0,
    last_written_index |-> 0, full |-> FALSE ]

BytesAvailable(rb) ==
  LET diff == rb.last_written_index - rb.last_read_index
  IN  IF rb.full THEN rb.size
      ELSE IF diff >= 0 THEN diff ELSE diff + rb.size

BytesFree(rb) == rb.size - BytesAvailable(rb)

(* Bytes of an n-byte block that fit between index i and the end.          *)
FirstChunk(rb, i, n) == Least(rb.size - i, n)

(* The index n bytes after i: the first chunk, the wrap to 0 when it ends  *)
(* at the end of the storage, then the second chunk.                       *)
Advance(rb, i, n) ==
  LET first == FirstChunk(rb, i, n)
      index == IF i + first = rb.size THEN 0 ELSE i + first
  IN  index + (n - first)

WriteStatus(rb, data) ==
  IF BytesFree(rb) < Len(data) THEN ERROR_CODE_MEMORY_CAPACITY_EXCEEDED
                               ELSE ERROR_CODE_SUCCESS

(* A block is stored whole or not at all.                                  *)
Write(rb, data) ==
  LET n     == Len(data)
      w     == rb.last_written_index
      first == FirstChunk(rb, w, n)
      end   == Advance(rb, w, n)
  IN  IF n = 0 \/ WriteStatus(rb, data) # ERROR_CODE_SUCCESS THEN rb
      ELSE [rb EXCEPT
              !.storage = [k \in DOMAIN rb.storage |->
                             IF k \in w .. w + first - 1 THEN data[k - w + 1]
                             ELSE IF k < n - first THEN data[first + k + 1]
                             ELSE rb.storage[k]],
              !.last_written_index = end,
              !.full = @ \/ end = rb.last_read_index]

(* A variant: the full flag survives a read. *)
Read_StaysFull(rb, n) ==
  LET m == Least(n, BytesAvailable(rb))
  IN  [rb EXCEPT !.last_read_index = Advance(rb, @, m)]

(* A read returns as many of the n bytes as there are.                     *)
BytesRead(rb, n) == Least(n, BytesAvailable(rb))

ReadData(rb, n) ==
  LET m     == BytesRead(rb, n)
      r     == rb.last_read_index
      first == FirstChunk(rb, r, m)
  IN  [k \in 1 .. m |-> IF k <= first THEN rb.storage[r + k - 1]
                                      ELSE rb.storage[k - first - 1]]

Read(rb, n) ==
  LET m == BytesRead(rb, n)
  IN  IF m = 0 THEN rb
      ELSE [rb EXCEPT !.last_read_index = Advance(rb, @, m), !.full = FALSE]

(* The bytes a reader would get, oldest first.                             *)
Contents(rb) ==
  [k \in 1 .. BytesAvailable(rb) |->
     LET i == rb.last_read_index + k - 1
     IN  rb.storage[IF i < rb.size THEN i ELSE i - rb.size]]
=============================================================================
