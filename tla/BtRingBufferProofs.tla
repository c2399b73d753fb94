-------------------------- MODULE BtRingBufferProofs --------------------------
(***************************************************************************)
(* Facts about the operators of the ring buffer, for every storage size,   *)
(* every set of bytes and every block: what its users' proofs cite.  From  *)
(* them, that the ring buffer implements the queue ByteFifo: WriteAppends, *)
(* ReadTakes and the type invariant, which says what "full" means, make    *)
(* each call a step of the queue.                                          *)
(***************************************************************************)
EXTENDS RingBufferFifo, SequenceTheorems, TLAPS

(* bytes_available reports between none and all of the storage.            *)
LEMMA AvailableType ==
  ASSUME NEW N \in Nat \ {0}, NEW B, NEW rb \in RingBuffers(N, B)
  PROVE  BytesAvailable(rb) \in 0 .. N
BY DEF RingBuffers, BytesAvailable

(* A new ring buffer is one, and holds nothing.                            *)
LEMMA NewIsEmpty ==
  ASSUME NEW N \in Nat \ {0}, NEW B, NEW storage \in [0 .. N-1 -> B]
  PROVE  /\ New(storage, N) \in RingBuffers(N, B)
         /\ BytesAvailable(New(storage, N)) = 0
BY DEF RingBuffers, BytesAvailable, New

(* An index advanced by what the storage can hold stays in the storage.    *)
LEMMA AdvanceType ==
  ASSUME NEW N \in Nat \ {0}, NEW B, NEW rb \in RingBuffers(N, B),
         NEW i \in 0 .. N-1, NEW n \in 0 .. N
  PROVE  Advance(rb, i, n) \in 0 .. N-1
<1>1. rb.size = N
  BY DEF RingBuffers
<1>2. FirstChunk(rb, i, n) = IF N - i <= n THEN N - i ELSE n
  BY <1>1 DEF FirstChunk, Least
<1> QED
  BY <1>1, <1>2 DEF Advance

(* btstack_ring_buffer_write leaves a ring buffer, whatever the block.     *)
LEMMA WriteType ==
  ASSUME NEW N \in Nat \ {0}, NEW B, NEW rb \in RingBuffers(N, B),
         NEW data \in Seq(B)
  PROVE  Write(rb, data) \in RingBuffers(N, B)
<1> DEFINE n == Len(data)
           w == rb.last_written_index
           first == FirstChunk(rb, w, n)
           end == Advance(rb, w, n)
           storage == [k \in DOMAIN rb.storage |->
                             IF k \in w .. w + first - 1 THEN data[k - w + 1]
                             ELSE IF k < n - first THEN data[first + k + 1]
                             ELSE rb.storage[k]]
<1>1. CASE n = 0 \/ WriteStatus(rb, data) # ERROR_CODE_SUCCESS
  BY <1>1 DEF Write
<1>2. CASE n # 0 /\ WriteStatus(rb, data) = ERROR_CODE_SUCCESS
  <2>1. n \in 0 .. N
    <3>1. BytesAvailable(rb) \in 0 .. N
      BY AvailableType
    <3>2. ~ (BytesFree(rb) < n)
      BY <1>2 DEF WriteStatus, ERROR_CODE_SUCCESS,
                  ERROR_CODE_MEMORY_CAPACITY_EXCEEDED
    <3> QED
      BY <3>1, <3>2, rb.size = N, n \in Nat DEF BytesFree, RingBuffers
  <2>2. w \in 0 .. N-1 /\ rb.size = N /\ rb.storage \in [0 .. N-1 -> B]
    BY DEF RingBuffers
  <2>3. first \in 0 .. n
    BY <2>1, <2>2 DEF FirstChunk, Least
  <2>4. end \in 0 .. N-1
    BY <2>1, <2>2, AdvanceType
  <2>5. storage \in [0 .. N-1 -> B]
    <3>1. ASSUME NEW j \in 1 .. n PROVE data[j] \in B
      BY <3>1
    <3>2. DOMAIN rb.storage = 0 .. N-1
      BY <2>2
    <3>3. ASSUME NEW k \in 0 .. N-1 PROVE storage[k] \in B
      <4>1. CASE k \in w .. w + first - 1
        BY <3>1, <3>2, <4>1, <2>1, <2>2, <2>3
      <4>2. CASE k \notin w .. w + first - 1
        BY <3>1, <3>2, <4>2, <2>1, <2>2, <2>3
      <4> QED BY <4>1, <4>2
    <3> QED BY <3>2, <3>3
  <2>6. Write(rb, data) = [rb EXCEPT !.storage = storage,
                                     !.last_written_index = end,
                                     !.full = @ \/ end = rb.last_read_index]
    BY <1>2 DEF Write
  <2> HIDE DEF storage, end
  <2> QED
    BY <2>4, <2>5, <2>6 DEF RingBuffers
<1> QED
  BY <1>1, <1>2

(* btstack_ring_buffer_read leaves a ring buffer, and the bytes it returns *)
(* are as many as it reports and come from the storage.                    *)
LEMMA ReadType ==
  ASSUME NEW N \in Nat \ {0}, NEW B, NEW rb \in RingBuffers(N, B),
         NEW n \in Nat
  PROVE  /\ Read(rb, n) \in RingBuffers(N, B)
         /\ ReadData(rb, n) \in Seq(B)
         /\ Len(ReadData(rb, n)) = BytesRead(rb, n)
         /\ BytesRead(rb, n) \in 0 .. N
<1> DEFINE m == BytesRead(rb, n)
           r == rb.last_read_index
           first == FirstChunk(rb, r, m)
<1>1. m \in 0 .. N
  BY AvailableType DEF BytesRead, Least
<1>2. r \in 0 .. N-1 /\ rb.size = N /\ rb.storage \in [0 .. N-1 -> B]
  BY DEF RingBuffers
<1>3. Advance(rb, r, m) \in 0 .. N-1
  BY <1>1, <1>2, AdvanceType
<1>4. Read(rb, n) \in RingBuffers(N, B)
  <2>1. Read(rb, n) = IF m = 0 THEN rb
                      ELSE [rb EXCEPT !.last_read_index = Advance(rb, r, m),
                                      !.full = FALSE]
    BY DEF Read
  <2> HIDE DEF m, r
  <2> QED
    BY <2>1, <1>3 DEF RingBuffers
<1>5. first = IF N - r <= m THEN N - r ELSE m
  BY <1>1, <1>2 DEF FirstChunk, Least
<1>6. ASSUME NEW k \in 1 .. m
      PROVE  (IF k <= first THEN rb.storage[r + k - 1]
                            ELSE rb.storage[k - first - 1]) \in B
  BY <1>1, <1>2, <1>5
<1>7. ReadData(rb, n) = [k \in 1 .. m |->
                          IF k <= first THEN rb.storage[r + k - 1]
                                        ELSE rb.storage[k - first - 1]]
  BY DEF ReadData
<1>8. ReadData(rb, n) \in [1 .. m -> B]
  BY <1>6, <1>7
<1> QED
  BY <1>1, <1>4, <1>8, m \in Nat

-----------------------------------------------------------------------------
(* What a ring buffer holds, as a queue.                                   *)

(* "full" is only set when the indices meet. *)
FullWhenMet(rb) == rb.full => rb.last_read_index = rb.last_written_index

(* The index of the k-th byte from index i on.                             *)
IndexAt(i, k, N) == IF i + k - 1 < N THEN i + k - 1 ELSE i + k - 1 - N

LEMMA ContentsType ==
  ASSUME NEW N \in Nat \ {0}, NEW B, NEW rb \in RingBuffers(N, B)
  PROVE  /\ Contents(rb) \in Seq(B)
         /\ Len(Contents(rb)) = BytesAvailable(rb)
         /\ \A k \in 1 .. BytesAvailable(rb) :
              Contents(rb)[k] = rb.storage[IndexAt(rb.last_read_index, k, N)]
<1> DEFINE a == BytesAvailable(rb)
           byte(k) == rb.storage[IndexAt(rb.last_read_index, k, N)]
<1>1. a \in 0 .. N
  BY AvailableType
<1>2. rb.size = N /\ rb.last_read_index \in 0 .. N-1 /\ rb.storage \in [0 .. N-1 -> B]
  BY DEF RingBuffers
<1>3. ASSUME NEW k \in 1 .. a PROVE byte(k) \in B
  BY <1>1, <1>2, <1>3 DEF IndexAt
<1>4. Contents(rb) = [k \in 1 .. a |-> byte(k)]
  BY <1>2 DEF Contents, IndexAt
<1> HIDE DEF a, byte
<1>5. Contents(rb) \in [1 .. a -> B] /\ a \in Nat
  BY <1>1, <1>3, <1>4
<1>6. Len(Contents(rb)) = a /\ Contents(rb) \in Seq(B)
  BY <1>5
<1> QED
  BY <1>4, <1>6 DEF a, byte

(* The write index follows the last byte there is.                         *)
LEMMA WriteIndex ==
  ASSUME NEW N \in Nat \ {0}, NEW B, NEW rb \in RingBuffers(N, B),
         FullWhenMet(rb)
  PROVE  rb.last_written_index =
           IndexAt(rb.last_read_index, BytesAvailable(rb) + 1, N)
BY DEF RingBuffers, FullWhenMet, IndexAt, BytesAvailable

(* Advancing in two chunks is advancing modulo the size.                   *)
LEMMA AdvanceIndex ==
  ASSUME NEW N \in Nat \ {0}, NEW B, NEW rb \in RingBuffers(N, B),
         NEW i \in 0 .. N-1, NEW n \in 0 .. N
  PROVE  Advance(rb, i, n) = IndexAt(i, n + 1, N)
<1>1. rb.size = N
  BY DEF RingBuffers
<1>2. FirstChunk(rb, i, n) = IF N - i <= n THEN N - i ELSE n
  BY <1>1 DEF FirstChunk, Least
<1> QED
  BY <1>1, <1>2 DEF Advance, IndexAt

(* Where a block is written nothing is held yet.                           *)
LEMMA BlockBesideContents ==
  ASSUME NEW N \in Nat \ {0}, NEW r \in 0 .. N-1, NEW a \in 0 .. N,
         NEW n \in Nat, a + n <= N, NEW k \in 1 .. a
  PROVE  LET w == IndexAt(r, a + 1, N)
             first == IF N - w <= n THEN N - w ELSE n
             i == IndexAt(r, k, N)
         IN  i \notin w .. w + first - 1 /\ ~ (i < n - first)
BY DEF IndexAt

(* btstack_ring_buffer_write appends a block that fits, wherever it wraps. *)
LEMMA WriteAppends ==
  ASSUME NEW N \in Nat \ {0}, NEW B, NEW rb \in RingBuffers(N, B),
         FullWhenMet(rb), NEW data \in Seq(B),
         Len(data) <= BytesFree(rb)
  PROVE  /\ Contents(Write(rb, data)) = Contents(rb) \o data
         /\ FullWhenMet(Write(rb, data))
         /\ WriteStatus(rb, data) = ERROR_CODE_SUCCESS
<1> DEFINE n == Len(data)
           a == BytesAvailable(rb)
           r == rb.last_read_index
           w == rb.last_written_index
           new == Write(rb, data)
<1>1. /\ rb.size = N /\ r \in 0 .. N-1 /\ w \in 0 .. N-1
      /\ rb.storage \in [0 .. N-1 -> B] /\ rb.full \in BOOLEAN
  BY DEF RingBuffers
<1>2. a \in 0 .. N /\ n \in Nat /\ a + n <= N
  BY <1>1, AvailableType DEF BytesFree
<1>3. WriteStatus(rb, data) = ERROR_CODE_SUCCESS
  BY <1>1, <1>2 DEF WriteStatus, BytesFree
<1>4. Contents(rb) \in Seq(B) /\ Len(Contents(rb)) = a
  BY ContentsType
<1>5. CASE n = 0
  <2>1. new = rb
    BY <1>5 DEF Write
  <2>2. data = <<>>
    BY <1>5, EmptySeq
  <2>3. Contents(rb) \o data = Contents(rb)
    BY <2>2, <1>4, ConcatEmptySeq
  <2> QED
    BY <2>1, <2>3, <1>3
<1>6. CASE n # 0
  <2> DEFINE first == FirstChunk(rb, w, n)
             end == Advance(rb, w, n)
             storage == [k \in DOMAIN rb.storage |->
                             IF k \in w .. w + first - 1 THEN data[k - w + 1]
                             ELSE IF k < n - first THEN data[first + k + 1]
                             ELSE rb.storage[k]]
  <2>1. new = [rb EXCEPT !.storage = storage, !.last_written_index = end,
                         !.full = @ \/ end = rb.last_read_index]
    BY <1>3, <1>6 DEF Write
  <2>2. new \in RingBuffers(N, B)
    BY WriteType
  <2>3. end = IndexAt(w, n + 1, N)
    BY <1>1, <1>2, AdvanceIndex
  <2>4. w = IndexAt(r, a + 1, N)
    BY WriteIndex
  <2>5. rb.full = FALSE
    BY <1>1, <1>2, <1>6 DEF BytesAvailable
  <2>6. first = IF N - w <= n THEN N - w ELSE n
    BY <1>1, <1>2 DEF FirstChunk, Least
  <2>7. /\ new.storage = storage /\ new.last_written_index = end
        /\ new.full = (end = r) /\ new.last_read_index = r /\ new.size = N
    <3> HIDE DEF storage, end, new
    <3> QED BY <2>1, <2>5, <1>1 DEF RingBuffers
  <2>8. BytesAvailable(new) = a + n
    <3> HIDE DEF storage, end, new, first, w, r, a, n
    <3>1. BytesAvailable(new) = IF end = r THEN N
                                ELSE IF end - r >= 0 THEN end - r ELSE end - r + N
      BY <2>7 DEF BytesAvailable
    <3> QED BY <3>1, <2>3, <2>4, <1>1, <1>2, <1>6 DEF IndexAt
  <2>9. ASSUME NEW k \in 1 .. a + n
        PROVE  storage[IndexAt(r, k, N)] =
                 IF k <= a THEN rb.storage[IndexAt(r, k, N)] ELSE data[k - a]
    <3> DEFINE i == IndexAt(r, k, N)
    <3>1. DOMAIN rb.storage = 0 .. N-1
      BY <1>1
    <3> HIDE DEF n, a, r, w, first
    <3>2. i \in 0 .. N-1
      BY <1>1, <1>2 DEF IndexAt
    <3>3. storage[i] = IF i \in w .. w + first - 1 THEN data[i - w + 1]
                       ELSE IF i < n - first THEN data[first + i + 1]
                       ELSE rb.storage[i]
      BY <3>1, <3>2
    <3> HIDE DEF storage
    <3>4. CASE k <= a
      <4>1. i \notin w .. w + first - 1 /\ ~ (i < n - first)
        <5>1. k \in 1 .. a
          BY <3>4, <1>2
        <5> HIDE DEF i
        <5> QED BY <5>1, <1>1, <1>2, <2>4, <2>6, BlockBesideContents DEF i
      <4> HIDE DEF i
      <4> QED BY <3>3, <3>4, <4>1 DEF i
    <3>5. CASE ~ (k <= a)
      <4>1. \/ i \in w .. w + first - 1 /\ i - w + 1 = k - a
            \/ i \notin w .. w + first - 1 /\ i < n - first /\ first + i + 1 = k - a
        BY <3>5, <1>1, <1>2, <2>4, <2>6 DEF IndexAt
      <4>2. storage[i] = data[k - a]
        <5> HIDE DEF i
        <5> QED BY <3>3, <4>1
      <4> QED BY <3>5, <4>2
    <3> QED BY <3>4, <3>5
  <2>10. /\ Contents(new) \in Seq(B) /\ Len(Contents(new)) = a + n
         /\ \A k \in 1 .. a + n : Contents(new)[k] = storage[IndexAt(r, k, N)]
    <3> HIDE DEF storage, new, n, a, r
    <3>1. Contents(new) \in Seq(B) /\ Len(Contents(new)) = BytesAvailable(new)
      BY <2>2, ContentsType
    <3>2. \A k \in 1 .. BytesAvailable(new) :
            Contents(new)[k] = new.storage[IndexAt(new.last_read_index, k, N)]
      BY <2>2, ContentsType
    <3> QED BY <3>1, <3>2, <2>7, <2>8
  <2>11. \A k \in 1 .. a :
           Contents(rb)[k] = rb.storage[IndexAt(r, k, N)]
    BY ContentsType
  <2>12. Contents(new) = Contents(rb) \o data
    <3> DEFINE both == Contents(rb) \o data
    <3> HIDE DEF storage, new, r
    <3>1. both \in Seq(B) /\ Len(both) = a + n
      BY <1>4, ConcatProperties
    <3>2. \A k \in 1 .. a + n :
            both[k] = IF k <= a THEN Contents(rb)[k] ELSE data[k - a]
      BY <1>4, ConcatProperties
    <3> HIDE DEF both, n, a
    <3>3. \A k \in 1 .. a + n : Contents(new)[k] = both[k]
      <4> TAKE k \in 1 .. a + n
      <4>1. CASE k <= a
        BY <4>1, <2>9, <2>10, <2>11, <3>2, <1>2
      <4>2. CASE ~ (k <= a)
        BY <4>2, <2>9, <2>10, <3>2, <1>2
      <4> QED BY <4>1, <4>2
    <3> QED BY <3>1, <3>3, <2>10, SeqEqual DEF both
  <2>13. FullWhenMet(new)
    <3> HIDE DEF new, end
    <3> QED BY <2>7 DEF FullWhenMet
  <2> QED
    BY <2>12, <2>13, <1>3
<1> QED
  BY <1>5, <1>6

(* btstack_ring_buffer_read takes the oldest bytes there are, up to the    *)
(* number asked for, wherever they wrap.                                   *)
LEMMA ReadTakes ==
  ASSUME NEW N \in Nat \ {0}, NEW B, NEW rb \in RingBuffers(N, B),
         FullWhenMet(rb), NEW n \in Nat
  PROVE  /\ ReadData(rb, n) = SubSeq(Contents(rb), 1, BytesRead(rb, n))
         /\ Contents(Read(rb, n)) =
              SubSeq(Contents(rb), BytesRead(rb, n) + 1, Len(Contents(rb)))
         /\ FullWhenMet(Read(rb, n))
<1> DEFINE m == BytesRead(rb, n)
           a == BytesAvailable(rb)
           r == rb.last_read_index
           w == rb.last_written_index
           first == FirstChunk(rb, r, m)
           new == Read(rb, n)
           held == Contents(rb)
<1>1. /\ rb.size = N /\ r \in 0 .. N-1 /\ w \in 0 .. N-1
      /\ rb.storage \in [0 .. N-1 -> B] /\ rb.full \in BOOLEAN
  BY DEF RingBuffers
<1>2. a \in 0 .. N /\ m \in 0 .. a
  BY AvailableType DEF BytesRead, Least
<1>3. /\ held \in Seq(B) /\ Len(held) = a
      /\ \A k \in 1 .. a : held[k] = rb.storage[IndexAt(r, k, N)]
  BY ContentsType
<1>4. w = IndexAt(r, a + 1, N)
  BY WriteIndex
<1>5. ReadData(rb, n) = SubSeq(held, 1, m)
  <2>1. ReadData(rb, n) \in Seq(B) /\ Len(ReadData(rb, n)) = m
    BY ReadType
  <2>2. first = IF N - r <= m THEN N - r ELSE m
    BY <1>1, <1>2 DEF FirstChunk, Least
  <2>3. ReadData(rb, n) = [k \in 1 .. m |->
                            IF k <= first THEN rb.storage[r + k - 1]
                                          ELSE rb.storage[k - first - 1]]
    BY DEF ReadData
  <2> HIDE DEF m, a, r, held, first
  <2>4. \A k \in 1 .. m : held[k] \in B
    BY <1>2, <1>3
  <2>5. /\ SubSeq(held, 1, m) \in Seq(B) /\ Len(SubSeq(held, 1, m)) = m
        /\ \A k \in 1 .. m : SubSeq(held, 1, m)[k] = held[k]
    BY <2>4, <1>2, SubSeqProperties
  <2>6. ASSUME NEW k \in 1 .. m PROVE ReadData(rb, n)[k] = held[k]
    BY <2>2, <2>3, <1>1, <1>2, <1>3 DEF IndexAt
  <2> QED
    BY <2>1, <2>5, <2>6, SeqEqual
<1>6. CASE m = 0
  <2>1. new = rb
    BY <1>6 DEF Read
  <2>2. SubSeq(held, 1, a) = held
    BY <1>3, SubSeqFull
  <2> QED
    BY <1>3, <1>5, <1>6, <2>1, <2>2
<1>7. CASE m # 0
  <2> DEFINE index == Advance(rb, r, m)
  <2>1. new = [rb EXCEPT !.last_read_index = index, !.full = FALSE]
    BY <1>7 DEF Read
  <2>2. new \in RingBuffers(N, B)
    BY ReadType
  <2>3. index = IndexAt(r, m + 1, N)
    BY <1>1, <1>2, AdvanceIndex
  <2>4. /\ new.storage = rb.storage /\ new.last_read_index = index
        /\ new.last_written_index = w /\ new.full = FALSE /\ new.size = N
    <3> HIDE DEF index, new
    <3> QED BY <2>1, <1>1 DEF RingBuffers
  <2>5. BytesAvailable(new) = a - m
    <3> HIDE DEF index, new, m, a, r, w
    <3>1. BytesAvailable(new) =
            IF w - index >= 0 THEN w - index ELSE w - index + N
      BY <2>4 DEF BytesAvailable
    <3> QED BY <3>1, <2>3, <1>4, <1>1, <1>2, <1>7 DEF IndexAt
  <2> DEFINE rest == SubSeq(held, m + 1, a)
  <2>6. /\ Contents(new) \in Seq(B) /\ Len(Contents(new)) = a - m
        /\ \A k \in 1 .. a - m :
             Contents(new)[k] = rb.storage[IndexAt(index, k, N)]
    <3> HIDE DEF index, new, m, a
    <3>1. Contents(new) \in Seq(B) /\ Len(Contents(new)) = BytesAvailable(new)
      BY <2>2, ContentsType
    <3>2. \A k \in 1 .. BytesAvailable(new) :
            Contents(new)[k] = new.storage[IndexAt(new.last_read_index, k, N)]
      BY <2>2, ContentsType
    <3> QED BY <3>1, <3>2, <2>4, <2>5
  <2> HIDE DEF index, new, m, a, r, w, held
  <2>7. /\ rest \in Seq(B) /\ Len(rest) = a - m
        /\ \A k \in 1 .. a - m : rest[k] = held[m + k]
    <3>1. \A k \in m + 1 .. a : held[k] \in B
      BY <1>2, <1>3
    <3>2. /\ rest \in Seq(B) /\ Len(rest) = (IF m + 1 <= a THEN a - (m + 1) + 1 ELSE 0)
          /\ \A k \in 1 .. a - (m + 1) + 1 : rest[k] = held[m + 1 + k - 1]
      BY <3>1, <1>2, SubSeqProperties
    <3> HIDE DEF rest
    <3> QED BY <3>2, <1>2
  <2>8. ASSUME NEW k \in 1 .. a - m
        PROVE  rb.storage[IndexAt(index, k, N)] = held[m + k]
    <3>1. m + k \in 1 .. a
      BY <1>2
    <3>2. IndexAt(index, k, N) = IndexAt(r, m + k, N)
      BY <2>3, <1>1, <1>2 DEF IndexAt
    <3> QED BY <3>1, <3>2, <1>3
  <2>9. Contents(new) = rest
    <3> HIDE DEF rest
    <3> QED BY <2>6, <2>7, <2>8, SeqEqual
  <2>10. FullWhenMet(new)
    BY <2>4 DEF FullWhenMet
  <2> QED
    BY <1>3, <1>5, <2>9, <2>10 DEF m, a, held, new
<1> QED
  BY <1>6, <1>7, <1>2

-----------------------------------------------------------------------------
(* The state machine of its calls: the type invariant and the queue.       *)

LEMMA RingBufferTypedInitially == RingBufferInit => RingBufferTypeOK
<1> SUFFICES ASSUME NEW b \in Values, ring = New([k \in 0 .. Size-1 |-> b], Size)
             PROVE  RingBufferTypeOK
  BY DEF RingBufferInit
<1> DEFINE storage == [k \in 0 .. Size-1 |-> b]
<1>1. storage \in [0 .. Size-1 -> Values]
  OBVIOUS
<1> HIDE DEF storage
<1>2. ring = New(storage, Size)
  BY DEF storage
<1>3. ring \in RingBuffers(Size, Values)
  BY <1>1, <1>2, NewIsEmpty, SizeAssumption
<1> QED
  BY <1>2, <1>3 DEF RingBufferTypeOK, New

LEMMA RingBufferTypedInductive ==
  RingBufferTypeOK /\ [RingBufferNext]_ringVars => RingBufferTypeOK'
<1> SUFFICES ASSUME RingBufferTypeOK, [RingBufferNext]_ringVars PROVE RingBufferTypeOK'
  OBVIOUS
<1>1. ring \in RingBuffers(Size, Values) /\ FullWhenMet(ring)
  BY DEF RingBufferTypeOK, FullWhenMet
<1>0. BytesAvailable(ring) \in 0 .. Size /\ ring.size = Size
  <2>1. BytesAvailable(ring) \in 0 .. Size
    BY <1>1, AvailableType, SizeAssumption
  <2> QED BY <1>1, <2>1 DEF RingBuffers
<1>2. ASSUME NEW data \in Blocks, WriteCall(data) PROVE RingBufferTypeOK'
  <2>1. data \in Seq(Values) /\ ring' = Write(ring, data)
    BY <1>2, BlocksAssumption DEF WriteCall
  <2>2. ring' \in RingBuffers(Size, Values)
    BY <1>1, <2>1, WriteType, SizeAssumption
  <2>3. CASE Len(data) <= BytesFree(ring)
    <3>1. FullWhenMet(ring')
      BY <1>1, <2>1, <2>3, WriteAppends, SizeAssumption
    <3> QED BY <2>2, <3>1 DEF RingBufferTypeOK, FullWhenMet
  <2>4. CASE ~ (Len(data) <= BytesFree(ring))
    <3>1. BytesFree(ring) \in Nat /\ Len(data) \in Nat
      BY <1>0, <2>1, SizeAssumption DEF BytesFree
    <3>2. ring' = ring
      BY <2>1, <2>4, <3>1 DEF Write, WriteStatus, ERROR_CODE_SUCCESS,
                              ERROR_CODE_MEMORY_CAPACITY_EXCEEDED
    <3> QED BY <3>2 DEF RingBufferTypeOK
  <2> QED BY <2>3, <2>4
<1>3. ASSUME NEW n \in Amounts, ReadCall(n) PROVE RingBufferTypeOK'
  <2>1. n \in Nat /\ ring' = Read(ring, n)
    BY <1>3, AmountsAssumption DEF ReadCall
  <2>2. ring' \in RingBuffers(Size, Values) /\ FullWhenMet(ring')
    BY <1>1, <2>1, ReadType, ReadTakes, SizeAssumption
  <2> QED BY <2>2 DEF RingBufferTypeOK, FullWhenMet
<1>4. CASE ResetCall
  <2>1. ring' = Reset(ring)
    BY <1>4 DEF ResetCall
  <2>2. 0 \in 0 .. Size-1
    BY SizeAssumption
  <2>3. ring' \in RingBuffers(Size, Values)
    BY <1>1, <2>1, <2>2 DEF Reset, RingBuffers
  <2>4. ring'.full = FALSE
    BY <1>1, <2>1 DEF Reset, RingBuffers
  <2> QED BY <2>3, <2>4 DEF RingBufferTypeOK
<1>5. CASE UNCHANGED ringVars
  BY <1>5 DEF ringVars, RingBufferTypeOK
<1> QED
  BY <1>2, <1>3, <1>4, <1>5 DEF RingBufferNext

(* The indices stay inside the storage, whatever is written and read       *)
(* (btstack_ring_buffer_write and _read compare and subtract, they never   *)
(* take a modulus), and "full" says that they met.                         *)
THEOREM RingBufferTypeCorrect == RingBufferSpec => []RingBufferTypeOK
<1> QED
  BY RingBufferTypedInitially, RingBufferTypedInductive, PTL DEF RingBufferSpec

-----------------------------------------------------------------------------
(* A buffer that was made or reset holds nothing.                          *)
LEMMA NothingHeld ==
  ASSUME NEW buffer, BytesAvailable(buffer) = 0
  PROVE  Contents(buffer) = <<>>
BY DEF Contents

LEMMA EmptyInitially == RingBufferInit => Fifo!FifoInit
<1> SUFFICES ASSUME NEW b \in Values, ring = New([k \in 0 .. Size-1 |-> b], Size),
                    answer = <<>>
             PROVE  Fifo!FifoInit
  BY DEF RingBufferInit
<1>1. BytesAvailable(ring) = 0
  BY DEF New, BytesAvailable
<1>2. Contents(ring) = <<>>
  BY <1>1, NothingHeld
<1> QED
  BY <1>2 DEF Fifo!FifoInit

(* Each call is the queue's: a block that fits is put, one that does not   *)
(* is refused, a read takes, a reset clears.                               *)
LEMMA CallsAreQueueCalls ==
  RingBufferTypeOK /\ [RingBufferNext]_ringVars => [Fifo!FifoNext]_<<Contents(ring), answer>>
<1> SUFFICES ASSUME RingBufferTypeOK, [RingBufferNext]_ringVars
             PROVE  [Fifo!FifoNext]_<<Contents(ring), answer>>
  OBVIOUS
<1>1. ring \in RingBuffers(Size, Values) /\ FullWhenMet(ring)
  BY DEF RingBufferTypeOK, FullWhenMet
<1>2. /\ Len(Contents(ring)) = BytesAvailable(ring)
      /\ BytesAvailable(ring) \in 0 .. Size
      /\ BytesFree(ring) = Size - BytesAvailable(ring)
  <2>1. Len(Contents(ring)) = BytesAvailable(ring) /\ BytesAvailable(ring) \in 0 .. Size
    BY <1>1, SizeAssumption, AvailableType, ContentsType
  <2> QED BY <1>1, <2>1 DEF BytesFree, RingBuffers
<1>3. ASSUME NEW data \in Blocks, WriteCall(data)
      PROVE  Fifo!Put(data) \/ Fifo!Refuse(data)
  <2>1. /\ data \in Seq(Values) /\ Len(data) \in Nat
        /\ ring' = Write(ring, data) /\ answer' = <<WriteStatus(ring, data)>>
    BY <1>3, BlocksAssumption DEF WriteCall
  <2>2. CASE Len(data) <= BytesFree(ring)
    <3>1. /\ Contents(Write(ring, data)) = Contents(ring) \o data
          /\ WriteStatus(ring, data) = ERROR_CODE_SUCCESS
      BY <1>1, <2>1, <2>2, WriteAppends, SizeAssumption
    <3>2. Contents(ring)' = Contents(ring) \o data /\ answer' = <<0>>
      BY <2>1, <3>1 DEF ERROR_CODE_SUCCESS
    <3>3. Len(Contents(ring)) + Len(data) <= Size
      BY <1>2, <2>1, <2>2, SizeAssumption
    <3> QED BY <3>2, <3>3 DEF Fifo!Put
  <2>3. CASE ~ (Len(data) <= BytesFree(ring))
    <3>1. Len(Contents(ring)) + Len(data) > Size
      BY <1>2, <2>1, <2>3, SizeAssumption
    <3>2. WriteStatus(ring, data) = 7
      <4>1. BytesFree(ring) < Len(data)
        BY <1>2, <2>1, <2>3, SizeAssumption
      <4> QED BY <4>1 DEF WriteStatus, ERROR_CODE_MEMORY_CAPACITY_EXCEEDED
    <3>3. ring' = ring
      BY <2>1, <3>2 DEF Write, ERROR_CODE_SUCCESS
    <3> QED BY <2>1, <3>1, <3>2, <3>3 DEF Fifo!Refuse
  <2> QED BY <2>2, <2>3
<1>4. ASSUME NEW n \in Amounts, ReadCall(n) PROVE Fifo!Take(n)
  <2>1. n \in Nat /\ ring' = Read(ring, n) /\ answer' = ReadData(ring, n)
    BY <1>4, AmountsAssumption DEF ReadCall
  <2>2. /\ ReadData(ring, n) = SubSeq(Contents(ring), 1, BytesRead(ring, n))
        /\ Contents(Read(ring, n)) =
             SubSeq(Contents(ring), BytesRead(ring, n) + 1, Len(Contents(ring)))
    BY <1>1, <2>1, ReadTakes, SizeAssumption
  <2>3. BytesRead(ring, n) = IF n <= Len(Contents(ring)) THEN n ELSE Len(Contents(ring))
    BY <1>2 DEF BytesRead, Least
  <2> QED BY <2>1, <2>2, <2>3 DEF Fifo!Take
<1>5. ASSUME ResetCall PROVE Fifo!Clear
  <2>1. ring' = Reset(ring) /\ answer' = <<>>
    BY <1>5 DEF ResetCall
  <2>2. BytesAvailable(ring') = 0
    BY <1>1, <2>1 DEF Reset, BytesAvailable, RingBuffers
  <2>3. Contents(ring') = <<>>
    BY <2>2, NothingHeld
  <2> QED BY <2>1, <2>3 DEF Fifo!Clear
<1>6. CASE UNCHANGED ringVars
  BY <1>6 DEF ringVars
<1> QED
  <2>1. ASSUME RingBufferNext PROVE Fifo!FifoNext
    <3>1. CASE \E data \in Blocks : WriteCall(data)
      BY <3>1, <1>3 DEF Fifo!FifoNext
    <3>2. CASE \E n \in Amounts : ReadCall(n)
      BY <3>2, <1>4 DEF Fifo!FifoNext
    <3>3. CASE ResetCall
      BY <3>3, <1>5 DEF Fifo!FifoNext
    <3> QED BY <2>1, <3>1, <3>2, <3>3 DEF RingBufferNext
  <2> QED BY <2>1, <1>6

(* btstack_ring_buffer.c is a bounded queue of bytes for every capacity: a *)
(* block is appended whole or refused, a read returns the oldest bytes,    *)
(* wherever block and read wrap around the end of the storage.             *)
THEOREM RingBufferIsAQueue == RingBufferSpec => ImplementsFifo
<1>1. RingBufferSpec => Fifo!FifoInit
  BY EmptyInitially DEF RingBufferSpec
<1>2. RingBufferTypeOK /\ [RingBufferNext]_ringVars => [Fifo!FifoNext]_<<Contents(ring), answer>>
  BY CallsAreQueueCalls
<1> QED
  BY <1>1, <1>2, RingBufferTypeCorrect, PTL DEF RingBufferSpec, ImplementsFifo, Fifo!FifoSpec
=============================================================================
