------------------------- MODULE VhciTransportProofs -------------------------
(***************************************************************************)
(* Theorems about the VHCI transport for every storage size, every set of  *)
(* packets and every bound: its variables keep their types, the two tasks  *)
(* exclude each other from the ring buffer, the run loop task never sleeps *)
(* on a packet or a flag, the storage has room for what flow control lets  *)
(* through, and the transport is a first-in first-out channel of whole     *)
(* packets while it does.  For the last two the bytes of the ring buffer   *)
(* are related to the packets that wait by the places where the frames     *)
(* end; the facts about sequences, frames and room come before the proof.  *)
(***************************************************************************)
EXTENDS VhciTransport, BtRingBufferProofs, FiniteSetTheorems

LEMMA StorageSizeType == StorageSize \in Nat \ {0}
BY NumbersAssumption DEF StorageSize

LEMMA TwoBytes ==
  ASSUME NEW n \in Nat, n < 65536
  PROVE  n % 256 \in 0 .. 255 /\ n \div 256 \in 0 .. 255
OBVIOUS

(* The bytes written for a packet are bytes.                               *)
LEMMA LenTagType ==
  ASSUME NEW p \in Packets
  PROVE  LenTag(p) \in Seq(Byte) /\ p \in Seq(Byte)
<1> DEFINE n == Len(p)
<1>1. n \in Nat /\ n < 65536 /\ p \in Seq(Byte)
  BY PacketsAssumption
<1>2. LenTag(p) = <<n % 256, n \div 256>>
  BY DEF LenTag
<1> HIDE DEF n
<1>3. n % 256 \in 0 .. 255 /\ n \div 256 \in 0 .. 255
  BY <1>1, TwoBytes
<1> QED
  BY <1>1, <1>2, <1>3 DEF Byte

(* What a read leaves in the receive buffer, and the part of it the        *)
(* stack's handler is given, are bytes.                                    *)
LEMMA BufferType ==
  ASSUME NEW buffer \in Seq(Byte), NEW data \in Seq(Byte), NEW n \in Nat
  PROVE  Overwrite(buffer, data) \in Seq(Byte) /\ Start(buffer, n) \in Seq(Byte)
<1>1. SubSeq(buffer, Len(data) + 1, Len(buffer)) \in Seq(Byte)
  OBVIOUS
<1>2. SubSeq(buffer, 1, IF n <= Len(buffer) THEN n ELSE Len(buffer)) \in Seq(Byte)
  OBVIOUS
<1> QED
  BY <1>1, <1>2 DEF Overwrite, Start

(* TypeOK is inductive by itself.                                          *)
LEMMA TypeInductive == TypeOK /\ [Next]_vars => TypeOK'
<1> SUFFICES ASSUME TypeOK, [Next]_vars PROVE TypeOK'
  OBVIOUS
<1> USE DEF TypeOK, RecvLabels, MainLabels, flags, lifetime, history,
            store, RecvMoves, MainMoves
<1>1. ASSUME NEW p \in Packets, RecvCalled(p) PROVE TypeOK'
  BY <1>1, NumbersAssumption DEF RecvCalled
<1>2. CASE SendAvailableCalled
  BY <1>2 DEF SendAvailableCalled
<1>3. CASE RecvTakesMutex
  BY <1>3 DEF RecvTakesMutex
<1>4. CASE RecvDrops
  BY <1>4 DEF RecvDrops
<1>5. CASE RecvStoresLength
  <2>1. packet \in Packets
    BY <1>5 DEF RecvStoresLength
  <2>2. LenTag(packet) \in Seq(Byte)
    BY <2>1, LenTagType
  <2>3. hci_ringbuffer' \in RingBuffers(StorageSize, Byte)
    BY <1>5, <2>2, WriteType, StorageSizeType DEF RecvStoresLength
  <2> QED
    BY <1>5, <2>3 DEF RecvStoresLength
<1>6. CASE RecvStoresPacket
  <2>1. packet \in Packets /\ packet \in Seq(Byte)
    BY <1>6, LenTagType DEF RecvStoresPacket
  <2>2. hci_ringbuffer' \in RingBuffers(StorageSize, Byte)
    BY <1>6, <2>1, WriteType, StorageSizeType DEF RecvStoresPacket
  <2>3. accepted' \in Seq(Packets)
    BY <1>6, <2>1 DEF RecvStoresPacket
  <2> QED
    BY <1>6, <2>2, <2>3 DEF RecvStoresPacket
<1>7. CASE RecvSetsFlag
  BY <1>7 DEF RecvSetsFlag
<1>8. CASE Trigger
  BY <1>8 DEF Trigger
<1>9. CASE PollSignalSent
  BY <1>9 DEF PollSignalSent
<1>10. CASE ClearSignalSent
  BY <1>10 DEF ClearSignalSent
<1>11. CASE NotifyPacketSent
  BY <1>11 DEF NotifyPacketSent
<1>12. CASE PollPacketsToDeliver
  BY <1>12 DEF PollPacketsToDeliver
<1>13. CASE ClearPacketsToDeliver
  BY <1>13 DEF ClearPacketsToDeliver
<1>14. CASE DeliverTakesMutex
  BY <1>14 DEF DeliverTakesMutex
<1>15. CASE DeliverEnds
  BY <1>15 DEF DeliverEnds
<1>16. CASE DeliverPacket
  <2> DEFINE rb     == hci_ringbuffer
             tag    == ReadData(rb, 2)
             len    == tag[1] + 256 * (IF Len(tag) = 2 THEN tag[2] ELSE 0)
             rest   == Read(rb, 2)
             data   == ReadData(rest, len)
             buffer == Overwrite(hci_receive_buffer, data)
  <2>1. /\ hci_ringbuffer' = Read(rest, len)
        /\ hci_receive_buffer' = buffer
        /\ delivered' = Append(delivered, Start(buffer, len))
    BY <1>16 DEF DeliverPacket
  <2>2. rest \in RingBuffers(StorageSize, Byte) /\ tag \in Seq(Byte)
    BY ReadType, StorageSizeType
  <2>3. Len(tag) = BytesRead(rb, 2)
    BY ReadType, StorageSizeType
  <2>4. BytesAvailable(rb) \in Nat /\ BytesAvailable(rb) > 0
    BY <1>16, AvailableType, StorageSizeType DEF DeliverPacket
  <2>5. BytesRead(rb, 2) \in {1, 2}
    BY <2>4 DEF BytesRead, Least
  <2> HIDE DEF tag
  <2>6. tag[1] \in Byte /\ (Len(tag) = 2 => tag[2] \in Byte)
    BY <2>2, <2>3, <2>5
  <2>7. len \in Nat
    <3>1. tag[1] \in Nat /\ (Len(tag) = 2 => tag[2] \in Nat)
      <4>1. Byte \subseteq Nat
        BY DEF Byte
      <4> QED
        BY <4>1, <2>6
    <3>2. CASE Len(tag) = 2
      BY <3>1, <3>2
    <3>3. CASE Len(tag) # 2
      BY <3>1, <3>3
    <3> QED
      BY <3>2, <3>3
  <2> HIDE DEF rest, len
  <2>8. Read(rest, len) \in RingBuffers(StorageSize, Byte) /\ data \in Seq(Byte)
    BY <2>2, <2>7, ReadType, StorageSizeType
  <2> HIDE DEF data
  <2>9. buffer \in Seq(Byte)
    BY <2>7, <2>8, BufferType
  <2> HIDE DEF buffer
  <2>10. Start(buffer, len) \in Seq(Byte)
    BY <2>7, <2>8, <2>9, BufferType
  <2> QED
    BY <1>16, <2>1, <2>8, <2>9, <2>10 DEF DeliverPacket
<1>17. CASE HandlerReturns
  BY <1>17 DEF HandlerReturns
<1>18. CASE GoToSleep
  BY <1>18 DEF GoToSleep
<1>19. CASE WakeUp
  BY <1>19 DEF WakeUp
<1>20. CASE TimerDue
  BY <1>20 DEF TimerDue
<1>21. ASSUME NEW r \in {-1, 0}, NEW e \in {-1, 0}, TransportOpen(r, e)
       PROVE  TypeOK'
  <2>1. hci_ringbuffer.storage \in [0 .. StorageSize-1 -> Byte]
    BY DEF RingBuffers
  <2>2. hci_ringbuffer' \in RingBuffers(StorageSize, Byte)
    BY <1>21, <2>1, StorageSizeType, NewIsEmpty DEF TransportOpen
  <2>3. opens' \in 0 .. MaxOpens /\ controller' \in {"off", "initialized", "enabled"}
    BY <1>21, NumbersAssumption DEF TransportOpen
  <2> QED
    BY <1>21, <2>2, <2>3 DEF TransportOpen
<1>22. CASE TransportClose
  BY <1>22 DEF TransportClose
<1>23. CASE UNCHANGED vars
  BY <1>23 DEF vars
<1> QED
  BY <1>1, <1>2, <1>3, <1>4, <1>5, <1>6, <1>7, <1>8, <1>9, <1>10, <1>11,
     <1>12, <1>13, <1>14, <1>15, <1>16, <1>17, <1>18, <1>19, <1>20, <1>21,
     <1>22, <1>23
  DEF Next, ControllerTask, RecvStep, MainTask, TransportProcess

(* Every variable keeps its type; the indices of the ring buffer stay      *)
(* inside hci_ringbuffer_storage whatever packets arrive.                  *)
THEOREM TypeCorrect == Spec => []TypeOK
<1>1. Init => TypeOK
  <2> SUFFICES ASSUME Init PROVE TypeOK
    OBVIOUS
  <2>1. [k \in 0 .. StorageSize-1 |-> 0] \in [0 .. StorageSize-1 -> Byte]
    BY DEF Byte
  <2>2. hci_ringbuffer \in RingBuffers(StorageSize, Byte)
    BY <2>1, StorageSizeType, NewIsEmpty DEF Init
  <2>3. /\ received \in 0 .. MaxPackets /\ opens \in 0 .. MaxOpens
        /\ transport_signal_sent \in 0 .. 1
        /\ transport_packets_to_deliver \in 0 .. 1
        /\ bt_controller_initialized \in 0 .. 1
    BY NumbersAssumption DEF Init
  <2>4. /\ hci_receive_buffer \in Seq(Byte)
        /\ accepted \in Seq(Packets) /\ delivered \in Seq(Seq(Byte))
    BY DEF Init
  <2>5. /\ recv = "idle" /\ packet = <<>> /\ main = "other" /\ notified = FALSE
        /\ ring_buffer_mutex = "none" /\ controller = "off"
    BY DEF Init, TransportInit
  <2> QED
    BY <2>2, <2>3, <2>4, <2>5 DEF TypeOK, RecvLabels, MainLabels
<1> QED
  BY <1>1, TypeInductive, PTL DEF Spec

-----------------------------------------------------------------------------
(* The tasks never sleep on work: the inductive invariant.  A packet in    *)
(* the ring buffer is announced by the flag or about to be, and a flag is  *)
(* announced by the notification or about to be, unless the run loop task  *)
(* is on its way to it.                                                    *)
Wakeful == MutexHeldWhereUsed /\ NoLostPackets /\ NoLostWakeups

LEMMA WakefulInductive == TypeOK /\ Wakeful /\ [Next]_vars => Wakeful'
<1> SUFFICES ASSUME TypeOK, Wakeful, [Next]_vars PROVE Wakeful'
  OBVIOUS
<1> USE DEF Wakeful, MutexHeldWhereUsed, NoLostPackets, NoLostWakeups,
            flags, lifetime, history, store, RecvMoves, MainMoves
<1>1. ASSUME NEW p \in Packets, RecvCalled(p) PROVE Wakeful'
  BY <1>1 DEF RecvCalled
<1>2. CASE SendAvailableCalled
  BY <1>2 DEF SendAvailableCalled
<1>3. CASE RecvTakesMutex
  BY <1>3 DEF RecvTakesMutex
<1>4. CASE RecvDrops
  BY <1>4 DEF RecvDrops
<1>5. CASE RecvStoresLength
  BY <1>5 DEF RecvStoresLength
<1>6. CASE RecvStoresPacket
  BY <1>6 DEF RecvStoresPacket
<1>7. CASE RecvSetsFlag
  BY <1>7 DEF RecvSetsFlag
<1>8. CASE Trigger
  BY <1>8 DEF Trigger
<1>9. CASE PollSignalSent
  BY <1>9 DEF PollSignalSent
<1>10. CASE ClearSignalSent
  BY <1>10 DEF ClearSignalSent
<1>11. CASE NotifyPacketSent
  BY <1>11 DEF NotifyPacketSent
<1>12. CASE PollPacketsToDeliver
  BY <1>12 DEF PollPacketsToDeliver
<1>13. CASE ClearPacketsToDeliver
  BY <1>13 DEF ClearPacketsToDeliver
<1>14. CASE DeliverTakesMutex
  BY <1>14 DEF DeliverTakesMutex
<1>15. CASE DeliverEnds
  BY <1>15 DEF DeliverEnds
<1>16. CASE DeliverPacket
  BY <1>16 DEF DeliverPacket
<1>17. CASE HandlerReturns
  BY <1>17 DEF HandlerReturns
<1>18. CASE GoToSleep
  BY <1>18 DEF GoToSleep
<1>19. CASE WakeUp
  BY <1>19 DEF WakeUp
<1>20. CASE TimerDue
  BY <1>20 DEF TimerDue
<1>21. CASE TransportClose
  BY <1>21 DEF TransportClose
<1>22. ASSUME NEW r \in {-1, 0}, NEW e \in {-1, 0}, TransportOpen(r, e)
       PROVE  Wakeful'
  <2>1. hci_ringbuffer.storage \in [0 .. StorageSize-1 -> Byte]
    BY DEF TypeOK, RingBuffers
  <2>2. BytesAvailable(hci_ringbuffer)' = 0
    BY <1>22, <2>1, StorageSizeType, NewIsEmpty DEF TransportOpen
  <2> QED
    BY <1>22, <2>2 DEF TransportOpen
<1>23. CASE UNCHANGED vars
  BY <1>23 DEF vars
<1> QED
  BY <1>1, <1>2, <1>3, <1>4, <1>5, <1>6, <1>7, <1>8, <1>9, <1>10, <1>11, <1>12, <1>13, <1>14, <1>15, <1>16, <1>17, <1>18, <1>19, <1>20, <1>21, <1>22, <1>23
  DEF Next, ControllerTask, RecvStep, MainTask, TransportProcess

LEMMA WakefulInitially == Init => Wakeful
<1> SUFFICES ASSUME Init PROVE Wakeful
  OBVIOUS
<1>1. [k \in 0 .. StorageSize-1 |-> 0] \in [0 .. StorageSize-1 -> {0}]
  OBVIOUS
<1>2. BytesAvailable(hci_ringbuffer) = 0
  BY <1>1, StorageSizeType, NewIsEmpty DEF Init
<1> QED
  BY <1>2 DEF Init, TransportInit, Wakeful, MutexHeldWhereUsed, NoLostPackets, NoLostWakeups

LEMMA WakefulAlways == Spec => []Wakeful
BY WakefulInitially, WakefulInductive, TypeCorrect, PTL DEF Spec

(* The two tasks exclude each other from the ring buffer, and neither      *)
(* holds the mutex when it calls out or returns.                           *)
THEOREM MutualExclusion == Spec => []MutexHeldWhereUsed
<1>1. Wakeful => MutexHeldWhereUsed
  BY DEF Wakeful
<1> QED
  BY <1>1, WakefulAlways, PTL

(* No wake-up is lost: with no notification pending and no callback in     *)
(* progress, a sleeping run loop task has drained the ring buffer and seen *)
(* every flag.                                                             *)
THEOREM NoLostWakeup == Spec => []SleepsOnlyWhenDrained
<1>1. TypeOK /\ Wakeful => SleepsOnlyWhenDrained
  <2> SUFFICES ASSUME TypeOK, Wakeful,
                      main = "wait", ~ notified, recv = "idle"
               PROVE  /\ BytesAvailable(hci_ringbuffer) = 0
                      /\ transport_packets_to_deliver = 0
                      /\ transport_signal_sent = 0
    BY DEF SleepsOnlyWhenDrained
  <2>1. transport_packets_to_deliver = 0 /\ transport_signal_sent = 0
    BY DEF Wakeful, NoLostWakeups, TypeOK
  <2>2. ~ (BytesAvailable(hci_ringbuffer) > 0)
    BY <2>1 DEF Wakeful, NoLostPackets
  <2>3. BytesAvailable(hci_ringbuffer) \in Nat
    BY AvailableType, StorageSizeType DEF TypeOK
  <2> QED
    BY <2>1, <2>2, <2>3
<1> QED
  BY <1>1, TypeCorrect, WakefulAlways, PTL

-----------------------------------------------------------------------------
(* Parts of sequences.                                                     *)

LEMMA Joined ==
  ASSUME NEW S, NEW s \in Seq(S), NEW t \in Seq(S)
  PROVE  /\ s \o t \in Seq(S) /\ Len(s \o t) = Len(s) + Len(t)
         /\ \A k \in 1 .. Len(s) : (s \o t)[k] = s[k]
         /\ \A k \in 1 .. Len(t) : (s \o t)[Len(s) + k] = t[k]
OBVIOUS

LEMMA JoinedThree ==
  ASSUME NEW S, NEW s \in Seq(S), NEW t \in Seq(S), NEW u \in Seq(S)
  PROVE  /\ Len((s \o t) \o u) = Len(s) + Len(t) + Len(u)
         /\ \A k \in 1 .. Len(s) : ((s \o t) \o u)[k] = s[k]
         /\ \A k \in 1 .. Len(t) : ((s \o t) \o u)[Len(s) + k] = t[k]
         /\ \A k \in 1 .. Len(u) : ((s \o t) \o u)[Len(s) + Len(t) + k] = u[k]
<1> DEFINE v == s \o t
<1>1. /\ v \in Seq(S) /\ Len(v) = Len(s) + Len(t)
      /\ \A k \in 1 .. Len(s) : v[k] = s[k]
      /\ \A k \in 1 .. Len(t) : v[Len(s) + k] = t[k]
  BY Joined
<1> HIDE DEF v
<1>2. /\ Len(v \o u) = Len(v) + Len(u)
      /\ \A k \in 1 .. Len(v) : (v \o u)[k] = v[k]
      /\ \A k \in 1 .. Len(u) : (v \o u)[Len(v) + k] = u[k]
  <2>1. v \in Seq(S)
    BY <1>1
  <2> QED
    BY ONLY <2>1, u \in Seq(S), Joined
<1> DEFINE w == v \o u
<1> HIDE DEF w
<1>3. /\ Len(w) = Len(s) + Len(t) + Len(u)
      /\ \A k \in 1 .. Len(s) + Len(t) : w[k] = v[k]
      /\ \A k \in 1 .. Len(u) : w[Len(s) + Len(t) + k] = u[k]
  BY <1>1, <1>2 DEF w
<1>4. Len(s) \in Nat /\ Len(t) \in Nat
  OBVIOUS
<1>5. /\ \A k \in 1 .. Len(s) : w[k] = s[k]
      /\ \A k \in 1 .. Len(t) : w[Len(s) + k] = t[k]
  BY <1>1, <1>3, <1>4
<1> QED
  BY <1>3, <1>5 DEF w, v

(* A part of a sequence.                                                   *)
LEMMA PartOf ==
  ASSUME NEW S, NEW s \in Seq(S), NEW m \in Nat, NEW n \in Nat, m + n <= Len(s)
  PROVE  LET part == SubSeq(s, m + 1, m + n)
         IN  /\ part \in Seq(S) /\ Len(part) = n
             /\ \A k \in 1 .. n : part[k] = s[m + k]
<1>1. Len(s) \in Nat
  OBVIOUS
<1>2. m + 1 \in Int /\ m + n \in Int /\ \A i \in m + 1 .. m + n : s[i] \in S
  BY <1>1
<1> DEFINE part == SubSeq(s, m + 1, m + n)
<1>3. /\ part \in Seq(S)
      /\ Len(part) = IF m + 1 <= m + n THEN (m + n) - (m + 1) + 1 ELSE 0
      /\ \A i \in 1 .. (m + n) - (m + 1) + 1 : part[i] = s[(m + 1) + i - 1]
  BY ONLY <1>2, SubSeqProperties
<1> HIDE DEF part
<1>4. Len(part) = n
  BY <1>3
<1>5. ASSUME NEW k \in 1 .. n PROVE part[k] = s[m + k]
  <2>1. k \in 1 .. (m + n) - (m + 1) + 1 /\ (m + 1) + k - 1 = m + k
    OBVIOUS
  <2> QED
    BY <1>3, <2>1
<1> QED
  BY <1>3, <1>4, <1>5 DEF part

(* What is left of a sequence after its first i elements.                  *)
Rest(packets, i) == SubSeq(packets, i + 1, Len(packets))

LEMMA RestOf ==
  ASSUME NEW S, NEW s \in Seq(S), NEW i \in 0 .. Len(s)
  PROVE  /\ Rest(s, i) \in Seq(S) /\ Len(Rest(s, i)) = Len(s) - i
         /\ \A k \in 1 .. Len(s) - i : Rest(s, i)[k] = s[i + k]
<1> DEFINE n == Len(s) - i
<1>1. n \in Nat /\ i \in Nat /\ i + n = Len(s) /\ i + n <= Len(s)
  OBVIOUS
<1> HIDE DEF n
<1>2. Rest(s, i) = SubSeq(s, i + 1, i + n)
  BY <1>1 DEF Rest
<1>3. /\ Rest(s, i) \in Seq(S) /\ Len(Rest(s, i)) = n
      /\ \A k \in 1 .. n : Rest(s, i)[k] = s[i + k]
  BY ONLY <1>1, <1>2, s \in Seq(S), PartOf
<1> QED
  BY <1>3 DEF n

LEMMA RestOfAppended ==
  ASSUME NEW S, NEW s \in Seq(S), NEW x \in S, NEW i \in 0 .. Len(s)
  PROVE  Rest(Append(s, x), i) = Append(Rest(s, i), x)
<1> DEFINE n == Len(s)
           more == Append(s, x)
           r == Rest(s, i)
           a == Rest(more, i)
           b == Append(r, x)
<1>1. n \in Nat /\ more \in Seq(S) /\ Len(more) = n + 1
      /\ \A k \in 1 .. n : more[k] = s[k]
  BY AppendProperties
<1>10. more[n + 1] = x
  BY AppendProperties
<1>2. r \in Seq(S) /\ Len(r) = n - i /\ \A k \in 1 .. n - i : r[k] = s[i + k]
  BY RestOf
<1> HIDE DEF more, r
<1>3. i \in 0 .. Len(more) /\ Len(more) - i = n + 1 - i
  BY <1>1
<1>4. /\ a \in Seq(S) /\ Len(a) = Len(more) - i
      /\ \A k \in 1 .. Len(more) - i : a[k] = more[i + k]
  <2>1. more \in Seq(S)
    BY <1>1
  <2>2. i \in 0 .. Len(more)
    BY <1>3
  <2> QED
    BY ONLY <2>1, <2>2, RestOf
<1>5. /\ b \in Seq(S) /\ Len(b) = n - i + 1
      /\ \A k \in 1 .. n - i : b[k] = r[k]
      /\ b[n - i + 1] = x
  <2>1. /\ b \in Seq(S) /\ Len(b) = Len(r) + 1
        /\ \A k \in 1 .. Len(r) : b[k] = r[k]
        /\ b[Len(r) + 1] = x
    BY <1>2, AppendProperties
  <2> QED
    BY <1>2, <2>1
<1> HIDE DEF n, a, b
<1>6. Len(a) = Len(b)
  BY <1>1, <1>3, <1>4, <1>5
<1>7. ASSUME NEW k \in 1 .. n - i + 1 PROVE a[k] = b[k]
  <2>1. k \in 1 .. Len(more) - i /\ i + k \in 1 .. n + 1
    BY <1>1, <1>3
  <2>2. a[k] = more[i + k]
    BY <1>4, <2>1
  <2>3. CASE k \in 1 .. n - i
    <3>1. i + k \in 1 .. n
      BY <1>1, <2>3
    <3>2. b[k] = r[k] /\ r[k] = s[i + k] /\ more[i + k] = s[i + k]
      BY <1>1, <1>2, <1>5, <2>3, <3>1
    <3> QED
      BY ONLY <2>2, <3>2
  <2>4. CASE k = n - i + 1
    <3>1. i + k = n + 1
      BY <1>1, <2>4
    <3>2. a[k] = x /\ b[k] = x
      <4>1. b[k] = x
        <5>1. b[n - i + 1] = x
          BY <1>5
        <5> QED
          BY ONLY <2>4, <5>1
      <4>2. more[i + k] = x
        BY ONLY <1>10, <3>1
      <4> QED
        BY ONLY <2>2, <4>1, <4>2
    <3> QED
      BY ONLY <3>2
  <2>5. k \in 1 .. n - i \/ k = n - i + 1
    BY ONLY <1>1, i \in 0 .. n, k \in 1 .. n - i + 1
  <2> QED
    BY ONLY <2>3, <2>4, <2>5
<1>8. Len(a) = n - i + 1
  BY <1>5, <1>6
<1>9. a = b
  BY <1>4, <1>5, <1>6, <1>7, <1>8, SeqEqual
<1> QED
  BY <1>9 DEF a, b, more, r

LEMMA RestOfTail ==
  ASSUME NEW S, NEW s \in Seq(S), s # <<>>, NEW i \in 0 .. Len(s) - 1
  PROVE  Rest(Tail(s), i) = Rest(s, i + 1)
<1> DEFINE n == Len(s)
           others == Tail(s)
           a == Rest(others, i)
           b == Rest(s, i + 1)
<1>1. n \in Nat /\ n >= 1 /\ others \in Seq(S) /\ Len(others) = n - 1
      /\ \A k \in 1 .. n - 1 : others[k] = s[k + 1]
  BY EmptySeq, HeadTailProperties
<1> HIDE DEF others
<1>2. i \in 0 .. Len(others) /\ i + 1 \in 0 .. Len(s)
  BY <1>1
<1>3. /\ a \in Seq(S) /\ Len(a) = Len(others) - i
      /\ \A k \in 1 .. Len(others) - i : a[k] = others[i + k]
  <2>1. others \in Seq(S)
    BY <1>1
  <2>2. i \in 0 .. Len(others)
    BY <1>2
  <2> QED
    BY ONLY <2>1, <2>2, RestOf
<1>4. /\ b \in Seq(S) /\ Len(b) = n - (i + 1)
      /\ \A k \in 1 .. n - (i + 1) : b[k] = s[(i + 1) + k]
  <2>1. i + 1 \in 0 .. Len(s)
    BY <1>2
  <2> QED
    BY ONLY <2>1, s \in Seq(S), RestOf
<1> HIDE DEF n, a, b
<1>5. Len(a) = Len(b) /\ Len(a) = n - 1 - i
  BY <1>1, <1>2, <1>3, <1>4
<1>6. ASSUME NEW k \in 1 .. n - 1 - i PROVE a[k] = b[k]
  <2>1. /\ k \in 1 .. Len(others) - i /\ k \in 1 .. n - (i + 1)
        /\ i + k \in 1 .. n - 1 /\ (i + k) + 1 = (i + 1) + k
    BY <1>1, <1>2
  <2> QED
    BY <1>1, <1>3, <1>4, <2>1
<1>7. a = b
  BY <1>3, <1>4, <1>5, <1>6, SeqEqual
<1> QED
  BY <1>7 DEF a, b, others
LEMMA TailOfRest ==
  ASSUME NEW S, NEW s \in Seq(S), NEW i \in 0 .. Len(s) - 1
  PROVE  /\ Rest(s, i) # <<>> /\ Rest(s, i)[1] = s[i + 1]
         /\ Rest(s, i + 1) = Tail(Rest(s, i))
<1> DEFINE n == Len(s)
           r == Rest(s, i)
           a == Rest(s, i + 1)
           b == Tail(r)
<1>1. i \in 0 .. Len(s) /\ i + 1 \in 0 .. Len(s) /\ n \in Nat /\ i \in Nat
  OBVIOUS
<1>2. /\ r \in Seq(S) /\ Len(r) = n - i
      /\ \A k \in 1 .. n - i : r[k] = s[i + k]
  BY ONLY <1>1, s \in Seq(S), RestOf
<1>3. /\ a \in Seq(S) /\ Len(a) = n - (i + 1)
      /\ \A k \in 1 .. n - (i + 1) : a[k] = s[(i + 1) + k]
  <2>1. i + 1 \in 0 .. Len(s)
    BY <1>1
  <2> QED
    BY ONLY <2>1, s \in Seq(S), RestOf
<1> HIDE DEF r, a
<1>4. i <= n - 1 /\ n - i >= 1
  BY <1>1
<1>5. r # <<>> /\ r[1] = s[i + 1]
  <2>1. Len(r) # 0
    BY <1>1, <1>2, <1>4
  <2> QED
    BY <1>1, <1>2, <1>4, <2>1, EmptySeq
<1>6. /\ b \in Seq(S) /\ Len(b) = Len(r) - 1
      /\ \A k \in 1 .. Len(r) - 1 : b[k] = r[k + 1]
  BY <1>2, <1>5, HeadTailProperties
<1> HIDE DEF n, b
<1>7. Len(a) = Len(b) /\ Len(a) = n - i - 1
  BY <1>1, <1>2, <1>3, <1>6
<1>8. ASSUME NEW k \in 1 .. n - i - 1 PROVE a[k] = b[k]
  <2>1. /\ k \in 1 .. n - (i + 1) /\ k \in 1 .. Len(r) - 1 /\ k + 1 \in 1 .. n - i
        /\ (i + 1) + k = i + (k + 1)
    BY <1>1, <1>2
  <2>2. a[k] = s[(i + 1) + k] /\ b[k] = r[k + 1] /\ r[k + 1] = s[i + (k + 1)]
    BY <1>2, <1>3, <1>6, <2>1
  <2> QED
    BY <2>1, <2>2
<1>9. \A k \in 1 .. Len(a) : a[k] = b[k]
  BY <1>7, <1>8
<1>10. a = b
  BY ONLY <1>3, <1>6, <1>7, <1>9, SeqEqual
<1> QED
  BY <1>5, <1>10 DEF a, b, r

-----------------------------------------------------------------------------
(* The packets of a type, and the bytes they may take.                     *)

OfType(packets, type) == { i \in DOMAIN packets : packets[i][1] = type }

LEMMA OfTypeFinite ==
  ASSUME NEW packets \in Seq(Packets), NEW type
  PROVE  /\ IsFiniteSet(OfType(packets, type))
         /\ Cardinality(OfType(packets, type)) \in Nat
<1>1. Len(packets) \in Nat /\ DOMAIN packets = 1 .. Len(packets)
  OBVIOUS
<1>2. IsFiniteSet(1 .. Len(packets))
  BY <1>1, FS_Interval
<1>3. OfType(packets, type) \in SUBSET (1 .. Len(packets))
  BY <1>1 DEF OfType
<1> QED
  BY <1>2, <1>3, FS_Subset, FS_CardinalityType

LEMMA OneMore ==
  ASSUME NEW packets \in Seq(Packets), NEW p \in Packets, NEW type
  PROVE  Cardinality(OfType(Append(packets, p), type)) =
           Cardinality(OfType(packets, type)) + (IF p[1] = type THEN 1 ELSE 0)
<1> DEFINE n == Len(packets)
           more == Append(packets, p)
<1>1. /\ n \in Nat /\ DOMAIN packets = 1 .. n /\ DOMAIN more = 1 .. n + 1
      /\ \A i \in 1 .. n : more[i] = packets[i]
      /\ more[n + 1] = p
  BY AppendProperties
<1>2. /\ IsFiniteSet(OfType(packets, type))
      /\ Cardinality(OfType(packets, type)) \in Nat
  BY OfTypeFinite
<1> HIDE DEF more, n
<1>3. n + 1 \notin OfType(packets, type)
  BY <1>1 DEF OfType
<1>4. CASE p[1] = type
  <2>1. OfType(more, type) = OfType(packets, type) \cup {n + 1}
    BY <1>1, <1>4 DEF OfType
  <2>2. Cardinality(OfType(more, type)) = Cardinality(OfType(packets, type)) + 1
    BY <1>2, <1>3, <2>1, FS_AddElement
  <2> QED
    BY <1>4, <2>2 DEF more
<1>5. CASE p[1] # type
  <2>1. OfType(more, type) = OfType(packets, type)
    BY <1>1, <1>5 DEF OfType
  <2>2. Cardinality(OfType(more, type)) = Cardinality(OfType(packets, type)) + 0
    BY <1>2, <2>1
  <2> QED
    BY <1>5, <2>2 DEF more
<1> QED
  BY <1>4, <1>5

LEMMA OneLess ==
  ASSUME NEW packets \in Seq(Packets), packets # <<>>, NEW type
  PROVE  Cardinality(OfType(packets, type)) =
           Cardinality(OfType(Tail(packets), type))
             + (IF packets[1][1] = type THEN 1 ELSE 0)
<1> DEFINE n == Len(packets)
           others == Tail(packets)
           T == OfType(others, type)
           U == { i \in OfType(packets, type) : i > 1 }
           f == [i \in T |-> i + 1]
<1>1. /\ n \in Nat /\ n >= 1 /\ DOMAIN packets = 1 .. n
      /\ others \in Seq(Packets) /\ DOMAIN others = 1 .. n - 1
      /\ \A i \in 1 .. n - 1 : others[i] = packets[i + 1]
  <2>1. n \in Nat /\ n >= 1
    BY EmptySeq
  <2>2. /\ others \in Seq(Packets) /\ Len(others) = n - 1
        /\ \A i \in 1 .. Len(others) : others[i] = packets[i + 1]
    BY HeadTailProperties
  <2> QED
    BY <2>1, <2>2
<1>2. IsFiniteSet(T) /\ Cardinality(T) \in Nat
  BY <1>1, OfTypeFinite
<1> HIDE DEF n, others
<1>3. f \in Bijection(T, U)
  <2>1. \A i \in T : i \in Nat /\ i + 1 \in U
    BY <1>1 DEF OfType
  <2>2. f \in Injection(T, U)
    BY <2>1 DEF Injection, IsInjective
  <2>3. \A j \in U : \E i \in T : f[i] = j
    <3>1. TAKE j \in U
    <3>2. j - 1 \in T /\ (j - 1) + 1 = j
      BY <1>1 DEF OfType
    <3> QED
      BY <3>2
  <2> QED
    BY <2>1, <2>2, <2>3 DEF Bijection, Surjection
<1>4. IsFiniteSet(U) /\ Cardinality(U) = Cardinality(T)
  BY <1>2, <1>3, FS_Bijection DEF ExistsBijection
<1> HIDE DEF T, f
<1>5. CASE packets[1][1] = type
  <2>1. OfType(packets, type) = U \cup {1} /\ 1 \notin U
    BY <1>1, <1>5 DEF OfType
  <2> HIDE DEF U
  <2>2. Cardinality(OfType(packets, type)) = Cardinality(T) + 1
    BY <1>4, <2>1, FS_AddElement
  <2> QED
    BY <1>5, <2>2 DEF T, others
<1>6. CASE packets[1][1] # type
  <2>1. OfType(packets, type) = U
    BY <1>1, <1>6 DEF OfType
  <2> HIDE DEF U
  <2>2. Cardinality(OfType(packets, type)) = Cardinality(T) + 0
    BY <1>2, <1>4, <2>1
  <2> QED
    BY <1>6, <2>2 DEF T, others
<1> QED
  BY <1>5, <1>6

(* The bytes of storage that so many packets of the types may take, each   *)
(* with its length.                                                        *)
Room(acl, sco, event) ==
  acl * (2 + AclSize) + sco * (2 + ScoSize) + event * (2 + EventSize)

RoomOf(packets) ==
  Room(Cardinality(OfType(packets, HCI_ACL_DATA_PACKET)),
       Cardinality(OfType(packets, HCI_SCO_DATA_PACKET)),
       Cardinality(OfType(packets, HCI_EVENT_PACKET)))

RoomFor(p) ==
  Room(IF p[1] = HCI_ACL_DATA_PACKET THEN 1 ELSE 0,
       IF p[1] = HCI_SCO_DATA_PACKET THEN 1 ELSE 0,
       IF p[1] = HCI_EVENT_PACKET THEN 1 ELSE 0)

LEMMA Distributes ==
  ASSUME NEW a \in Nat, NEW b \in Nat, NEW c \in Nat
  PROVE  a * c \in Nat /\ (a + b) * c = a * c + b * c /\ (b <= a => b * c <= a * c)
<1>1. a * c \in Nat /\ b * c \in Nat /\ (a + b) * c = a * c + b * c
  OBVIOUS
<1>2. ASSUME b <= a PROVE b * c <= a * c
  <2>1. a - b \in Nat /\ a = (a - b) + b
    BY <1>2
  <2>2. (a - b) * c \in Nat /\ ((a - b) + b) * c = (a - b) * c + b * c
    BY <2>1
  <2>3. a * c = (a - b) * c + b * c
    BY <2>1, <2>2
  <2> QED
    BY <1>1, <2>2, <2>3
<1> QED
  BY <1>1, <1>2

LEMMA RoomGrows ==
  ASSUME NEW a \in Nat, NEW s \in Nat, NEW e \in Nat,
         NEW b \in 0 .. a, NEW t \in 0 .. s, NEW f \in 0 .. e
  PROVE  /\ Room(a, s, e) \in Nat /\ Room(b, t, f) \in Nat
         /\ Room(b, t, f) <= Room(a, s, e)
<1> DEFINE A == 2 + AclSize
           S == 2 + ScoSize
           E == 2 + EventSize
<1>1. A \in Nat /\ S \in Nat /\ E \in Nat
  BY NumbersAssumption
<1> HIDE DEF A, S, E
<1>2. /\ a * A \in Nat /\ b * A \in Nat /\ b * A <= a * A
      /\ s * S \in Nat /\ t * S \in Nat /\ t * S <= s * S
      /\ e * E \in Nat /\ f * E \in Nat /\ f * E <= e * E
  BY <1>1, Distributes
<1> QED
  BY <1>2 DEF Room, A, S, E

LEMMA OnePacket ==
  ASSUME NEW p \in Packets
  PROVE  RoomFor(p) \in Nat /\ 2 + Len(p) <= RoomFor(p)
<1> USE DEF HCI_ACL_DATA_PACKET, HCI_SCO_DATA_PACKET, HCI_EVENT_PACKET
<1>1. /\ AclSize \in Nat /\ ScoSize \in Nat /\ EventSize \in Nat
      /\ Len(p) \in Nat
  BY NumbersAssumption, PacketsAssumption
<1>2. CASE p[1] = 2 /\ Len(p) <= AclSize
  BY <1>1, <1>2 DEF RoomFor, Room
<1>3. CASE p[1] = 3 /\ Len(p) <= ScoSize
  BY <1>1, <1>3 DEF RoomFor, Room
<1>4. CASE p[1] = 4 /\ Len(p) <= EventSize
  BY <1>1, <1>4 DEF RoomFor, Room
<1> QED
  BY <1>2, <1>3, <1>4, PacketSizesAssumption

LEMMA RoomOfType ==
  ASSUME NEW packets \in Seq(Packets)
  PROVE  RoomOf(packets) \in Nat
<1> DEFINE n(type) == Cardinality(OfType(packets, type))
           a == n(HCI_ACL_DATA_PACKET)
           s == n(HCI_SCO_DATA_PACKET)
           e == n(HCI_EVENT_PACKET)
<1>1. a \in Nat /\ s \in Nat /\ e \in Nat
  BY OfTypeFinite
<1>2. RoomOf(packets) = Room(a, s, e)
  BY DEF RoomOf
<1> HIDE DEF a, s, e
<1>3. a \in 0 .. a /\ s \in 0 .. s /\ e \in 0 .. e
  BY <1>1
<1>4. Room(a, s, e) \in Nat
  BY ONLY <1>1, <1>3, RoomGrows
<1> QED
  BY <1>2, <1>4

(* One packet more takes the room for it.                                  *)
LEMMA RoomAdds ==
  ASSUME NEW some \in Seq(Packets), NEW all \in Seq(Packets), NEW p \in Packets,
         \A type : Cardinality(OfType(all, type)) =
                    Cardinality(OfType(some, type)) + (IF p[1] = type THEN 1 ELSE 0)
  PROVE  RoomOf(all) = RoomOf(some) + RoomFor(p)
<1> DEFINE A == 2 + AclSize
           S == 2 + ScoSize
           E == 2 + EventSize
           a == Cardinality(OfType(some, HCI_ACL_DATA_PACKET))
           s == Cardinality(OfType(some, HCI_SCO_DATA_PACKET))
           e == Cardinality(OfType(some, HCI_EVENT_PACKET))
           b == IF p[1] = HCI_ACL_DATA_PACKET THEN 1 ELSE 0
           t == IF p[1] = HCI_SCO_DATA_PACKET THEN 1 ELSE 0
           f == IF p[1] = HCI_EVENT_PACKET THEN 1 ELSE 0
<1>1. A \in Nat /\ S \in Nat /\ E \in Nat
  BY NumbersAssumption
<1>2. a \in Nat /\ s \in Nat /\ e \in Nat /\ b \in Nat /\ t \in Nat /\ f \in Nat
  BY OfTypeFinite
<1>3. /\ RoomOf(some) = a * A + s * S + e * E
      /\ RoomFor(p) = b * A + t * S + f * E
  BY DEF RoomOf, RoomFor, Room
<1>4. /\ Cardinality(OfType(all, HCI_ACL_DATA_PACKET)) = a + b
      /\ Cardinality(OfType(all, HCI_SCO_DATA_PACKET)) = s + t
      /\ Cardinality(OfType(all, HCI_EVENT_PACKET)) = e + f
  OBVIOUS
<1>5. RoomOf(all) = (a + b) * A + (s + t) * S + (e + f) * E
  BY <1>4 DEF RoomOf, Room
<1> HIDE DEF A, S, E, a, s, e, b, t, f
<1>6. (a + b) * A = a * A + b * A /\ a * A \in Nat /\ b * A \in Nat
  BY ONLY <1>1, <1>2, Distributes
<1>7. (s + t) * S = s * S + t * S /\ s * S \in Nat /\ t * S \in Nat
  BY ONLY <1>1, <1>2, Distributes
<1>8. (e + f) * E = e * E + f * E /\ e * E \in Nat /\ f * E \in Nat
  BY ONLY <1>1, <1>2, Distributes
<1>9. (a + b) * A + (s + t) * S + (e + f) * E
        = (a * A + s * S + e * E) + (b * A + t * S + f * E)
  BY ONLY <1>6, <1>7, <1>8
<1> QED
  BY ONLY <1>3, <1>5, <1>9

LEMMA RoomOfAppended ==
  ASSUME NEW packets \in Seq(Packets), NEW p \in Packets
  PROVE  RoomOf(Append(packets, p)) = RoomOf(packets) + RoomFor(p)
<1> DEFINE more == Append(packets, p)
<1>1. more \in Seq(Packets)
  OBVIOUS
<1>2. \A type : Cardinality(OfType(more, type)) =
        Cardinality(OfType(packets, type)) + (IF p[1] = type THEN 1 ELSE 0)
  BY OneMore
<1> HIDE DEF more
<1>3. RoomOf(more) = RoomOf(packets) + RoomFor(p)
  BY ONLY <1>1, <1>2, packets \in Seq(Packets), p \in Packets, RoomAdds
<1> QED
  BY <1>3 DEF more

LEMMA RoomOfTail ==
  ASSUME NEW packets \in Seq(Packets), packets # <<>>
  PROVE  /\ Tail(packets) \in Seq(Packets) /\ packets[1] \in Packets
         /\ RoomOf(packets) = RoomOf(Tail(packets)) + RoomFor(packets[1])
<1> DEFINE others == Tail(packets)
           p == packets[1]
<1>1. others \in Seq(Packets) /\ p \in Packets
  BY EmptySeq, HeadTailProperties
<1>2. \A type : Cardinality(OfType(packets, type)) =
        Cardinality(OfType(others, type)) + (IF p[1] = type THEN 1 ELSE 0)
  BY OneLess
<1> HIDE DEF others, p
<1>3. RoomOf(packets) = RoomOf(others) + RoomFor(p)
  BY ONLY <1>1, <1>2, packets \in Seq(Packets), RoomAdds
<1> QED
  BY <1>1, <1>3 DEF others, p

-----------------------------------------------------------------------------
(* Where the frames of packets lie in the bytes a ring buffer holds: cut[i] *)
(* of them belong to the first i packets, and what is left fits in the     *)
(* room for the packets that are left.                                     *)
Framing(bytes, packets, cut) ==
  /\ cut \in [0 .. Len(packets) -> Nat]
  /\ cut[0] = 0 /\ cut[Len(packets)] = Len(bytes)
  /\ \A i, j \in 0 .. Len(packets) : i <= j => cut[i] <= cut[j]
  /\ \A i \in 1 .. Len(packets) :
       /\ cut[i] = cut[i - 1] + 2 + Len(packets[i])
       /\ \A k \in 1 .. 2 : bytes[cut[i - 1] + k] = LenTag(packets[i])[k]
       /\ \A k \in 1 .. Len(packets[i]) :
            bytes[cut[i - 1] + 2 + k] = packets[i][k]
  /\ \A i \in 0 .. Len(packets) :
       Len(bytes) - cut[i] <= RoomOf(Rest(packets, i))

Framed(bytes, packets) == \E cut : Framing(bytes, packets, cut)

LEMMA NothingFramed == Framed(<<>>, <<>>)
<1> DEFINE cut == [i \in 0 .. 0 |-> 0]
<1>1. Len(<<>>) = 0 /\ 0 .. 0 = {0} /\ 1 .. 0 = {}
  OBVIOUS
<1>2. cut \in [0 .. 0 -> Nat] /\ \A i \in 0 .. 0 : cut[i] = 0
  OBVIOUS
<1>3. RoomOf(<<>>) \in Nat /\ Rest(<<>>, 0) = <<>>
  <2>1. <<>> \in Seq(Packets)
    OBVIOUS
  <2>2. RoomOf(<<>>) \in Nat
    BY ONLY <2>1, RoomOfType
  <2>3. Rest(<<>>, 0) = <<>>
    BY DEF Rest
  <2> QED
    BY <2>2, <2>3
<1>4. Framing(<<>>, <<>>, cut)
  BY <1>1, <1>2, <1>3 DEF Framing
<1> QED
  BY <1>4 DEF Framed

LEMMA TagLength == ASSUME NEW p PROVE Len(LenTag(p)) = 2
BY DEF LenTag

(* A length and a packet behind other bytes.                               *)
LEMMA FrameBehind ==
  ASSUME NEW bytes \in Seq(Byte), NEW p \in Packets
  PROVE  LET l   == Len(bytes)
             all == (bytes \o LenTag(p)) \o p
         IN  /\ Len(all) = l + 2 + Len(p)
             /\ \A k \in 1 .. l : all[k] = bytes[k]
             /\ \A k \in 1 .. 2 : all[l + k] = LenTag(p)[k]
             /\ \A k \in 1 .. Len(p) : all[l + 2 + k] = p[k]
<1> DEFINE tag == LenTag(p)
           all == (bytes \o tag) \o p
<1>1. tag \in Seq(Byte) /\ p \in Seq(Byte)
  BY LenTagType
<1>2. Len(tag) = 2
  BY TagLength
<1> HIDE DEF tag
<1>3. /\ Len(all) = Len(bytes) + Len(tag) + Len(p)
      /\ \A k \in 1 .. Len(bytes) : all[k] = bytes[k]
      /\ \A k \in 1 .. Len(tag) : all[Len(bytes) + k] = tag[k]
      /\ \A k \in 1 .. Len(p) : all[Len(bytes) + Len(tag) + k] = p[k]
  BY ONLY <1>1, bytes \in Seq(Byte), JoinedThree
<1> HIDE DEF all
<1> QED
  BY <1>2, <1>3 DEF all, tag

(* A length and a packet written behind frames are a frame.                *)
LEMMA FrameAppended ==
  ASSUME NEW bytes \in Seq(Byte), NEW packets \in Seq(Packets), NEW p \in Packets,
         Framed(bytes, packets)
  PROVE  Framed((bytes \o LenTag(p)) \o p, Append(packets, p))
<1> DEFINE tag == LenTag(p)
           n == Len(packets)
           l == Len(bytes)
           all == (bytes \o tag) \o p
<1>1. Len(p) \in Nat
  BY PacketsAssumption
<1>2. n \in Nat /\ l \in Nat
  OBVIOUS
<1>4. /\ Len(all) = l + 2 + Len(p)
      /\ \A k \in 1 .. l : all[k] = bytes[k]
      /\ \A k \in 1 .. 2 : all[l + k] = tag[k]
      /\ \A k \in 1 .. Len(p) : all[l + 2 + k] = p[k]
  BY FrameBehind
<1> HIDE DEF all, tag
<1>5. PICK cut : Framing(bytes, packets, cut)
  BY DEF Framed
<1>6. /\ cut \in [0 .. n -> Nat] /\ cut[0] = 0 /\ cut[n] = l
      /\ \A i, j \in 0 .. n : i <= j => cut[i] <= cut[j]
      /\ \A i \in 1 .. n :
           /\ cut[i] = cut[i - 1] + 2 + Len(packets[i])
           /\ \A k \in 1 .. 2 : bytes[cut[i - 1] + k] = LenTag(packets[i])[k]
           /\ \A k \in 1 .. Len(packets[i]) :
                bytes[cut[i - 1] + 2 + k] = packets[i][k]
  BY <1>5 DEF Framing
<1> DEFINE more == Append(packets, p)
           new == [i \in 0 .. n + 1 |-> IF i <= n THEN cut[i] ELSE l + 2 + Len(p)]
<1>7. /\ Len(more) = n + 1 /\ more[n + 1] = p
      /\ \A i \in 1 .. n : more[i] = packets[i]
  BY AppendProperties
<1>8. /\ new \in [0 .. n + 1 -> Nat] /\ \A i \in 0 .. n : new[i] = cut[i] /\ new[i] <= l
      /\ new[n + 1] = l + 2 + Len(p)
  BY <1>1, <1>2, <1>6
<1> HIDE DEF more, new
<1>9. \A i, j \in 0 .. n + 1 : i <= j => new[i] <= new[j]
  <2> SUFFICES ASSUME NEW i \in 0 .. n + 1, NEW j \in 0 .. n + 1, i <= j
               PROVE  new[i] <= new[j]
    OBVIOUS
  <2>1. CASE j \in 0 .. n
    <3>1. i \in 0 .. n
      BY <2>1, <1>2
    <3> QED
      BY <2>1, <3>1, <1>6, <1>8
  <2>2. CASE i \in 0 .. n /\ j = n + 1
    <3>1. new[i] <= l /\ new[i] \in Nat /\ new[j] = l + 2 + Len(p)
      BY <2>2, <1>8
    <3> QED
      BY <1>1, <1>2, <3>1
  <2>3. CASE i = n + 1 /\ j = n + 1
    BY <2>3, <1>1, <1>2, <1>8
  <2> QED
    BY <2>1, <2>2, <2>3, <1>2
<1>10. ASSUME NEW i \in 1 .. n + 1
       PROVE  /\ new[i] = new[i - 1] + 2 + Len(more[i])
              /\ \A k \in 1 .. 2 : all[new[i - 1] + k] = LenTag(more[i])[k]
              /\ \A k \in 1 .. Len(more[i]) : all[new[i - 1] + 2 + k] = more[i][k]
  <2>1. CASE i \in 1 .. n
    <3>1. /\ more[i] = packets[i] /\ new[i] = cut[i] /\ new[i - 1] = cut[i - 1]
          /\ cut[i] \in Nat /\ cut[i - 1] \in Nat /\ cut[i] <= l
      <4>1. i \in 0 .. n /\ i - 1 \in 0 .. n
        BY <2>1, <1>2
      <4> QED
        BY <2>1, <4>1, <1>6, <1>7, <1>8
    <3>2. /\ cut[i] = cut[i - 1] + 2 + Len(packets[i])
          /\ \A k \in 1 .. 2 : bytes[cut[i - 1] + k] = LenTag(packets[i])[k]
          /\ \A k \in 1 .. Len(packets[i]) :
                bytes[cut[i - 1] + 2 + k] = packets[i][k]
      BY <2>1, <1>6
    <3>3. Len(packets[i]) \in Nat
      <4>1. packets[i] \in Packets
        BY <2>1
      <4> QED
        BY <4>1, PacketsAssumption
    <3> DEFINE a == cut[i - 1]
               b == cut[i]
               m == Len(packets[i])
    <3>4. /\ a \in Nat /\ b \in Nat /\ b <= l /\ m \in Nat /\ b = a + 2 + m
      BY <3>1, <3>2, <3>3
    <3> HIDE DEF a, b, m
    <3>5. \A k \in 1 .. 2 : all[a + k] = bytes[a + k]
      <4>1. \A k \in 1 .. 2 : a + k \in 1 .. l
        BY ONLY <1>2, <3>4
      <4> QED
        BY <1>4, <4>1
    <3>6. \A k \in 1 .. m : all[a + 2 + k] = bytes[a + 2 + k]
      <4>1. \A k \in 1 .. m : a + 2 + k \in 1 .. l
        BY ONLY <1>2, <3>4
      <4> QED
        BY <1>4, <4>1
    <3> QED
      BY <3>1, <3>2, <3>5, <3>6 DEF a, m
  <2>2. CASE i = n + 1
    <3>1. more[i] = p /\ new[i] = l + 2 + Len(p) /\ new[i - 1] = l
      BY <2>2, <1>2, <1>6, <1>7, <1>8
    <3> QED
      BY <3>1, <1>4 DEF tag
  <2> QED
    BY <2>1, <2>2, <1>2
<1>11. ASSUME NEW i \in 0 .. n + 1
       PROVE  Len(all) - new[i] <= RoomOf(Rest(more, i))
  <2>1. CASE i \in 0 .. n
    <3> DEFINE left == RoomOf(Rest(packets, i))
               room == RoomFor(p)
               a == cut[i]
    <3>1. l - a <= left /\ a \in Nat /\ new[i] = a
      BY <1>5, <1>6, <1>8, <2>1 DEF Framing
    <3>2. i \in 0 .. Len(packets)
      BY <2>1
    <3>3. Rest(packets, i) \in Seq(Packets)
      BY ONLY <3>2, packets \in Seq(Packets), RestOf
    <3>4. Rest(more, i) = Append(Rest(packets, i), p)
      BY ONLY <3>2, packets \in Seq(Packets), p \in Packets, RestOfAppended DEF more
    <3>5. RoomOf(Rest(more, i)) = left + room /\ left \in Nat
      BY <3>3, <3>4, RoomOfAppended, RoomOfType
    <3>6. room \in Nat /\ 2 + Len(p) <= room
      BY OnePacket
    <3> HIDE DEF left, room, a
    <3> QED
      BY <1>1, <1>2, <1>4, <3>1, <3>5, <3>6
  <2>2. CASE i = n + 1
    <3>1. i \in 0 .. Len(more) /\ more \in Seq(Packets)
      BY <1>2, <1>7, <2>2 DEF more
    <3>2. Rest(more, i) \in Seq(Packets)
      BY ONLY <3>1, RestOf
    <3>3. RoomOf(Rest(more, i)) \in Nat
      BY <3>2, RoomOfType
    <3> QED
      BY <1>1, <1>2, <1>4, <1>8, <2>2, <3>3
  <2> QED
    BY <1>2, <2>1, <2>2
<1>12. Framing(all, more, new)
  BY <1>2, <1>4, <1>6, <1>7, <1>8, <1>9, <1>10, <1>11 DEF Framing
<1> QED
  BY <1>12 DEF Framed, all, more, tag

(* The first frame is taken off in two reads: its length, then its packet. *)
LEMMA FirstFrame ==
  ASSUME NEW bytes \in Seq(Byte), NEW packets \in Seq(Packets), packets # <<>>,
         Framed(bytes, packets)
  PROVE  LET p == packets[1]
         IN  /\ p \in Packets /\ Len(bytes) >= 2 + Len(p)
             /\ bytes[1] + 256 * bytes[2] = Len(p)
             /\ \A k \in 1 .. Len(p) : bytes[2 + k] = p[k]
<1> DEFINE p == packets[1]
<1>1. PICK cut : Framing(bytes, packets, cut)
  BY DEF Framed
<1>2. Len(packets) \in Nat /\ Len(packets) >= 1 /\ p \in Packets
  BY EmptySeq
<1>3. p \in Seq(Byte) /\ Len(p) \in Nat /\ Len(p) < 65536 /\ Len(bytes) \in Nat
  BY <1>2, PacketsAssumption
<1>4. /\ cut \in [0 .. Len(packets) -> Nat]
      /\ cut[0] = 0 /\ cut[1] = 2 + Len(p) /\ cut[1] <= cut[Len(packets)]
      /\ cut[Len(packets)] = Len(bytes)
      /\ \A k \in 1 .. 2 : bytes[cut[0] + k] = LenTag(p)[k]
      /\ \A k \in 1 .. Len(p) : bytes[cut[0] + 2 + k] = p[k]
  <2>1. 1 \in 1 .. Len(packets) /\ 1 \in 0 .. Len(packets) /\ 1 - 1 = 0
        /\ Len(packets) \in 0 .. Len(packets)
    BY <1>2
  <2>2. /\ cut[1] = cut[1 - 1] + 2 + Len(p)
        /\ \A k \in 1 .. 2 : bytes[cut[1 - 1] + k] = LenTag(p)[k]
        /\ \A k \in 1 .. Len(p) : bytes[cut[1 - 1] + 2 + k] = p[k]
    BY <1>1, <2>1 DEF Framing
  <2>3. /\ cut \in [0 .. Len(packets) -> Nat] /\ cut[0] = 0
        /\ cut[Len(packets)] = Len(bytes) /\ cut[1] <= cut[Len(packets)]
    BY <1>1, <1>2, <2>1 DEF Framing
  <2>4. 1 - 1 = 0 /\ 0 + 2 + Len(p) = 2 + Len(p)
    BY <1>3
  <2> QED
    BY <2>2, <2>3, <2>4
<1>5. Len(bytes) >= 2 + Len(p)
  BY <1>3, <1>4
<1>6. \A k \in 1 .. Len(p) : bytes[2 + k] = p[k]
  <2>1. \A k \in 1 .. Len(p) : bytes[cut[0] + 2 + k] = p[k]
    BY <1>4
  <2>2. cut[0] = 0
    BY <1>4
  <2> QED
    BY ONLY <1>3, <2>1, <2>2
<1>7. bytes[1] + 256 * bytes[2] = Len(p)
  <2> DEFINE n == Len(p)
  <2>1. bytes[1] = n % 256 /\ bytes[2] = n \div 256
    <3>1. LenTag(p)[1] = n % 256 /\ LenTag(p)[2] = n \div 256
      BY DEF LenTag
    <3>2. bytes[1] = LenTag(p)[1] /\ bytes[2] = LenTag(p)[2]
      <4>1. /\ cut[0] = 0 /\ 1 \in 1 .. 2 /\ 2 \in 1 .. 2
            /\ \A k \in 1 .. 2 : bytes[cut[0] + k] = LenTag(p)[k]
        BY <1>4
      <4>2. bytes[0 + 1] = LenTag(p)[1] /\ bytes[0 + 2] = LenTag(p)[2]
        BY ONLY <4>1
      <4>3. 0 + 1 = 1 /\ 0 + 2 = 2
        OBVIOUS
      <4> QED
        BY ONLY <4>2, <4>3
    <3> QED
      BY ONLY <3>1, <3>2
  <2>2. n \in Nat
    BY <1>3
  <2> HIDE DEF n
  <2>3. (n % 256) + 256 * (n \div 256) = n
    BY <2>2
  <2> QED
    BY <2>1, <2>3 DEF n
<1> QED
  BY <1>2, <1>5, <1>6, <1>7

(* What is left are the frames of the other packets.                       *)
LEMMA OtherFrames ==
  ASSUME NEW bytes \in Seq(Byte), NEW packets \in Seq(Packets), packets # <<>>,
         Framed(bytes, packets), NEW rest \in Seq(Byte),
         LET n == 2 + Len(packets[1])
         IN  /\ Len(rest) = Len(bytes) - n
             /\ \A k \in 1 .. Len(bytes) - n : rest[k] = bytes[n + k]
  PROVE  Framed(rest, Tail(packets))
<1> DEFINE m == Len(packets)
           n == 2 + Len(packets[1])
           others == Tail(packets)
<1>1. PICK cut : Framing(bytes, packets, cut)
  BY DEF Framed
<1>2. m \in Nat /\ m >= 1 /\ Len(bytes) \in Nat
  BY EmptySeq
<1>3. \A i \in 1 .. m : packets[i] \in Packets /\ Len(packets[i]) \in Nat
  <2>1. \A i \in 1 .. m : packets[i] \in Packets
    OBVIOUS
  <2> QED
    BY <2>1, PacketsAssumption
<1>4. n \in Nat
  BY <1>2, <1>3
<1>5. /\ others \in Seq(Packets) /\ Len(others) = m - 1
      /\ \A i \in 1 .. m - 1 : others[i] = packets[i + 1]
  BY HeadTailProperties
<1>6. /\ cut \in [0 .. m -> Nat] /\ cut[0] = 0 /\ cut[m] = Len(bytes)
      /\ \A i, j \in 0 .. m : i <= j => cut[i] <= cut[j]
      /\ \A i \in 1 .. m :
           /\ cut[i] = cut[i - 1] + 2 + Len(packets[i])
           /\ \A k \in 1 .. 2 : bytes[cut[i - 1] + k] = LenTag(packets[i])[k]
           /\ \A k \in 1 .. Len(packets[i]) :
                bytes[cut[i - 1] + 2 + k] = packets[i][k]
  BY <1>1 DEF Framing
<1>7. cut[1] = n
  <2>1. 1 \in 1 .. m /\ 1 - 1 = 0
    BY <1>2
  <2>2. cut[1] = cut[1 - 1] + 2 + Len(packets[1]) /\ cut[0] = 0
    BY <1>6, <2>1
  <2> QED
    BY <1>2, <1>3, <2>1, <2>2
<1>8. /\ Len(rest) = Len(bytes) - n
      /\ \A k \in 1 .. Len(bytes) - n : rest[k] = bytes[n + k]
  OBVIOUS
<1> DEFINE new == [i \in 0 .. m - 1 |-> cut[i + 1] - n]
<1> HIDE DEF m, n, others
<1>9. \A i \in 0 .. m - 1 :
        /\ i + 1 \in 0 .. m /\ cut[i + 1] \in Nat /\ n <= cut[i + 1]
        /\ cut[i + 1] <= Len(bytes) /\ new[i] = cut[i + 1] - n
  <2> SUFFICES ASSUME NEW i \in 0 .. m - 1
               PROVE  /\ i + 1 \in 0 .. m /\ cut[i + 1] \in Nat /\ n <= cut[i + 1]
                      /\ cut[i + 1] <= Len(bytes) /\ new[i] = cut[i + 1] - n
    OBVIOUS
  <2>1. /\ i + 1 \in 0 .. m /\ 1 \in 0 .. m /\ m \in 0 .. m
        /\ 1 <= i + 1 /\ i + 1 <= m
    BY <1>2
  <2>2. cut[i + 1] \in Nat /\ cut[1] <= cut[i + 1] /\ cut[i + 1] <= cut[m]
    BY <1>6, <2>1
  <2> QED
    BY <1>6, <1>7, <2>1, <2>2
<1>10. new \in [0 .. m - 1 -> Nat]
  BY <1>4, <1>9
<1> HIDE DEF new
<1>11. new[0] = 0 /\ new[m - 1] = Len(rest)
  <2>1. 0 \in 0 .. m - 1 /\ m - 1 \in 0 .. m - 1 /\ (m - 1) + 1 = m /\ 0 + 1 = 1
    BY <1>2
  <2>2. new[0] = cut[0 + 1] - n /\ new[m - 1] = cut[(m - 1) + 1] - n
    BY <1>9, <2>1
  <2>3. cut[0 + 1] = n /\ cut[(m - 1) + 1] = Len(bytes) /\ Len(rest) = Len(bytes) - n
    BY <1>6, <1>7, <1>8, <2>1
  <2> QED
    BY ONLY <1>2, <1>4, <2>2, <2>3
<1>12. ASSUME NEW i \in 0 .. m - 1, NEW j \in 0 .. m - 1, i <= j
       PROVE  new[i] <= new[j]
  <2>1. i + 1 \in 0 .. m /\ j + 1 \in 0 .. m /\ i + 1 <= j + 1
    BY <1>2, <1>12
  <2>2. cut[i + 1] <= cut[j + 1]
    BY <1>6, <2>1
  <2>3. /\ cut[i + 1] \in Nat /\ cut[j + 1] \in Nat
        /\ new[i] = cut[i + 1] - n /\ new[j] = cut[j + 1] - n
    BY <1>9
  <2> DEFINE a == cut[i + 1]
             b == cut[j + 1]
  <2>4. a \in Nat /\ b \in Nat /\ a <= b /\ new[i] = a - n /\ new[j] = b - n
    BY <2>2, <2>3
  <2> HIDE DEF a, b
  <2> QED
    BY ONLY <1>4, <2>4
<1>13. ASSUME NEW i \in 1 .. m - 1
       PROVE  /\ new[i] = new[i - 1] + 2 + Len(others[i])
              /\ \A k \in 1 .. 2 : rest[new[i - 1] + k] = LenTag(others[i])[k]
              /\ \A k \in 1 .. Len(others[i]) :
                   rest[new[i - 1] + 2 + k] = others[i][k]
  <2>1. /\ i + 1 \in 1 .. m /\ i \in 0 .. m - 1 /\ i - 1 \in 0 .. m - 1
        /\ (i + 1) - 1 = i /\ (i - 1) + 1 = i
    BY <1>2
  <2>2. others[i] = packets[i + 1] /\ Len(others[i]) \in Nat
    BY <1>3, <1>5, <2>1
  <2>3. /\ cut[i + 1] = cut[i] + 2 + Len(others[i])
        /\ \A k \in 1 .. 2 : bytes[cut[i] + k] = LenTag(others[i])[k]
        /\ \A k \in 1 .. Len(others[i]) : bytes[cut[i] + 2 + k] = others[i][k]
    BY <1>6, <2>1, <2>2
  <2>4. /\ cut[i] \in Nat /\ cut[i + 1] \in Nat /\ n <= cut[i]
        /\ cut[i + 1] <= Len(bytes)
        /\ new[i] = cut[i + 1] - n /\ new[i - 1] = cut[i] - n
    <3>1. /\ cut[i + 1] \in Nat /\ cut[i + 1] <= Len(bytes) /\ new[i] = cut[i + 1] - n
      BY <1>9, <2>1
    <3>2. /\ cut[(i - 1) + 1] \in Nat /\ n <= cut[(i - 1) + 1]
          /\ new[i - 1] = cut[(i - 1) + 1] - n
      BY <1>9, <2>1
    <3> QED
      BY <2>1, <3>1, <3>2
  <2> DEFINE a == cut[i]
             b == cut[i + 1]
             l == Len(others[i])
             p == others[i]
             new1 == new[i - 1]
  <2>5. /\ a \in Nat /\ b \in Nat /\ l \in Nat /\ n <= a /\ b <= Len(bytes)
        /\ b = a + 2 + l /\ new[i] = b - n /\ new1 = a - n
    BY <2>2, <2>3, <2>4
  <2>6. /\ \A k \in 1 .. 2 : bytes[a + k] = LenTag(p)[k]
        /\ \A k \in 1 .. l : bytes[a + 2 + k] = p[k]
    BY <2>3
  <2> HIDE DEF a, b, l, p, new1
  <2>7. new[i] = new1 + 2 + l
    BY ONLY <1>4, <2>5
  <2>8. \A k \in 1 .. 2 + l : rest[new1 + k] = bytes[a + k]
    <3> SUFFICES ASSUME NEW k \in 1 .. 2 + l
                 PROVE  rest[new1 + k] = bytes[a + k]
      OBVIOUS
    <3>1. new1 + k \in 1 .. Len(bytes) - n /\ n + (new1 + k) = a + k
      BY ONLY <1>2, <1>4, <2>5, k \in 1 .. 2 + l
    <3> QED
      BY <1>8, <3>1
  <2>9. ASSUME NEW k \in 1 .. 2 PROVE rest[new1 + k] = LenTag(p)[k]
    <3>1. k \in 1 .. 2 + l
      BY <2>5
    <3> QED
      BY <2>6, <2>8, <3>1
  <2>10. ASSUME NEW k \in 1 .. l PROVE rest[new1 + 2 + k] = p[k]
    <3>1. /\ 2 + k \in 1 .. 2 + l
          /\ new1 + (2 + k) = new1 + 2 + k /\ a + (2 + k) = a + 2 + k
      BY ONLY <1>4, <2>5, k \in 1 .. l
    <3>2. rest[new1 + (2 + k)] = bytes[a + (2 + k)]
      BY <2>8, <3>1
    <3> QED
      BY <2>6, <3>1, <3>2
  <2> QED
    BY <2>7, <2>9, <2>10 DEF l, p, new1
<1>14. Len(others) = m - 1
  BY <1>5
<1>15. ASSUME NEW i \in 0 .. m - 1
       PROVE  Len(rest) - new[i] <= RoomOf(Rest(others, i))
  <2> DEFINE a == cut[i + 1]
             room == RoomOf(Rest(packets, i + 1))
             left == Rest(others, i)
  <2>1. Len(bytes) - a <= room
    BY <1>1, <1>9 DEF Framing, m
  <2>2. a \in Nat /\ new[i] = a - n
    BY <1>9
  <2>3. i \in 0 .. Len(packets) - 1
    BY DEF m
  <2>4. left = Rest(packets, i + 1)
    BY ONLY <2>3, packets \in Seq(Packets), packets # <<>>, RestOfTail DEF others
  <2> HIDE DEF left
  <2>5. RoomOf(left) = room
    BY <2>4
  <2>6. room \in Int
    <3>1. i + 1 \in 0 .. Len(packets)
      BY <2>3
    <3>2. Rest(packets, i + 1) \in Seq(Packets)
      BY ONLY <3>1, packets \in Seq(Packets), RestOf
    <3> QED
      BY <3>2, RoomOfType
  <2> HIDE DEF a, room
  <2>7. Len(rest) - new[i] <= room
    BY ONLY <1>2, <1>4, <1>8, <2>1, <2>2, <2>6
  <2> QED
    BY ONLY <2>5, <2>7 DEF left
<1>16. Framing(rest, others, new)
  BY <1>10, <1>11, <1>12, <1>13, <1>14, <1>15 DEF Framing
<1> QED
  BY <1>16 DEF Framed, others

(* Nothing is held exactly when no packet waits.                           *)
LEMMA HeldWhenFramed ==
  ASSUME NEW bytes \in Seq(Byte), NEW packets \in Seq(Packets),
         Framed(bytes, packets)
  PROVE  Len(bytes) = 0 <=> packets = <<>>
<1>1. CASE packets = <<>>
  <2>1. PICK cut : Framing(bytes, packets, cut)
    BY DEF Framed
  <2>2. Len(packets) = 0
    BY <1>1
  <2> QED
    BY <1>1, <2>1, <2>2 DEF Framing
<1>2. CASE packets # <<>>
  <2>1. packets[1] \in Packets /\ Len(bytes) >= 2 + Len(packets[1])
    BY <1>2, FirstFrame
  <2>2. Len(packets[1]) \in Nat /\ Len(bytes) \in Nat
    BY <2>1, PacketsAssumption
  <2> QED
    BY <1>2, <2>1, <2>2
<1> QED
  BY <1>1, <1>2

(* The frames take no more bytes than there is room for.                   *)
LEMMA RoomWhenFramed ==
  ASSUME NEW bytes \in Seq(Byte), NEW packets \in Seq(Packets),
         Framed(bytes, packets)
  PROVE  Len(bytes) <= RoomOf(packets)
<1>1. PICK cut : Framing(bytes, packets, cut)
  BY DEF Framed
<1>2. Len(packets) \in Nat /\ Len(bytes) \in Nat
  OBVIOUS
<1>3. cut[0] = 0 /\ Len(bytes) - cut[0] <= RoomOf(Rest(packets, 0))
  BY <1>1, <1>2 DEF Framing
<1>4. Rest(packets, 0) = packets
  BY DEF Rest
<1> QED
  BY <1>2, <1>3, <1>4

(* What the receive buffer starts with is what was read last.              *)
LEMMA StartOfRead ==
  ASSUME NEW old \in Seq(Byte), NEW data \in Seq(Byte)
  PROVE  Start(Overwrite(old, data), Len(data)) = data
<1> DEFINE rest == SubSeq(old, Len(data) + 1, Len(old))
           buffer == data \o rest
           start == SubSeq(buffer, 0 + 1, 0 + Len(data))
<1>1. rest \in Seq(Byte) /\ Len(data) \in Nat
  OBVIOUS
<1> HIDE DEF rest
<1>2. /\ buffer \in Seq(Byte) /\ Len(buffer) = Len(data) + Len(rest)
      /\ \A k \in 1 .. Len(data) : buffer[k] = data[k]
  BY ONLY <1>1, data \in Seq(Byte), Joined
<1> HIDE DEF buffer
<1>3. Len(rest) \in Nat /\ 0 + Len(data) <= Len(buffer) /\ 0 \in Nat
  BY <1>1, <1>2
<1>4. /\ start \in Seq(Byte) /\ Len(start) = Len(data)
      /\ \A k \in 1 .. Len(data) : start[k] = buffer[0 + k]
  BY ONLY <1>1, <1>2, <1>3, PartOf
<1>5. Start(buffer, Len(data)) = start
  BY <1>1, <1>3 DEF Start
<1> HIDE DEF start
<1>6. \A k \in 1 .. Len(data) : start[k] = data[k]
  BY <1>1, <1>2, <1>4
<1>7. start = data
  BY ONLY <1>4, <1>6, data \in Seq(Byte), SeqEqual
<1> QED
  BY <1>5, <1>7 DEF buffer, rest, Overwrite

(* transport_deliver_packets takes the first frame, whole and no more, and *)
(* hands its packet to the stack.                                          *)
LEMMA FirstDelivered ==
  ASSUME NEW rb \in RingBuffers(StorageSize, Byte), FullWhenMet(rb),
         NEW packets \in Seq(Packets), packets # <<>>,
         Framed(Contents(rb), packets), NEW old \in Seq(Byte)
  PROVE  LET tag    == ReadData(rb, 2)
             len    == tag[1] + 256 * (IF Len(tag) = 2 THEN tag[2] ELSE 0)
             rest   == Read(rb, 2)
             buffer == Overwrite(old, ReadData(rest, len))
         IN  /\ Start(buffer, len) = packets[1]
             /\ FullWhenMet(Read(rest, len))
             /\ Framed(Contents(Read(rest, len)), Tail(packets))
<1> DEFINE N    == StorageSize
           c    == Contents(rb)
           p    == packets[1]
           tag  == ReadData(rb, 2)
           len  == tag[1] + 256 * (IF Len(tag) = 2 THEN tag[2] ELSE 0)
           rest == Read(rb, 2)
           d    == Contents(rest)
           data == ReadData(rest, len)
           new  == Read(rest, len)
           e    == Contents(new)
<1>1. N \in Nat \ {0}
  BY StorageSizeType
<1>2. c \in Seq(Byte) /\ Len(c) \in Nat /\ BytesAvailable(rb) = Len(c)
  BY <1>1, ContentsType
<1>3. /\ p \in Packets /\ p \in Seq(Byte) /\ Len(p) \in Nat
      /\ Len(c) >= 2 + Len(p) /\ c[1] + 256 * c[2] = Len(p)
      /\ \A k \in 1 .. Len(p) : c[2 + k] = p[k]
  <2>1. Framed(c, packets)
    OBVIOUS
  <2>2. /\ p \in Packets /\ Len(c) >= 2 + Len(p) /\ c[1] + 256 * c[2] = Len(p)
        /\ \A k \in 1 .. Len(p) : c[2 + k] = p[k]
    BY <1>2, <2>1, FirstFrame
  <2> QED
    BY <2>2, PacketsAssumption
<1>4. BytesRead(rb, 2) = 2
  BY <1>2, <1>3 DEF BytesRead, Least
<1>5. /\ tag = SubSeq(c, 1, BytesRead(rb, 2))
      /\ d = SubSeq(c, BytesRead(rb, 2) + 1, Len(c))
      /\ FullWhenMet(rest)
  BY <1>1, ReadTakes
<1>6. rest \in RingBuffers(N, Byte)
  BY <1>1, ReadType
<1> HIDE DEF N, c, tag, rest, d
<1>7. Len(tag) = 2 /\ tag[1] = c[1] /\ tag[2] = c[2]
  <2>1. tag = SubSeq(c, 0 + 1, 0 + 2)
    BY <1>4, <1>5
  <2>2. 0 \in Nat /\ 2 \in Nat /\ 0 + 2 <= Len(c)
    BY <1>2, <1>3
  <2>3. Len(tag) = 2 /\ \A k \in 1 .. 2 : tag[k] = c[0 + k]
    BY ONLY <1>2, <2>1, <2>2, PartOf
  <2> QED
    BY <2>3
<1>8. len = Len(p)
  BY <1>3, <1>7
<1>9. /\ d \in Seq(Byte) /\ Len(d) = Len(c) - 2
      /\ \A k \in 1 .. Len(c) - 2 : d[k] = c[2 + k]
  <2> DEFINE l == Len(c) - 2
  <2>1. l \in Nat /\ 2 \in Nat /\ 2 + l <= Len(c) /\ 2 + l = Len(c)
    BY <1>2, <1>3
  <2> HIDE DEF l
  <2>2. d = SubSeq(c, 2 + 1, 2 + l)
    BY <1>4, <1>5, <2>1
  <2>3. d \in Seq(Byte) /\ Len(d) = l /\ \A k \in 1 .. l : d[k] = c[2 + k]
    BY ONLY <1>2, <2>1, <2>2, PartOf
  <2> QED
    BY <2>3 DEF l
<1> HIDE DEF len
<1>10. len \in Nat /\ Len(d) = BytesAvailable(rest) /\ BytesRead(rest, len) = len
  <2>1. Len(d) = BytesAvailable(rest)
    BY <1>1, <1>6, ContentsType DEF d
  <2> QED
    BY <1>2, <1>3, <1>8, <1>9, <2>1 DEF BytesRead, Least
<1>11. /\ data = SubSeq(d, 1, len) /\ e = SubSeq(d, len + 1, Len(d))
       /\ FullWhenMet(new)
  <2>1. /\ data = SubSeq(d, 1, BytesRead(rest, len))
        /\ e = SubSeq(d, BytesRead(rest, len) + 1, Len(d))
        /\ FullWhenMet(new)
    BY <1>1, <1>5, <1>6, <1>10, ReadTakes DEF d
  <2> QED
    BY <1>10, <2>1
<1> HIDE DEF data, e, new
<1>12. data = p
  <2>1. 0 \in Nat /\ 0 + len <= Len(d) /\ data = SubSeq(d, 0 + 1, 0 + len)
    BY <1>2, <1>3, <1>8, <1>9, <1>10, <1>11
  <2>2. data \in Seq(Byte) /\ Len(data) = len /\ \A k \in 1 .. len : data[k] = d[0 + k]
    BY ONLY <1>9, <1>10, <2>1, PartOf
  <2>3. ASSUME NEW k \in 1 .. len PROVE data[k] = p[k]
    <3>1. k \in 1 .. Len(c) - 2 /\ k \in 1 .. Len(p) /\ 0 + k = k
      BY <1>2, <1>3, <1>8
    <3>2. data[k] = d[0 + k] /\ d[k] = c[2 + k] /\ c[2 + k] = p[k]
      BY <1>3, <1>9, <2>2, <3>1
    <3> QED
      BY <3>1, <3>2
  <2>4. Len(data) = Len(p)
    BY <1>8, <2>2
  <2>5. \A k \in 1 .. Len(data) : data[k] = p[k]
    BY <2>2, <2>3
  <2>6. p \in Seq(Byte)
    BY <1>3
  <2> QED
    BY ONLY <2>2, <2>4, <2>5, <2>6, SeqEqual
<1>13. Start(Overwrite(old, data), len) = p
  <2>1. p \in Seq(Byte)
    BY <1>3
  <2>2. Start(Overwrite(old, p), Len(p)) = p
    BY <2>1, StartOfRead
  <2> QED
    BY <1>8, <1>12, <2>2
<1>14. /\ e \in Seq(Byte) /\ Len(e) = Len(c) - (2 + Len(p))
       /\ \A k \in 1 .. Len(c) - (2 + Len(p)) : e[k] = c[(2 + Len(p)) + k]
  <2> DEFINE l == Len(d) - len
  <2>1. /\ l \in Nat /\ len + l <= Len(d) /\ len + l = Len(d)
        /\ l = Len(c) - (2 + Len(p))
    BY <1>2, <1>3, <1>8, <1>9, <1>10
  <2> HIDE DEF l
  <2>2. e = SubSeq(d, len + 1, len + l)
    BY <1>11, <2>1
  <2>3. e \in Seq(Byte) /\ Len(e) = l /\ \A k \in 1 .. l : e[k] = d[len + k]
    <3>1. d \in Seq(Byte) /\ len \in Nat /\ l \in Nat
      BY <1>9, <1>10, <2>1
    <3>2. len + l <= Len(d)
      BY <2>1
    <3> QED
      BY ONLY <2>2, <3>1, <3>2, PartOf
  <2>4. ASSUME NEW k \in 1 .. l PROVE e[k] = c[(2 + Len(p)) + k]
    <3>1. len + k \in 1 .. Len(c) - 2 /\ 2 + (len + k) = (2 + Len(p)) + k
      BY <1>2, <1>3, <1>8, <1>10, <2>1
    <3>2. e[k] = d[len + k] /\ d[len + k] = c[2 + (len + k)]
      BY <1>9, <2>3, <3>1
    <3> QED
      BY <3>1, <3>2
  <2> QED
    BY <2>1, <2>3, <2>4
<1>15. Framed(e, Tail(packets))
  <2>1. Framed(c, packets)
    BY DEF c
  <2> QED
    BY <1>2, <1>14, <2>1, OtherFrames
<1> QED
  BY <1>11, <1>13, <1>15 DEF tag, len, rest, data, new, e
-----------------------------------------------------------------------------
(* What the ring buffer holds, and why it has room: the inductive          *)
(* invariant.  The stack was given the packets accepted first; the ring    *)
(* buffer holds the frames of the others, and the length of the packet     *)
(* being stored, for which there is room.                                  *)
Whole ==
  /\ FullWhenMet(hci_ringbuffer)
  /\ Len(delivered) <= Len(accepted)
  /\ \A i \in 1 .. Len(delivered) : delivered[i] = accepted[i]
  /\ recv # "store" => Framed(Contents(hci_ringbuffer), Pending)
  /\ recv = "store" =>
       /\ \E held \in Seq(Byte) : /\ Framed(held, Pending)
                                  /\ Contents(hci_ringbuffer) = held \o LenTag(packet)
       /\ Len(packet) <= BytesFree(hci_ringbuffer)
  /\ recv # "idle" => controller = "enabled"

Types == {HCI_ACL_DATA_PACKET, HCI_SCO_DATA_PACKET, HCI_EVENT_PACKET}

(* The controller respects the flow control until the packet is stored.    *)
CreditsKept ==
  /\ \A type \in Types : Cardinality(OfType(Pending, type)) <= Credits(type)
  /\ recv \in {"take", "check", "store"} =>
       Cardinality(OfType(Pending, packet[1])) < Credits(packet[1])

Orderly == Whole /\ CreditsKept

(* The check of host_recv_pkt_cb lets a packet through only where there is *)
(* room for its length too, although it does not count it.                 *)
FitsWithLength ==
  recv = "check" /\ ~ NoSpace => Len(Frame(packet)) <= BytesFree(hci_ringbuffer)

latest == IF delivered = <<>> THEN <<>> ELSE delivered[Len(delivered)]

LEMMA FrameLength ==
  ASSUME NEW p \in Packets
  PROVE  Len(Frame(p)) = 2 + Len(p) /\ Len(p) \in Nat
<1> DEFINE tag == LenTag(p)
<1>1. tag \in Seq(Byte) /\ p \in Seq(Byte) /\ Len(tag) = 2
  BY LenTagType, TagLength
<1> HIDE DEF tag
<1>2. Len(tag \o p) = Len(tag) + Len(p)
  <2>1. tag \in Seq(Byte) /\ p \in Seq(Byte)
    BY <1>1
  <2> QED
    BY ONLY <2>1, Joined
<1> QED
  BY <1>1, <1>2 DEF Frame, tag

LEMMA TypeOfPacket ==
  ASSUME NEW p \in Packets
  PROVE  p[1] \in Types
BY PacketSizesAssumption DEF Types

LEMMA CreditsType == \A type \in Types : Credits(type) \in Nat
BY NumbersAssumption
   DEF Types, Credits, HCI_ACL_DATA_PACKET, HCI_SCO_DATA_PACKET, HCI_EVENT_PACKET

LEMMA PendingType ==
  ASSUME TypeOK, Whole
  PROVE  /\ Pending \in Seq(Packets) /\ Pending = Rest(accepted, Len(delivered))
         /\ Len(delivered) \in 0 .. Len(accepted)
<1>1. accepted \in Seq(Packets) /\ Len(accepted) \in Nat /\ Len(delivered) \in Nat
  BY DEF TypeOK
<1>2. Len(delivered) \in 0 .. Len(accepted)
  BY <1>1 DEF Whole
<1>3. Rest(accepted, Len(delivered)) \in Seq(Packets)
  <2>1. accepted \in Seq(Packets)
    BY <1>1
  <2> QED
    BY ONLY <1>2, <2>1, RestOf
<1> QED
  BY <1>2, <1>3 DEF Pending, Rest

-----------------------------------------------------------------------------
(* The steps that change neither the ring buffer nor the packets.          *)
Quiet ==
  /\ UNCHANGED <<hci_ringbuffer, accepted, delivered>>
  /\ recv' = "store" => recv = "store" /\ packet' = packet
  /\ recv' \in {"take", "check"} =>
       Cardinality(OfType(Pending, packet'[1])) < Credits(packet'[1])
  /\ recv' # "idle" => controller' = "enabled"
  /\ recv = "store" => recv' = "store"

LEMMA QuietSteps ==
  ASSUME TypeOK, Orderly, [Next]_vars,
         ~ RecvStoresLength, ~ RecvStoresPacket, ~ DeliverPacket,
         ~ \E r, e \in {-1, 0} : TransportOpen(r, e)
  PROVE  Quiet
<1> USE DEF Quiet, flags, lifetime, history, store, RecvMoves, MainMoves
<1>0. /\ recv # "idle" => controller = "enabled"
      /\ recv \in {"take", "check", "store"} =>
           Cardinality(OfType(Pending, packet[1])) < Credits(packet[1])
  BY DEF Orderly, Whole, CreditsKept
<1>1. ASSUME NEW p \in Packets, RecvCalled(p) PROVE Quiet
  BY <1>1 DEF RecvCalled, MaySend, Unhandled, OfType
<1>2. CASE SendAvailableCalled
  BY <1>0, <1>2 DEF SendAvailableCalled
<1>3. CASE RecvTakesMutex
  BY <1>0, <1>3 DEF RecvTakesMutex
<1>4. CASE RecvDrops
  BY <1>0, <1>4 DEF RecvDrops
<1>5. CASE RecvSetsFlag
  BY <1>0, <1>5 DEF RecvSetsFlag
<1>6. CASE Trigger
  BY <1>0, <1>6 DEF Trigger
<1>7. CASE PollSignalSent
  BY <1>0, <1>7 DEF PollSignalSent
<1>8. CASE ClearSignalSent
  BY <1>0, <1>8 DEF ClearSignalSent
<1>9. CASE NotifyPacketSent
  BY <1>0, <1>9 DEF NotifyPacketSent
<1>10. CASE PollPacketsToDeliver
  BY <1>0, <1>10 DEF PollPacketsToDeliver
<1>11. CASE ClearPacketsToDeliver
  BY <1>0, <1>11 DEF ClearPacketsToDeliver
<1>12. CASE DeliverTakesMutex
  BY <1>0, <1>12 DEF DeliverTakesMutex
<1>13. CASE DeliverEnds
  BY <1>0, <1>13 DEF DeliverEnds
<1>14. CASE HandlerReturns
  BY <1>0, <1>14 DEF HandlerReturns
<1>15. CASE GoToSleep
  BY <1>0, <1>15 DEF GoToSleep
<1>16. CASE WakeUp
  BY <1>0, <1>16 DEF WakeUp
<1>17. CASE TimerDue
  BY <1>0, <1>17 DEF TimerDue
<1>18. CASE TransportClose
  BY <1>0, <1>18 DEF TransportClose
<1>19. CASE UNCHANGED vars
  BY <1>0, <1>19 DEF vars
<1> QED
  BY <1>1, <1>2, <1>3, <1>4, <1>5, <1>6, <1>7, <1>8, <1>9, <1>10, <1>11,
     <1>12, <1>13, <1>14, <1>15, <1>16, <1>17, <1>18, <1>19
  DEF Next, ControllerTask, RecvStep, MainTask, TransportProcess

LEMMA QuietKeeps ==
  ASSUME Orderly, Quiet
  PROVE  Orderly' /\ UNCHANGED <<Pending, latest>>
<1>1. Pending' = Pending /\ latest' = latest
  BY DEF Quiet, Pending, latest
<1>2. Whole'
  BY <1>1 DEF Orderly, Whole, Quiet
<1>3. CreditsKept'
  BY <1>1 DEF Orderly, CreditsKept, Quiet, Credits
<1> QED
  BY <1>1, <1>2, <1>3 DEF Orderly

(* The length goes behind the frames and leaves room for the packet.       *)
LEMMA LengthStored ==
  ASSUME TypeOK, Orderly, FitsWithLength, RecvStoresLength
  PROVE  Orderly' /\ UNCHANGED <<Pending, latest>>
<1> DEFINE N == StorageSize
           rb == hci_ringbuffer
           tag == LenTag(packet)
           c == Contents(rb)
<1>1. /\ N \in Nat \ {0} /\ rb \in RingBuffers(N, Byte) /\ FullWhenMet(rb)
      /\ packet \in Packets /\ tag \in Seq(Byte)
  BY StorageSizeType, LenTagType
     DEF TypeOK, Orderly, Whole, RecvStoresLength, RecvMoves
<1>2. Len(tag) = 2 /\ Len(packet) \in Nat
  BY <1>1, TagLength, FrameLength
<1>3. 2 + Len(packet) <= BytesFree(rb)
  BY <1>1, FrameLength DEF FitsWithLength, RecvStoresLength, RecvMoves
<1>4. rb' = Write(rb, tag)
  BY DEF RecvStoresLength
<1>5. /\ BytesAvailable(rb) \in Nat /\ Len(c) = BytesAvailable(rb)
      /\ c \in Seq(Byte) /\ BytesFree(rb) = N - BytesAvailable(rb)
  <2>1. BytesFree(rb) = N - BytesAvailable(rb)
    BY <1>1 DEF BytesFree, RingBuffers
  <2> QED
    BY <1>1, <2>1, ContentsType, AvailableType
<1>6. Len(tag) <= BytesFree(rb)
  BY <1>1, <1>2, <1>3, <1>5
<1>7. Contents(Write(rb, tag)) = c \o tag /\ FullWhenMet(Write(rb, tag))
  BY ONLY <1>1, <1>6, WriteAppends
<1>8. Write(rb, tag) \in RingBuffers(N, Byte)
  BY ONLY <1>1, WriteType
<1>9. Len(packet) <= BytesFree(rb')
  <2>1. /\ Len(Contents(rb')) = BytesAvailable(rb')
        /\ BytesFree(rb') = N - BytesAvailable(rb')
    <3>1. rb' \in RingBuffers(N, Byte)
      BY <1>4, <1>8
    <3>2. rb'.size = N
      BY <3>1 DEF RingBuffers
    <3> QED
      BY <1>1, <3>1, <3>2, ContentsType DEF BytesFree
  <2>2. Len(c \o tag) = Len(c) + Len(tag)
    BY <1>1, <1>5
  <2> QED
    BY <1>1, <1>2, <1>3, <1>4, <1>5, <1>7, <2>1, <2>2
<1>10. /\ recv = "check" /\ recv' = "store" /\ packet' = packet
       /\ UNCHANGED <<accepted, delivered, controller>>
  BY DEF RecvStoresLength, RecvMoves, lifetime
<1>11. Pending' = Pending /\ latest' = latest
  BY <1>10 DEF Pending, latest
<1>12. Framed(c, Pending)
  BY <1>10 DEF Orderly, Whole
<1>13. Whole'
  <2>1. Contents(rb)' = c \o LenTag(packet)' /\ FullWhenMet(rb)'
    BY <1>4, <1>7, <1>10
  <2>2. \E held \in Seq(Byte) : Framed(held, Pending') /\ Contents(rb)' = held \o LenTag(packet)'
    BY <1>5, <1>11, <1>12, <2>1
  <2>3. Len(packet') <= BytesFree(rb)'
    BY <1>9, <1>10
  <2>4. /\ Len(delivered) <= Len(accepted) /\ controller = "enabled"
        /\ \A i \in 1 .. Len(delivered) : delivered[i] = accepted[i]
    BY <1>10 DEF Orderly, Whole
  <2> HIDE DEF rb
  <2> QED
    BY <1>10, <2>1, <2>2, <2>3, <2>4 DEF Whole, rb
<1>14. CreditsKept'
  BY <1>10, <1>11 DEF Orderly, CreditsKept, Credits
<1> QED
  BY <1>11, <1>13, <1>14 DEF Orderly

(* The packet completes its frame, behind the others.                      *)
LEMMA PacketStored ==
  ASSUME TypeOK, Orderly, RecvStoresPacket
  PROVE  /\ packet \in Packets /\ Orderly'
         /\ Pending' = Append(Pending, packet) /\ latest' = latest
<1> DEFINE N == StorageSize
           rb == hci_ringbuffer
           new == Write(rb, packet)
           more == Append(Pending, packet)
<1>1. /\ recv = "store" /\ recv' = "set_deliver" /\ hci_ringbuffer' = new
      /\ accepted' = Append(accepted, packet) /\ delivered' = delivered
      /\ packet' = packet /\ controller' = controller
  BY DEF RecvStoresPacket, RecvMoves, lifetime
<1>2. /\ N \in Nat \ {0} /\ rb \in RingBuffers(N, Byte) /\ FullWhenMet(rb)
      /\ packet \in Packets /\ packet \in Seq(Byte)
      /\ Len(packet) <= BytesFree(rb)
  BY <1>1, StorageSizeType, LenTagType DEF TypeOK, Orderly, Whole
<1>3. Contents(new) = Contents(rb) \o packet /\ FullWhenMet(new)
  BY ONLY <1>2, WriteAppends
<1>4. PICK held \in Seq(Byte) : /\ Framed(held, Pending)
                                /\ Contents(rb) = held \o LenTag(packet)
  BY <1>1 DEF Orderly, Whole
<1>5. /\ Pending \in Seq(Packets) /\ Pending = Rest(accepted, Len(delivered))
      /\ Len(delivered) \in 0 .. Len(accepted)
  BY PendingType DEF Orderly
<1>6. Framed((held \o LenTag(packet)) \o packet, more)
  <2>1. /\ held \in Seq(Byte) /\ Pending \in Seq(Packets) /\ packet \in Packets
        /\ Framed(held, Pending)
    BY <1>2, <1>4, <1>5
  <2> QED
    BY ONLY <2>1, FrameAppended
<1>7. Framed(Contents(new), more)
  BY <1>3, <1>4, <1>6
<1>8. accepted \in Seq(Packets)
  BY DEF TypeOK
<1>9. Pending' = more
  <2>1. Rest(Append(accepted, packet), Len(delivered))
          = Append(Rest(accepted, Len(delivered)), packet)
    <3>1. Len(delivered) \in 0 .. Len(accepted)
      BY <1>5
    <3>2. packet \in Packets
      BY <1>2
    <3> QED
      BY ONLY <1>8, <3>1, <3>2, RestOfAppended
  <2>2. Pending' = Rest(accepted', Len(delivered'))
    BY DEF Pending, Rest
  <2> QED
    BY <1>1, <1>5, <2>1, <2>2
<1>10. latest' = latest
  BY <1>1 DEF latest
<1>11. Whole'
  <2>1. FullWhenMet(new) /\ controller = "enabled"
    BY <1>1, <1>3 DEF Orderly, Whole
  <2>2. /\ Len(delivered) <= Len(accepted')
        /\ \A i \in 1 .. Len(delivered) : delivered[i] = accepted'[i]
    <3>1. /\ Len(accepted') = Len(accepted) + 1 /\ Len(accepted) \in Nat
          /\ \A i \in 1 .. Len(accepted) : accepted'[i] = accepted[i]
      BY <1>1, <1>2, <1>8, AppendProperties
    <3>2. /\ Len(delivered) <= Len(accepted) /\ Len(delivered) \in Nat
          /\ \A i \in 1 .. Len(delivered) : delivered[i] = accepted[i]
      BY <1>5 DEF Orderly, Whole
    <3> QED
      BY <3>1, <3>2
  <2> HIDE DEF new, more
  <2> QED
    BY <1>1, <1>7, <1>9, <2>1, <2>2 DEF Whole
<1>12. CreditsKept'
  <2>1. ASSUME NEW type \in Types
        PROVE  Cardinality(OfType(more, type)) <= Credits(type)
    <3>1. Cardinality(OfType(more, type)) = Cardinality(OfType(Pending, type))
            + (IF packet[1] = type THEN 1 ELSE 0)
      BY <1>2, <1>5, OneMore
    <3>2. Cardinality(OfType(Pending, type)) \in Nat /\ Credits(type) \in Nat
      BY <1>5, OfTypeFinite, CreditsType
    <3>3. /\ Cardinality(OfType(Pending, type)) <= Credits(type)
          /\ packet[1] = type => Cardinality(OfType(Pending, type)) < Credits(type)
      BY <1>1 DEF Orderly, CreditsKept
    <3> QED
      BY <3>1, <3>2, <3>3
  <2> HIDE DEF more
  <2> QED
    BY <1>1, <1>9, <2>1 DEF CreditsKept, Credits
<1> QED
  BY <1>2, <1>9, <1>10, <1>11, <1>12 DEF Orderly

(* transport_deliver_packets hands over the packet that waits first.       *)
LEMMA FirstHandled ==
  ASSUME TypeOK, MutexHeldWhereUsed, Orderly, DeliverPacket
  PROVE  /\ Orderly' /\ Pending # <<>>
         /\ Pending' = Tail(Pending) /\ latest' = Pending[1]
<1> DEFINE N == StorageSize
           rb == hci_ringbuffer
           d == Len(delivered)
           others == Tail(Pending)
<1>1. /\ recv \notin {"check", "store"} /\ recv' = recv /\ packet' = packet
      /\ accepted' = accepted /\ controller' = controller
      /\ BytesAvailable(rb) > 0
  BY DEF DeliverPacket, MainMoves, MutexHeldWhereUsed, lifetime
<1>2. /\ N \in Nat \ {0} /\ rb \in RingBuffers(N, Byte) /\ FullWhenMet(rb)
      /\ Framed(Contents(rb), Pending) /\ hci_receive_buffer \in Seq(Byte)
      /\ accepted \in Seq(Packets) /\ delivered \in Seq(Seq(Byte))
  BY <1>1, StorageSizeType DEF TypeOK, Orderly, Whole
<1>3. /\ Pending \in Seq(Packets) /\ Pending = Rest(accepted, d)
      /\ d \in 0 .. Len(accepted)
  BY PendingType DEF Orderly
<1>4. Pending # <<>>
  <2>1. Contents(rb) \in Seq(Byte) /\ Len(Contents(rb)) = BytesAvailable(rb)
    BY <1>2, ContentsType
  <2>2. Len(Contents(rb)) # 0
    BY <1>1, <1>2, <2>1, AvailableType
  <2> QED
    BY <1>2, <1>3, <2>1, <2>2, HeldWhenFramed
<1>5. PICK new :
        /\ hci_ringbuffer' = new /\ FullWhenMet(new)
        /\ Framed(Contents(new), others)
        /\ delivered' = Append(delivered, Pending[1])
  <2> DEFINE tag    == ReadData(rb, 2)
             len    == tag[1] + 256 * (IF Len(tag) = 2 THEN tag[2] ELSE 0)
             rest   == Read(rb, 2)
             buffer == Overwrite(hci_receive_buffer, ReadData(rest, len))
  <2>1. /\ Start(buffer, len) = Pending[1]
        /\ FullWhenMet(Read(rest, len))
        /\ Framed(Contents(Read(rest, len)), others)
    <3>1. /\ rb \in RingBuffers(StorageSize, Byte) /\ FullWhenMet(rb)
          /\ Pending \in Seq(Packets) /\ Pending # <<>>
          /\ Framed(Contents(rb), Pending) /\ hci_receive_buffer \in Seq(Byte)
      BY <1>2, <1>3, <1>4
    <3> QED
      BY ONLY <3>1, FirstDelivered
  <2>2. /\ hci_ringbuffer' = Read(rest, len)
        /\ delivered' = Append(delivered, Start(buffer, len))
    BY DEF DeliverPacket
  <2> HIDE DEF rest, len, buffer
  <2> QED
    BY <2>1, <2>2
<1>6. /\ d \in 0 .. Len(accepted) - 1 /\ Pending[1] = accepted[d + 1]
      /\ Rest(accepted, d + 1) = others
  <2>1. Len(Pending) # 0 /\ Len(Pending) = Len(accepted) - d
    <3>1. d \in 0 .. Len(accepted)
      BY <1>3
    <3>2. accepted \in Seq(Packets)
      BY <1>2
    <3>3. Len(Rest(accepted, d)) = Len(accepted) - d
      BY ONLY <3>1, <3>2, RestOf
    <3> QED
      BY <1>3, <1>4, <3>3, EmptySeq
  <2>2. d \in 0 .. Len(accepted) - 1
    BY <1>2, <1>3, <2>1
  <2>3. accepted \in Seq(Packets)
    BY <1>2
  <2>4. /\ Rest(accepted, d)[1] = accepted[d + 1]
        /\ Rest(accepted, d + 1) = Tail(Rest(accepted, d))
    BY ONLY <2>2, <2>3, TailOfRest
  <2> QED
    BY <1>3, <2>2, <2>4
<1>7. Pending[1] \in Seq(Byte)
  <2>1. Pending[1] \in Packets
    BY <1>3, <1>4, EmptySeq
  <2> QED
    BY <2>1, PacketsAssumption
<1>8. /\ Len(delivered') = d + 1 /\ delivered'[d + 1] = accepted[d + 1]
      /\ \A i \in 1 .. d : delivered'[i] = delivered[i]
  BY <1>2, <1>5, <1>6, <1>7, AppendProperties
<1>9. Pending' = others
  <2>1. Pending' = Rest(accepted', Len(delivered'))
    BY DEF Pending, Rest
  <2> QED
    BY <1>1, <1>6, <1>8, <2>1
<1>10. latest' = Pending[1]
  <2>1. delivered' # <<>>
    BY <1>3, <1>8
  <2> QED
    BY <1>6, <1>8, <2>1 DEF latest
<1>11. Whole'
  <2>1. /\ Len(delivered') <= Len(accepted)
        /\ \A i \in 1 .. Len(delivered') : delivered'[i] = accepted[i]
    <3>1. d + 1 <= Len(accepted)
      BY <1>2, <1>6
    <3>2. ASSUME NEW i \in 1 .. d + 1 PROVE delivered'[i] = accepted[i]
      <4>1. CASE i \in 1 .. d
        BY <1>8, <4>1 DEF Orderly, Whole
      <4>2. CASE i = d + 1
        BY <1>8, <4>2
      <4> QED
        BY <1>3, <4>1, <4>2
    <3> QED
      BY <1>8, <3>1, <3>2
  <2>2. recv # "idle" => controller = "enabled"
    BY DEF Orderly, Whole
  <2> HIDE DEF others, d
  <2> QED
    BY <1>1, <1>5, <1>9, <2>1, <2>2 DEF Whole
<1>12. CreditsKept'
  <2>1. ASSUME NEW type
        PROVE  /\ Cardinality(OfType(others, type)) \in Nat
               /\ Cardinality(OfType(Pending, type)) \in Nat
               /\ Cardinality(OfType(others, type)) <= Cardinality(OfType(Pending, type))
    <3>1. others \in Seq(Packets)
      BY <1>3, <1>4, HeadTailProperties
    <3>2. Cardinality(OfType(others, type)) \in Nat
      BY <3>1, OfTypeFinite
    <3>3. Cardinality(OfType(Pending, type)) \in Nat
      BY <1>3, OfTypeFinite
    <3>4. Cardinality(OfType(Pending, type)) = Cardinality(OfType(others, type))
            + (IF Pending[1][1] = type THEN 1 ELSE 0)
      BY <1>3, <1>4, OneLess
    <3> QED
      BY <3>2, <3>3, <3>4
  <2>2. recv = "take" => packet \in Packets
    BY DEF TypeOK
  <2>3. /\ \A type \in Types : Cardinality(OfType(Pending, type)) <= Credits(type)
        /\ recv = "take" =>
             Cardinality(OfType(Pending, packet[1])) < Credits(packet[1])
    BY DEF Orderly, CreditsKept
  <2> HIDE DEF others
  <2>4. ASSUME NEW type \in Types
        PROVE  Cardinality(OfType(others, type)) <= Credits(type)
    <3>1. Credits(type) \in Nat
      BY CreditsType
    <3> QED
      BY <2>1, <2>3, <3>1
  <2>5. ASSUME recv = "take"
        PROVE  Cardinality(OfType(others, packet[1])) < Credits(packet[1])
    <3>1. Credits(packet[1]) \in Nat
      BY <2>2, <2>5, TypeOfPacket, CreditsType
    <3> QED
      BY <2>1, <2>3, <2>5, <3>1
  <2> QED
    BY <1>1, <1>9, <2>4, <2>5 DEF CreditsKept, Credits
<1> QED
  BY <1>4, <1>9, <1>10, <1>11, <1>12 DEF Orderly

(* With no packet accepted yet the ring buffer holds none.                 *)
NoPackets ==
  /\ hci_ringbuffer \in RingBuffers(StorageSize, Byte)
  /\ BytesAvailable(hci_ringbuffer) = 0 /\ FullWhenMet(hci_ringbuffer)
  /\ accepted = <<>> /\ delivered = <<>> /\ recv = "idle"

LEMMA NothingAccepted == NoPackets => Orderly /\ Pending = <<>> /\ latest = <<>>
<1> SUFFICES ASSUME NoPackets PROVE Orderly /\ Pending = <<>> /\ latest = <<>>
  OBVIOUS
<1> USE DEF NoPackets
<1> DEFINE c == Contents(hci_ringbuffer)
<1>1. Pending = <<>> /\ latest = <<>> /\ Len(delivered) = 0 /\ Len(accepted) = 0
  BY DEF Pending, latest
<1>2. c = <<>>
  <2>1. c \in Seq(Byte) /\ Len(c) = 0
    BY StorageSizeType, ContentsType
  <2> HIDE DEF c
  <2> QED
    BY ONLY <2>1, EmptySeq
<1>3. Whole
  BY <1>1, <1>2, NothingFramed DEF Whole
<1>4. CreditsKept
  <2>1. \A type : OfType(<<>>, type) = {}
    BY DEF OfType
  <2>2. \A type : Cardinality(OfType(<<>>, type)) = 0
    BY <2>1, FS_EmptySet
  <2> QED
    BY <1>1, <2>2, CreditsType DEF CreditsKept
<1> QED
  BY <1>1, <1>3, <1>4 DEF Orderly

LEMMA Reopened ==
  ASSUME TypeOK, TypeOK', Orderly, NEW r, NEW e, TransportOpen(r, e)
  PROVE  Orderly' /\ Pending' = <<>> /\ latest' = <<>>
<1>1. hci_ringbuffer.storage \in [0 .. StorageSize-1 -> Byte]
  BY DEF TypeOK, RingBuffers
<1>2. /\ hci_ringbuffer' \in RingBuffers(StorageSize, Byte)
      /\ BytesAvailable(hci_ringbuffer') = 0
  BY <1>1, StorageSizeType, NewIsEmpty DEF TransportOpen
<1>3. FullWhenMet(hci_ringbuffer')
  BY DEF TransportOpen, New, FullWhenMet
<1>4. accepted' = <<>> /\ delivered' = <<>> /\ recv' = "idle"
  BY DEF TransportOpen, Orderly, Whole
<1>5. NoPackets'
  BY <1>2, <1>3, <1>4 DEF NoPackets
<1>6. (Orderly /\ Pending = <<>> /\ latest = <<>>)'
  BY <1>5, NothingAccepted, PTL
<1> QED
  BY <1>6

-----------------------------------------------------------------------------
(* Every step keeps the order, and is a step of the channel.               *)
LEMMA EveryStep ==
  ASSUME TypeOK, TypeOK', MutexHeldWhereUsed, Orderly, FitsWithLength, [Next]_vars
  PROVE  Orderly' /\ [Channel!ChannelNext]_<<Pending, latest>>
<1> USE DEF latest
<1>1. CASE RecvStoresLength
  BY <1>1, LengthStored
<1>2. CASE RecvStoresPacket
  <2>1. /\ packet \in Packets /\ Orderly'
        /\ Pending' = Append(Pending, packet) /\ latest' = latest
    BY <1>2, PacketStored
  <2>2. Channel!Enqueue(packet)
    BY <2>1 DEF Channel!Enqueue
  <2> QED
    BY <2>1, <2>2 DEF Channel!ChannelNext
<1>3. CASE DeliverPacket
  <2>1. /\ Orderly' /\ Pending # <<>>
        /\ Pending' = Tail(Pending) /\ latest' = Pending[1]
    BY <1>3, FirstHandled
  <2>2. Channel!Deliver
    BY <2>1 DEF Channel!Deliver
  <2> QED
    BY <2>1, <2>2 DEF Channel!ChannelNext
<1>4. ASSUME NEW r \in {-1, 0}, NEW e \in {-1, 0}, TransportOpen(r, e)
      PROVE  Orderly' /\ [Channel!ChannelNext]_<<Pending, latest>>
  <2>1. Orderly' /\ Pending' = <<>> /\ latest' = <<>>
    BY <1>4, Reopened
  <2>2. Channel!Reopen
    BY <2>1 DEF Channel!Reopen
  <2> QED
    BY <2>1, <2>2 DEF Channel!ChannelNext
<1>5. CASE ~ (RecvStoresLength \/ RecvStoresPacket \/ DeliverPacket
              \/ \E r, e \in {-1, 0} : TransportOpen(r, e))
  <2>1. Quiet
    BY <1>5, QuietSteps
  <2> QED
    BY <2>1, QuietKeeps
<1> QED
  BY <1>1, <1>2, <1>3, <1>4, <1>5

(* hci_ringbuffer_storage has room for what the flow control lets through. *)
LEMMA RoomAtCheck ==
  ASSUME TypeOK, Orderly, recv = "check",
         EventsWaiting <= MAX_NR_HOST_EVENT_PACKETS
  PROVE  Len(Frame(packet)) <= BytesFree(hci_ringbuffer)
<1> DEFINE more == Append(Pending, packet)
           count(type) == Cardinality(OfType(more, type))
           l == Len(Contents(hci_ringbuffer))
<1>1. packet \in Packets /\ Pending \in Seq(Packets)
  BY PendingType DEF TypeOK, Orderly
<1>2. /\ Len(Frame(packet)) = 2 + Len(packet) /\ Len(packet) \in Nat
      /\ RoomFor(packet) \in Nat /\ 2 + Len(packet) <= RoomFor(packet)
  BY <1>1, FrameLength, OnePacket
<1>3. l \in Nat /\ l <= RoomOf(Pending) /\ BytesFree(hci_ringbuffer) = StorageSize - l
  <2>1. hci_ringbuffer \in RingBuffers(StorageSize, Byte)
    BY DEF TypeOK
  <2>2. /\ Contents(hci_ringbuffer) \in Seq(Byte)
        /\ Len(Contents(hci_ringbuffer)) = BytesAvailable(hci_ringbuffer)
    BY <2>1, StorageSizeType, ContentsType
  <2>3. Framed(Contents(hci_ringbuffer), Pending)
    BY DEF Orderly, Whole
  <2>4. Len(Contents(hci_ringbuffer)) <= RoomOf(Pending)
    BY ONLY <1>1, <2>2, <2>3, RoomWhenFramed
  <2>5. hci_ringbuffer.size = StorageSize
    BY <2>1 DEF RingBuffers
  <2> QED
    BY <2>2, <2>4, <2>5 DEF BytesFree
<1>4. RoomOf(more) = RoomOf(Pending) + RoomFor(packet) /\ RoomOf(Pending) \in Nat
  BY <1>1, RoomOfAppended, RoomOfType
<1>5. \A type : /\ count(type) = Cardinality(OfType(Pending, type))
                                   + (IF packet[1] = type THEN 1 ELSE 0)
                /\ Cardinality(OfType(Pending, type)) \in Nat
  BY <1>1, OneMore, OfTypeFinite
<1>6. /\ \A type \in Types : Cardinality(OfType(Pending, type)) <= Credits(type)
      /\ Cardinality(OfType(Pending, packet[1])) < Credits(packet[1])
  BY DEF Orderly, CreditsKept
<1> DEFINE a == count(HCI_ACL_DATA_PACKET)
           s == count(HCI_SCO_DATA_PACKET)
           e == count(HCI_EVENT_PACKET)
<1>7. a \in 0 .. HCI_HOST_ACL_PACKET_NUM
  <2>1. /\ HCI_ACL_DATA_PACKET \in Types
        /\ Credits(HCI_ACL_DATA_PACKET) = HCI_HOST_ACL_PACKET_NUM
    BY DEF Types, Credits, HCI_ACL_DATA_PACKET, HCI_SCO_DATA_PACKET
  <2> DEFINE n == Cardinality(OfType(Pending, HCI_ACL_DATA_PACKET))
  <2>2. n \in Nat /\ a = n + (IF packet[1] = HCI_ACL_DATA_PACKET THEN 1 ELSE 0)
    BY <1>5
  <2>3. /\ n <= HCI_HOST_ACL_PACKET_NUM
        /\ packet[1] = HCI_ACL_DATA_PACKET => n < HCI_HOST_ACL_PACKET_NUM
    BY <1>6, <2>1
  <2> HIDE DEF n, a
  <2> QED
    BY <2>2, <2>3, NumbersAssumption
<1>8. s \in 0 .. HCI_HOST_SCO_PACKET_NUM
  <2>1. /\ HCI_SCO_DATA_PACKET \in Types
        /\ Credits(HCI_SCO_DATA_PACKET) = HCI_HOST_SCO_PACKET_NUM
    BY DEF Types, Credits, HCI_ACL_DATA_PACKET, HCI_SCO_DATA_PACKET
  <2> DEFINE n == Cardinality(OfType(Pending, HCI_SCO_DATA_PACKET))
  <2>2. n \in Nat /\ s = n + (IF packet[1] = HCI_SCO_DATA_PACKET THEN 1 ELSE 0)
    BY <1>5
  <2>3. /\ n <= HCI_HOST_SCO_PACKET_NUM
        /\ packet[1] = HCI_SCO_DATA_PACKET => n < HCI_HOST_SCO_PACKET_NUM
    BY <1>6, <2>1
  <2> HIDE DEF n, s
  <2> QED
    BY <2>2, <2>3, NumbersAssumption
<1>9. e \in 0 .. MAX_NR_HOST_EVENT_PACKETS
  <2> DEFINE n == Cardinality(OfType(Pending, HCI_EVENT_PACKET))
  <2>2. EventsWaiting = n + (IF packet[1] = HCI_EVENT_PACKET THEN 1 ELSE 0)
    BY DEF EventsWaiting, Unhandled, OfType
  <2>3. n \in Nat /\ e = n + (IF packet[1] = HCI_EVENT_PACKET THEN 1 ELSE 0)
    BY <1>5
  <2>1. e = EventsWaiting /\ e \in Nat
    BY <2>2, <2>3
  <2> HIDE DEF e
  <2> QED
    BY <2>1, NumbersAssumption
<1>10. RoomOf(more) = Room(a, s, e)
  BY DEF RoomOf
<1>11. StorageSize = Room(HCI_HOST_ACL_PACKET_NUM, HCI_HOST_SCO_PACKET_NUM,
                          MAX_NR_HOST_EVENT_PACKETS)
  BY DEF StorageSize, Room
<1> HIDE DEF a, s, e, l, more
<1>12. Room(a, s, e) <= StorageSize
  <2>1. /\ HCI_HOST_ACL_PACKET_NUM \in Nat /\ HCI_HOST_SCO_PACKET_NUM \in Nat
        /\ MAX_NR_HOST_EVENT_PACKETS \in Nat
    BY NumbersAssumption
  <2>2. Room(a, s, e) <= Room(HCI_HOST_ACL_PACKET_NUM, HCI_HOST_SCO_PACKET_NUM,
                              MAX_NR_HOST_EVENT_PACKETS)
    BY ONLY <1>7, <1>8, <1>9, <2>1, RoomGrows
  <2> QED
    BY <1>11, <2>2
<1>13. StorageSize \in Nat
  BY StorageSizeType
<1> QED
  BY <1>2, <1>3, <1>4, <1>10, <1>12, <1>13

LEMMA OrderlyInitially == Init => Orderly /\ Channel!ChannelInit
<1> SUFFICES ASSUME Init PROVE Orderly /\ Channel!ChannelInit
  OBVIOUS
<1>1. [k \in 0 .. StorageSize-1 |-> 0] \in [0 .. StorageSize-1 -> Byte]
  BY DEF Byte
<1>2. /\ hci_ringbuffer \in RingBuffers(StorageSize, Byte)
      /\ BytesAvailable(hci_ringbuffer) = 0
  BY <1>1, StorageSizeType, NewIsEmpty DEF Init
<1>3. FullWhenMet(hci_ringbuffer)
  BY DEF Init, New, FullWhenMet
<1>4. NoPackets
  BY <1>2, <1>3 DEF Init, NoPackets
<1> QED
  BY <1>4, NothingAccepted DEF Channel!ChannelInit, latest

(* While no check lets a packet through that its length leaves no room     *)
(* for, nothing else can lose or mix up a packet.                          *)
LEMMA OrderlyAlways == Spec /\ []FitsWithLength => []Orderly
<1>1. TypeOK /\ TypeOK' /\ MutexHeldWhereUsed /\ Orderly /\ FitsWithLength /\ [Next]_vars => Orderly'
  BY EveryStep
<1> QED
  BY <1>1, OrderlyInitially, TypeCorrect, MutualExclusion, PTL DEF Spec

LEMMA InOrder == Orderly /\ TypeOK => PacketsInOrder
<1> SUFFICES ASSUME Orderly, TypeOK PROVE PacketsInOrder
  OBVIOUS
<1> DEFINE n == Len(delivered)
           start == SubSeq(accepted, 0 + 1, 0 + n)
<1>1. /\ accepted \in Seq(Packets) /\ delivered \in Seq(Seq(Byte)) /\ n \in Nat
      /\ n <= Len(accepted) /\ \A i \in 1 .. n : delivered[i] = accepted[i]
  BY DEF TypeOK, Orderly, Whole
<1>2. accepted \in Seq(Packets) /\ 0 \in Nat /\ n \in Nat /\ 0 + n <= Len(accepted)
  BY <1>1
<1> HIDE DEF n
<1>3. /\ start \in Seq(Packets) /\ Len(start) = n
      /\ \A k \in 1 .. n : start[k] = accepted[0 + k]
  BY ONLY <1>2, PartOf
<1>4. start \in Seq(Seq(Byte))
  BY <1>3, PacketsAssumption
<1>5. start = SubSeq(accepted, 1, n)
  BY <1>2
<1> HIDE DEF start
<1>6. Len(start) = Len(delivered) /\ \A k \in 1 .. Len(start) : start[k] = delivered[k]
  <2>1. \A k \in 1 .. n : 0 + k = k
    BY <1>2
  <2>2. \A k \in 1 .. n : start[k] = delivered[k]
    BY <1>1, <1>3, <2>1
  <2> QED
    BY <1>3, <2>2 DEF n
<1>7. start = delivered
  BY ONLY <1>1, <1>4, <1>6, SeqEqual
<1>8. SubSeq(delivered, 1, n) = delivered
  BY <1>1 DEF n
<1> QED
  BY <1>1, <1>5, <1>7, <1>8 DEF PacketsInOrder, IsPrefix, n

-----------------------------------------------------------------------------
(* Unless the check of host_recv_pkt_cb lets a packet through that fits    *)
(* only without its length, no packet is lost once it is accepted, and     *)
(* none is split, merged with another or overtaken.                        *)
THEOREM InOrderWhileItFits == Spec /\ []FitsWithLength => []PacketsInOrder
BY InOrder, OrderlyAlways, TypeCorrect, PTL

(* ... the storage suffices for everything the flow control lets through   *)
(* and the events it is meant for ...                                      *)
THEOREM RoomWhileItFits == Spec /\ []FitsWithLength => []RoomForEveryPacket
<1>1. TypeOK /\ Orderly => RoomForEveryPacket
  BY RoomAtCheck, FrameLength, StorageSizeType, AvailableType
     DEF RoomForEveryPacket
<1> QED
  BY <1>1, OrderlyAlways, TypeCorrect, PTL

(* ... and the transport is the first-in first-out channel of whole        *)
(* packets that HciChannel describes.                                      *)
THEOREM ChannelWhileItFits == Spec /\ []FitsWithLength => ImplementsChannel
<1>1. TypeOK /\ TypeOK' /\ MutexHeldWhereUsed /\ Orderly /\ FitsWithLength /\ [Next]_vars
        => [Channel!ChannelNext]_<<Pending, latest>>
  BY EveryStep
<1>2. Spec /\ []FitsWithLength => Channel!ChannelInit /\ [][Channel!ChannelNext]_<<Pending, latest>>
  BY <1>1, OrderlyInitially, OrderlyAlways, TypeCorrect, MutualExclusion, PTL DEF Spec
<1> QED
  BY <1>2 DEF ImplementsChannel, Channel!ChannelSpec, latest

(* A host that lets no more events wait than MAX_NR_HOST_EVENT_PACKETS is  *)
(* never in that case: the check is right for it.                          *)
LEMMA EventsFit ==
  ASSUME EventBurst <= MAX_NR_HOST_EVENT_PACKETS
  PROVE  TypeOK /\ Orderly => FitsWithLength
<1> SUFFICES ASSUME TypeOK, Orderly, recv = "check"
             PROVE  Len(Frame(packet)) <= BytesFree(hci_ringbuffer)
  BY DEF FitsWithLength
<1>1. EventsWaiting <= MAX_NR_HOST_EVENT_PACKETS
  <2> DEFINE n == Cardinality(OfType(Pending, HCI_EVENT_PACKET))
  <2>1. EventsWaiting = n + (IF packet[1] = HCI_EVENT_PACKET THEN 1 ELSE 0)
    BY DEF EventsWaiting, Unhandled, OfType
  <2>2. n \in Nat
    BY PendingType, OfTypeFinite DEF Orderly
  <2>3. /\ HCI_EVENT_PACKET \in Types /\ Credits(HCI_EVENT_PACKET) = EventBurst
    BY DEF Types, Credits, HCI_ACL_DATA_PACKET, HCI_SCO_DATA_PACKET, HCI_EVENT_PACKET
  <2>4. n <= EventBurst /\ (packet[1] = HCI_EVENT_PACKET => n < EventBurst)
    BY <2>3 DEF Orderly, CreditsKept
  <2> HIDE DEF n
  <2> QED
    BY <2>1, <2>2, <2>4, NumbersAssumption
<1> QED
  BY <1>1, RoomAtCheck

LEMMA FitsAlways ==
  ASSUME EventBurst <= MAX_NR_HOST_EVENT_PACKETS
  PROVE  Spec => []FitsWithLength
<1>1. TypeOK /\ Orderly => FitsWithLength
  BY EventsFit
<1>2. TypeOK /\ TypeOK' /\ MutexHeldWhereUsed /\ Orderly /\ FitsWithLength /\ [Next]_vars => Orderly'
  BY EveryStep
<1> QED
  BY <1>1, <1>2, OrderlyInitially, TypeCorrect, MutualExclusion, PTL DEF Spec

(* With no more events waiting than the storage is meant for, the contract *)
(* of the transport holds whatever arrives: there is always room ...       *)
THEOREM RoomForEvents ==
  ASSUME EventBurst <= MAX_NR_HOST_EVENT_PACKETS
  PROVE  Spec => []RoomForEveryPacket
BY FitsAlways, RoomWhileItFits, PTL

(* ... the stack is given every accepted packet, whole and in order ...    *)
THEOREM InOrderForEvents ==
  ASSUME EventBurst <= MAX_NR_HOST_EVENT_PACKETS
  PROVE  Spec => []PacketsInOrder
BY FitsAlways, InOrderWhileItFits, PTL

(* ... and the transport is the channel.                                   *)
THEOREM ChannelForEvents ==
  ASSUME EventBurst <= MAX_NR_HOST_EVENT_PACKETS
  PROVE  Spec => ImplementsChannel
BY FitsAlways, ChannelWhileItFits, PTL
=============================================================================
