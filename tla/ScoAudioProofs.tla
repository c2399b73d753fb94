--------------------------- MODULE ScoAudioProofs ---------------------------
(***************************************************************************)
(* What holds of the audio path for every size of buffer, packet and       *)
(* prebuffer, every number of links and of calls, as long as one link is   *)
(* up at a time.  Two at a time are what ScoSecondCall.cfg is about.       *)
(***************************************************************************)
EXTENDS ScoAudio, FiniteSetTheorems, SequenceTheorems, TLAPS

(* As much of the types as the proofs need.                                *)
Typed ==
  /\ link \in [Links -> Codecs \cup {NoCodec}]
  /\ sco_handle \in Links \cup {NoLink}
  /\ {inPaused, outPaused, waiting, reserved, sink, source} \subseteq BOOLEAN
  /\ call \in Nat

OfThisCall == sco_handle # NoLink => in \in Seq({call}) /\ out \in Seq({call})

CallKept ==
  Typed /\ AudioFollowsCall /\ OfThisCall /\ CallKeepsSending /\ NeverAsserts

-----------------------------------------------------------------------------
(* The buffers.                                                            *)

LEMMA DroppedStays ==
  ASSUME NEW S, NEW ring \in Seq(S), NEW n \in Nat
  PROVE  Dropped(ring, n) \in Seq(S)
<1>1. n + 1 \in Int /\ Len(ring) \in Int /\ \A i \in n + 1 .. Len(ring) : ring[i] \in S
  OBVIOUS
<1> QED
  BY <1>1, SubSeqProperties DEF Dropped

LEMMA WrittenStays ==
  ASSUME NEW ring \in Seq({call}), NEW n \in Nat, NEW size
  PROVE  Written(ring, n, size) \in Seq({call})
<1>1. [i \in 1 .. n |-> call] \in Seq({call})
  OBVIOUS
<1> HIDE DEF Written
<1>2. ring \o [i \in 1 .. n |-> call] \in Seq({call})
  BY <1>1, ConcatProperties
<1> QED
  BY <1>2 DEF Written

LEMMA SmallerOfTwo ==
  ASSUME NEW a \in Nat, NEW b \in Nat
  PROVE  Min({a, b}) \in Nat
<1>1. CASE a <= b
  <2>1. \E x \in {a, b} : \A y \in {a, b} : x <= y
    BY <1>1
  <2> QED
    BY <2>1 DEF Min
<1>2. CASE b <= a
  <2>1. \E x \in {a, b} : \A y \in {a, b} : x <= y
    BY <1>2
  <2> QED
    BY <2>1 DEF Min
<1> QED
  BY <1>1, <1>2

LEMMA SizesAreNumbers ==
  /\ \A c \in Codecs : PacketSize[c] \in Nat
  /\ DmaSize \in Nat
  BY ScoAudioAssumption DEF Codecs

LEMMA TakenIsNumber ==
  ASSUME NEW S, NEW c \in Codecs, NEW ring \in Seq(S), NEW paused
  PROVE  Taken(c, ring, paused) \in Nat
<1>1. PacketSize[c] \in Nat /\ Len(ring) \in Nat
  BY SizesAreNumbers
<1>2. Min({PacketSize[c], Len(ring)}) \in Nat
  BY <1>1, SmallerOfTwo
<1> QED
  BY <1>1, <1>2 DEF Taken

(* With a link, a demo that waits to send waits on, and with no packet     *)
(* under way it is the controller it waits for.                            *)
LEMMA NotifyKeepsSending ==
  ASSUME NEW isWaiting \in BOOLEAN, NEW isReserved \in BOOLEAN, NEW l, NEW c,
         NEW ring, NEW paused \in BOOLEAN, NEW count, NEW before, NEW S,
         l # NoLink => c \in Codecs /\ ring \in Seq(S) /\ isWaiting,
         Notify(isWaiting, isReserved, l, c, ring, paused, count, before)
  PROVE  /\ waiting' \in BOOLEAN /\ reserved' \in BOOLEAN /\ inPaused' \in BOOLEAN
         /\ l # NoLink => /\ in' \in Seq(S)
                          /\ waiting' /\ (reserved' \/ ~ SlotFree(unacked'))
<1>1. CASE isWaiting /\ ~ isReserved /\ SlotFree(count) /\ l # NoLink
  <2>1. DemoSend(l, c, ring, paused, count)
    BY <1>1 DEF Notify
  <2>2. /\ in' = Dropped(ring, Taken(c, ring, paused)) /\ reserved' = TRUE
        /\ waiting' = TRUE /\ inPaused' = (Taken(c, ring, paused) < PacketSize[c])
    BY <2>1 DEF DemoSend
  <2>3. in' \in Seq(S)
    BY <1>1, <2>2, TakenIsNumber, DroppedStays
  <2> QED
    BY <2>2, <2>3
<1>2. CASE ~ (isWaiting /\ ~ isReserved /\ SlotFree(count) /\ l # NoLink)
  <2>1. /\ in' = ring /\ inPaused' = paused /\ reserved' = isReserved
        /\ unacked' = count
        /\ waiting' = (isWaiting /\ (isReserved \/ ~ SlotFree(count)))
    BY <1>2 DEF Notify
  <2> QED
    BY <1>2, <2>1
<1> QED
  BY <1>1, <1>2

-----------------------------------------------------------------------------
(* The calls.                                                              *)

LEMMA KeptInitially == Init => CallKept
<1> SUFFICES ASSUME Init PROVE CallKept
  OBVIOUS
<1>1. Typed /\ OfThisCall
  BY DEF Init, Typed, OfThisCall, NoCall
<1>2. AudioFollowsCall /\ CallKeepsSending /\ NeverAsserts
  BY DEF Init, AudioFollowsCall, CallKeepsSending, NeverAsserts, Up
<1> QED
  BY <1>1, <1>2 DEF CallKept

(* Steps within a call, or without one.                                    *)
LEMMA SameCallKept ==
  ASSUME CallKept, UNCHANGED callVars,
         {inPaused', outPaused', waiting', reserved'} \subseteq BOOLEAN,
         sco_handle # NoLink =>
           /\ in' \in Seq({call}) /\ out' \in Seq({call})
           /\ waiting' /\ (reserved' \/ ~ SlotFree(unacked'))
  PROVE  CallKept'
<1>1. UNCHANGED <<link, sco_handle, codec, sink, source, asserted, call>>
  BY DEF callVars
<1>2. Typed' /\ OfThisCall' /\ NeverAsserts'
  BY <1>1 DEF CallKept, Typed, OfThisCall, NeverAsserts
<1>3. AudioFollowsCall'
  BY <1>1 DEF CallKept, AudioFollowsCall, Up
<1>4. CallKeepsSending'
  BY <1>1 DEF CallKeepsSending
<1> QED
  BY <1>2, <1>3, <1>4 DEF CallKept

(* A call has its codec.                                                   *)
LEMMA CallHasCodec == CallKept /\ sco_handle # NoLink => codec \in Codecs
  BY DEF CallKept, AudioFollowsCall, Typed, Up

LEMMA SendingKeepsCall ==
  ASSUME CallKept,
         TransportPacketSent \/ OtherPacketSent
           \/ \E l \in Links : NumberOfCompletedPackets(l)
  PROVE  CallKept'
<1>1. UNCHANGED <<callVars, rxVars>>
  BY DEF TransportPacketSent, OtherPacketSent, NumberOfCompletedPackets
<1>2. /\ {inPaused, outPaused, waiting, reserved} \subseteq BOOLEAN /\ outPaused' = outPaused
      /\ sco_handle # NoLink => /\ in \in Seq({call}) /\ out' \in Seq({call})
                                /\ codec \in Codecs /\ waiting
  BY <1>1, CallHasCodec DEF CallKept, Typed, OfThisCall, CallKeepsSending, rxVars
<1>3. ASSUME NEW r \in BOOLEAN, NEW count, NotifyNow(r, count) PROVE CallKept'
  <2>1. Notify(waiting, r, sco_handle, codec, in, inPaused, count, sent)
    BY <1>3 DEF NotifyNow
  <2>2. waiting \in BOOLEAN /\ inPaused \in BOOLEAN
    BY <1>2
  <2>3. /\ waiting' \in BOOLEAN /\ reserved' \in BOOLEAN /\ inPaused' \in BOOLEAN
        /\ sco_handle # NoLink => /\ in' \in Seq({call})
                                  /\ waiting' /\ (reserved' \/ ~ SlotFree(unacked'))
    <3> DEFINE S == {call}
    <3>1. sco_handle # NoLink => codec \in Codecs /\ in \in Seq(S) /\ waiting
      BY <1>2
    <3> HIDE DEF S
    <3>2. /\ waiting' \in BOOLEAN /\ reserved' \in BOOLEAN /\ inPaused' \in BOOLEAN
          /\ sco_handle # NoLink => /\ in' \in Seq(S)
                                    /\ waiting' /\ (reserved' \/ ~ SlotFree(unacked'))
      BY ONLY <1>3, <2>1, <2>2, <3>1, NotifyKeepsSending
    <3> QED
      BY <3>2 DEF S
  <2> QED
    <3>1. {inPaused', outPaused', waiting', reserved'} \subseteq BOOLEAN
      BY <1>2, <2>3
    <3> QED
      BY <1>1, <1>2, <2>3, <3>1, SameCallKept
<1>4. CASE OtherPacketSent
  <2>1. reserved' = TRUE /\ UNCHANGED <<in, inPaused, waiting>>
    BY <1>4 DEF OtherPacketSent
  <2> QED
    BY <1>1, <1>2, <2>1, SameCallKept
<1> QED
  BY <1>2, <1>3, <1>4 DEF TransportPacketSent, NumberOfCompletedPackets

LEMMA ReceivingKeepsCall ==
  ASSUME CallKept,
         SinkTimer \/ SourceTimer \/ \E l \in Links : ReceiveScoData(l)
  PROVE  CallKept'
<1>1. UNCHANGED <<callVars, inPaused, waiting, reserved, unacked>>
  BY DEF SinkTimer, SourceTimer, ReceiveScoData, txVars
<1>2. {inPaused, outPaused, waiting, reserved} \subseteq BOOLEAN
  BY DEF CallKept, Typed
<1>3. outPaused' \in BOOLEAN
  <2>1. outPaused' = outPaused \/ outPaused' = (Len(out) < DmaSize)
    BY DEF SinkTimer, SourceTimer, ReceiveScoData, PlaybackCallback, rxVars
  <2>2. (Len(out) < DmaSize) \in BOOLEAN
    OBVIOUS
  <2>3. outPaused \in BOOLEAN
    BY <1>2
  <2> QED
    BY <2>1, <2>2, <2>3, Zenon
<1>4. ASSUME sco_handle # NoLink
      PROVE  in' \in Seq({call}) /\ out' \in Seq({call})
  <2>1. in \in Seq({call}) /\ out \in Seq({call}) /\ codec \in Codecs
    BY <1>4, CallHasCodec DEF CallKept, OfThisCall
  <2>2. CASE SinkTimer
    <3>1. Min({DmaSize, Len(out)}) \in Nat
      <4>1. Len(out) \in Nat /\ DmaSize \in Nat
        BY <2>1, SizesAreNumbers
      <4> QED
        BY <4>1, SmallerOfTwo
    <3>2. Dropped(out, Min({DmaSize, Len(out)})) \in Seq({call})
      BY <2>1, <3>1, DroppedStays
    <3> QED
      BY <2>1, <2>2, <3>2 DEF SinkTimer, PlaybackCallback, rxVars, txVars
  <2>3. CASE SourceTimer
    <3>1. Written(in, DmaSize, InSize) \in Seq({call})
      BY <2>1, SizesAreNumbers, WrittenStays
    <3> QED
      BY <2>1, <2>3, <3>1 DEF SourceTimer, RecordingCallback, rxVars
  <2>4. CASE \E l \in Links : ReceiveScoData(l)
    <3>1. Written(out, PacketSize[codec], OutSize) \in Seq({call})
      BY <2>1, SizesAreNumbers, WrittenStays
    <3> QED
      BY <2>1, <2>4, <3>1 DEF ReceiveScoData, Received, txVars
  <2> QED
    BY <2>2, <2>3, <2>4
<1>5. sco_handle # NoLink => waiting' /\ (reserved' \/ ~ SlotFree(unacked'))
  BY <1>1 DEF CallKept, CallKeepsSending
<1> QED
  BY <1>1, <1>2, <1>3, <1>4, <1>5, SameCallKept

(* A call begins: with one link at a time there is none, so the demo has   *)
(* no codec, its drivers are stopped, and it starts anew.                  *)
LEMMA EstablishedKeepsCall ==
  ASSUME CallKept, MaxUp = 1, NEW l \in Links, AudioConnectionEstablished(l)
  PROVE  CallKept'
<1>1. Up = {}
  <2>1. IsFiniteSet(Up)
    BY ScoAudioAssumption, FS_Subset DEF Up
  <2>2. Cardinality(Up) \in Nat /\ Cardinality(Up) < 1
    BY <2>1, FS_CardinalityType DEF AudioConnectionEstablished
  <2>3. Cardinality(Up) = 0
    BY <2>2
  <2> QED
    BY <2>1, <2>3, FS_EmptySet
<1>2. sco_handle = NoLink /\ ~ sink /\ ~ source /\ codec = NoCodec
  BY <1>1 DEF CallKept, AudioFollowsCall
<1>3. PICK c \in Codecs :
        /\ link' = [link EXCEPT ![l] = c] /\ sco_handle' = l
        /\ SetCodec(l, c) /\ call' = call + 1
  BY DEF AudioConnectionEstablished
<1>4. /\ codec' = c /\ sink' = TRUE /\ source' = TRUE
      /\ out' = <<>> /\ outPaused' = TRUE /\ asserted' = FALSE
      /\ Notify(TRUE, reserved, l, c, <<>>, TRUE, unacked, "nothing")
  <2>1. c # codec
    BY <1>2, <1>3 DEF Codecs, CVSD, MSBC, NoCodec
  <2>2. codec' = c /\ InitializeAudio(l, c)
    BY <1>3, <2>1 DEF SetCodec
  <2> QED
    BY <1>2, <2>2 DEF InitializeAudio, StartSink, StartSource
<1>5. l # NoLink
  BY ScoAudioAssumption
<1>6. /\ waiting' \in BOOLEAN /\ reserved' \in BOOLEAN /\ inPaused' \in BOOLEAN
      /\ in' \in Seq({call'}) /\ waiting' /\ (reserved' \/ ~ SlotFree(unacked'))
  <2>1. reserved \in BOOLEAN /\ <<>> \in Seq({call'}) /\ TRUE \in BOOLEAN
    BY EmptySeq DEF CallKept, Typed
  <2>2. /\ waiting' \in BOOLEAN /\ reserved' \in BOOLEAN /\ inPaused' \in BOOLEAN
        /\ l # NoLink => /\ in' \in Seq({call'})
                         /\ waiting' /\ (reserved' \/ ~ SlotFree(unacked'))
    <3> DEFINE S == {call'}
    <3>1. <<>> \in Seq(S)
      BY <2>1
    <3> HIDE DEF S
    <3>2. /\ waiting' \in BOOLEAN /\ reserved' \in BOOLEAN /\ inPaused' \in BOOLEAN
          /\ l # NoLink => /\ in' \in Seq(S)
                           /\ waiting' /\ (reserved' \/ ~ SlotFree(unacked'))
      BY <1>3, <1>4, <2>1, <3>1, NotifyKeepsSending
    <3> QED
      BY <3>2 DEF S
  <2> QED
    BY <1>5, <2>2
<1>7. Typed' /\ OfThisCall' /\ NeverAsserts'
  BY <1>3, <1>4, <1>6 DEF CallKept, Typed, OfThisCall, NeverAsserts
<1>8. AudioFollowsCall'
  <2>1. Up' = {l} /\ link'[l] = c
    BY <1>1, <1>3 DEF Up, CallKept, Typed, Codecs, CVSD, MSBC, NoCodec
  <2> QED
    BY <1>3, <1>4, <1>5, <2>1 DEF AudioFollowsCall
<1>9. CallKeepsSending'
  BY <1>6 DEF CallKeepsSending
<1> QED
  BY <1>7, <1>8, <1>9 DEF CallKept

LEMMA ReleasedKeepsCall ==
  ASSUME CallKept, NEW l \in Links, AudioConnectionReleased(l)
  PROVE  CallKept'
<1>1. /\ l \in Up /\ link' = [link EXCEPT ![l] = NoCodec] /\ sco_handle' = NoLink
      /\ sink' = FALSE /\ source' = FALSE /\ codec' = NoCodec
      /\ UNCHANGED <<outPaused, inPaused, waiting, reserved, asserted, call>>
  BY DEF AudioConnectionReleased, DemoClose, StopSink, StopSource, rxVars
<1>2. Up = {l}
  BY <1>1 DEF CallKept, AudioFollowsCall
<1>3. Up' = {}
  BY <1>1, <1>2 DEF Up, CallKept, Typed
<1> QED
  BY <1>1, <1>3 DEF CallKept, Typed, OfThisCall, NeverAsserts, AudioFollowsCall,
                    CallKeepsSending

LEMMA KeptInductive == CallKept /\ MaxUp = 1 /\ [Next]_vars => CallKept'
<1> SUFFICES ASSUME CallKept, MaxUp = 1, [Next]_vars PROVE CallKept'
  OBVIOUS
<1>1. CASE UNCHANGED vars
  BY <1>1, SameCallKept DEF vars, callVars, CallKept, Typed, OfThisCall, CallKeepsSending
<1> QED
  BY <1>1, SendingKeepsCall, ReceivingKeepsCall, EstablishedKeepsCall,
     ReleasedKeepsCall
  DEF Next

(* The drivers run exactly during a call, with the codec of its link       *)
(* (sco_demo_set_codec, sco_demo_close in sco_demo_util.c).                *)
THEOREM DriversFollowCall == ASSUME MaxUp = 1 PROVE Spec => []AudioFollowsCall
<1>1. CallKept => AudioFollowsCall
  BY DEF CallKept
<1>2. CallKept /\ [Next]_vars => CallKept'
  BY KeptInductive
<1> QED
  BY <1>1, <1>2, KeptInitially, PTL DEF Spec

(* Nothing of one call is heard in the next (audio_initialize).            *)
THEOREM CallsDoNotMix == ASSUME MaxUp = 1 PROVE Spec => []AudioOfThisCallOnly
<1>1. CallKept => AudioOfThisCallOnly
  BY DEF CallKept, OfThisCall, AudioOfThisCallOnly, ToSet
<1>2. CallKept /\ [Next]_vars => CallKept'
  BY KeptInductive
<1> QED
  BY <1>1, <1>2, KeptInitially, PTL DEF Spec

(* A call never forgets to ask for the next packet                         *)
(* (sco_demo_send, hci_notify_if_sco_can_send_now).                        *)
THEOREM CallGoesOnSending == ASSUME MaxUp = 1 PROVE Spec => []CallKeepsSending
<1>1. CallKept => CallKeepsSending
  BY DEF CallKept
<1>2. CallKept /\ [Next]_vars => CallKept'
  BY KeptInductive
<1> QED
  BY <1>1, <1>2, KeptInitially, PTL DEF Spec

(* No driver's timer is started twice: the assertion of                    *)
(* btstack_run_loop_base_add_timer that ScoSecondCall.cfg sees fail needs  *)
(* two links.                                                              *)
THEOREM OneCallNeverAsserts == ASSUME MaxUp = 1 PROVE Spec => []NeverAsserts
<1>1. CallKept => NeverAsserts
  BY DEF CallKept
<1>2. CallKept /\ [Next]_vars => CallKept'
  BY KeptInductive
<1> QED
  BY <1>1, <1>2, KeptInitially, PTL DEF Spec

(* Playback goes on after an underrun when the prebuffer of the call's     *)
(* codec is filled again, and not before (playback_callback).              *)
THEOREM PlaybackIsBuffered == ASSUME MaxUp = 1 PROVE Spec => PlaybackResumesBuffered
<1>1. CallKept /\ [Next]_vars =>
        [outPaused /\ ~ outPaused' => Len(out) >= Prebuffer[link[sco_handle]]]_vars
  <2> SUFFICES ASSUME CallKept, Next, outPaused, ~ outPaused'
               PROVE  Len(out) >= Prebuffer[link[sco_handle]]
    OBVIOUS
  <2>1. SinkTimer
    BY DEF Next, TransportPacketSent, OtherPacketSent, SourceTimer,
           NumberOfCompletedPackets, ReceiveScoData, AudioConnectionEstablished,
           AudioConnectionReleased, SetCodec, InitializeAudio, rxVars
  <2>2. sco_handle # NoLink /\ codec = link[sco_handle]
    BY <2>1 DEF SinkTimer, CallKept, AudioFollowsCall
  <2>3. codec \in Codecs /\ out \in Seq({call})
    BY <2>2, CallHasCodec DEF CallKept, OfThisCall
  <2>4. ~ Len(out) < Prebuffer[codec]
    BY <2>1, <2>3
    DEF SinkTimer, PlaybackCallback, PlaybackPrebuffer, rxVars, Codecs
  <2>5. Len(out) \in Nat /\ Prebuffer[codec] \in Nat
    BY <2>3, ScoAudioAssumption
  <2> QED
    BY <2>2, <2>4, <2>5
<1>2. CallKept /\ [Next]_vars => CallKept'
  BY KeptInductive
<1> QED
  BY <1>1, <1>2, KeptInitially, PTL DEF Spec, PlaybackResumesBuffered

=============================================================================
