------------------------------- MODULE ScoAudio -------------------------------
(***************************************************************************)
(* The audio path of the microphone: the demo's packet handler             *)
(* (example/PandaMicTx/esp32-hsp-hf/hfp_hf_demo.c), its SCO buffers        *)
(* (sco_demo_util.c), the I2S drivers (microphone.c, speaker.c) and the    *)
(* part of lib/BTstack/src/hci.c that lets one SCO packet at a time        *)
(* through.  All of it runs on the run loop task, one event after the      *)
(* other.                                                                  *)
(*                                                                         *)
(* Audio is a sequence of equal pieces, each named by the call it was      *)
(* recorded in.  Sizes are counted in pieces.  One packet of mSBC takes    *)
(* the one frame that was encoded for it, so the encoder is empty between  *)
(* packets and is not a variable.                                          *)
(***************************************************************************)
EXTENDS Integers, SequencesExt, FiniteSetsExt

CONSTANTS
  Links,         \* audio gateways that open SCO links
  NoLink,        \* HCI_CON_HANDLE_INVALID
  ScoOverHci,    \* ENABLE_SCO_OVER_HCI
  ScoTotal,      \* sco_packets_total_num: packets the controller buffers
  Prebuffer,     \* CVSD_ and MSBC_PA_PREBUFFER_BYTES
  PacketSize,    \* audio of a packet (CVSD) or of a frame (mSBC)
  DmaSize,       \* DMA_BUFFER_SAMPLES
  InSize,        \* audio_input_ring_buffer_storage
  MaxUp,         \* links that are up at the same time
  MaxCalls       \* bound: SCO links established in a run

CVSD == 1
MSBC == 2
Codecs == {CVSD, MSBC}
NoCodec == -1
NoCall == 0

OutSize == 2 * Prebuffer[MSBC]

ASSUME ScoAudioAssumption ==
  /\ IsFiniteSet(Links) /\ NoLink \notin Links
  /\ ScoOverHci \in BOOLEAN
  /\ {ScoTotal, DmaSize, InSize, MaxUp, MaxCalls} \subseteq Nat \ {0}
  /\ Prebuffer \in [Codecs -> Nat] /\ PacketSize \in [Codecs -> Nat \ {0}]
  /\ \A c \in Codecs : Prebuffer[c] <= InSize /\ PacketSize[c] <= Prebuffer[c]

VARIABLES
  link,       \* codec of each SCO link that is up, NoCodec otherwise
  sco_handle, \* the link the demo uses
  codec,      \* negotiated_codec of sco_demo_util.c
  out, outPaused,   \* audio_output_ring_buffer, audio_output_paused
  in, inPaused,     \* audio_input_ring_buffer, audio_input_paused
  sink, source,     \* whether the drivers stream and their timers are registered
  waiting,    \* sco_waiting_for_can_send_now
  reserved,   \* hci_packet_buffer_reserved
  unacked,    \* num_packets_sent of each SCO link
  asserted,   \* an assertion failed: the firmware stops
  call,       \* number of the call the demo is in
  sent        \* what the last packet of this call held

vars == <<link, sco_handle, codec, out, outPaused, in, inPaused, sink, source,
          waiting, reserved, unacked, asserted, call, sent>>

txVars  == <<in, inPaused, waiting, reserved, unacked, sent>>
rxVars  == <<out, outPaused>>
callVars == <<link, sco_handle, codec, sink, source, asserted, call>>

Init ==
  /\ link = [l \in Links |-> NoCodec]
  /\ sco_handle = NoLink /\ codec = NoCodec
  /\ out = <<>> /\ outPaused = FALSE
  /\ in = <<>> /\ inPaused = FALSE
  /\ sink = FALSE /\ source = FALSE
  /\ waiting = FALSE /\ reserved = FALSE
  /\ unacked = [l \in Links |-> 0]
  /\ asserted = FALSE /\ call = NoCall /\ sent = "nothing"

Up == {l \in Links : link[l] # NoCodec}

(* btstack_ring_buffer_write: a block that does not fit is dropped whole. *)
Written(ring, n, size) ==
  IF Len(ring) + n <= size THEN ring \o [i \in 1 .. n |-> call] ELSE ring

Dropped(ring, n) == SubSeq(ring, n + 1, Len(ring))

-----------------------------------------------------------------------------
(* Sending (hci.c, sco_demo_send). *)

(* hci_number_free_sco_slots.  Without SCO over HCI flow control is never  *)
(* switched on and nothing ever makes a connection ready to send.          *)
SlotFree(count) ==
  ScoOverHci /\ MapThenSumSet(LAMBDA l : count[l], Links) < ScoTotal

(* Sending stays paused until enough was recorded. *)
StaysPaused(c, ring, paused) == paused /\ Len(ring) < Prebuffer[c]

(* Audio a packet takes: mSBC a whole frame or nothing, CVSD what there is. *)
Taken(c, ring, paused) ==
  IF StaysPaused(c, ring, paused) THEN 0
  ELSE IF c = MSBC THEN IF Len(ring) >= PacketSize[c] THEN PacketSize[c] ELSE 0
  ELSE Min({PacketSize[c], Len(ring)})

(* sco_demo_send: a packet for link l is filled with recorded audio or     *)
(* with silence, handed to the controller, and the next event requested.   *)
DemoSend_OneShot(l, c, ring, paused, count) ==
  LET n == Taken(c, ring, paused)
  IN  /\ in' = Dropped(ring, n)
      /\ inPaused' = (n < PacketSize[c])
      /\ sent' = IF n > 0 THEN "audio" ELSE "silence"
      /\ reserved' = TRUE
      /\ unacked' = [count EXCEPT ![l] = @ + 1]
      /\ waiting' = FALSE
DemoSend_BufferNotReserved(l, c, ring, paused, count) ==
  LET n == Taken(c, ring, paused)
  IN  /\ in' = Dropped(ring, n)
      /\ inPaused' = (n < PacketSize[c])
      /\ sent' = IF n > 0 THEN "audio" ELSE "silence"
      /\ reserved' = FALSE
      /\ unacked' = [count EXCEPT ![l] = @ + 1]
      /\ waiting' = TRUE
DemoSend(l, c, ring, paused, count) ==
  LET n == Taken(c, ring, paused)
  IN  /\ in' = Dropped(ring, n)
      /\ inPaused' = (n < PacketSize[c])
      /\ sent' = IF n > 0 THEN "audio" ELSE "silence"
      /\ reserved' = TRUE
      /\ unacked' = [count EXCEPT ![l] = @ + 1]
      /\ waiting' = TRUE

(* hci_notify_if_sco_can_send_now, and the demo's answer to the event.     *)
(* Without a link the demo ignores the event and asks for no other.        *)
Notify(isWaiting, isReserved, l, c, ring, paused, count, before) ==
  IF isWaiting /\ ~ isReserved /\ SlotFree(count) /\ l # NoLink
    THEN DemoSend(l, c, ring, paused, count)
    ELSE /\ in' = ring /\ inPaused' = paused /\ sent' = before
         /\ reserved' = isReserved /\ unacked' = count
         /\ waiting' = (isWaiting /\ (isReserved \/ ~ SlotFree(count)))

NotifyNow(isReserved, count) ==
  Notify(waiting, isReserved, sco_handle, codec, in, inPaused, count, sent)

(* HCI_EVENT_TRANSPORT_PACKET_SENT: the controller took the packet. *)
TransportPacketSent ==
  /\ ~ asserted
  /\ reserved
  /\ NotifyNow(FALSE, unacked)
  /\ UNCHANGED <<callVars, rxVars>>

(* HCI_EVENT_NUMBER_OF_COMPLETED_PACKETS for a SCO link. *)
NumberOfCompletedPackets(l) ==
  /\ ~ asserted
  /\ unacked[l] > 0
  /\ NotifyNow(reserved, [unacked EXCEPT ![l] = @ - 1])
  /\ UNCHANGED <<callVars, rxVars>>

(* A command or an ACL packet is sent from the same buffer. *)
OtherPacketSent ==
  /\ ~ asserted
  /\ ~ reserved
  /\ reserved' = TRUE
  /\ UNCHANGED <<callVars, rxVars, in, inPaused, waiting, unacked, sent>>

-----------------------------------------------------------------------------
(* Receiving and the drivers. *)

(* sco_demo_receive, the decoders and handle_pcm_data. *)
Received(c, ring) == Written(ring, PacketSize[c], OutSize)

(* HCI_SCO_DATA_PACKET: packets of other links are ignored; the decoded    *)
(* audio is buffered, or dropped when it does not fit.                     *)
ReceiveScoData(l) ==
  /\ ~ asserted
  /\ l \in Up
  /\ l = sco_handle
  /\ codec \in Codecs
  /\ out' = Received(codec, out)
  /\ UNCHANGED <<callVars, txVars, outPaused>>

PlaybackPrebuffer_Cvsd == Prebuffer[CVSD]
PlaybackPrebuffer ==
  IF codec = MSBC THEN Prebuffer[MSBC] ELSE Prebuffer[CVSD]

(* playback_callback: silence while paused, else what there is; too little *)
(* pauses again.                                                           *)
PlaybackCallback ==
  IF outPaused /\ Len(out) < PlaybackPrebuffer
    THEN UNCHANGED rxVars
    ELSE /\ out' = Dropped(out, Min({DmaSize, Len(out)}))
         /\ outPaused' = (Len(out) < DmaSize)

(* driver_timer_handler of the speaker: fills a buffer, starts again. *)
SinkTimer ==
  /\ ~ asserted
  /\ sink
  /\ PlaybackCallback
  /\ UNCHANGED <<callVars, txVars>>

RecordingCallback == in' = Written(in, DmaSize, InSize)

(* driver_timer_handler_source: copies a buffer, starts again. *)
SourceTimer ==
  /\ ~ asserted
  /\ source
  /\ RecordingCallback
  /\ UNCHANGED <<callVars, rxVars, inPaused, waiting, reserved, unacked, sent>>

(* start_stream adds the driver's timer, close removes it. *)
StartSink == ~ sink /\ sink' = TRUE
StartSource == ~ source /\ source' = TRUE
StopSink == sink' = FALSE
StopSource == source' = FALSE

-----------------------------------------------------------------------------
(* HFP events. *)

(* audio_initialize: empty buffers, both drivers started.  Starting a      *)
(* driver whose timer is registered fails the assertion of                 *)
(* btstack_run_loop_base_add_timer.                                        *)
InitializeAudio_KeepsBuffers(l, c) ==
  \/ /\ StartSink /\ StartSource
     /\ UNCHANGED out /\ outPaused' = TRUE
     /\ asserted' = FALSE
     /\ Notify(TRUE, reserved, l, c, in, TRUE, unacked, "nothing")
  \/ /\ sink \/ source
     /\ asserted' = TRUE
     /\ UNCHANGED <<rxVars, txVars, sink, source>>
InitializeAudio(l, c) ==
  \/ /\ StartSink /\ StartSource
     /\ out' = <<>> /\ outPaused' = TRUE
     /\ asserted' = FALSE
     /\ Notify(TRUE, reserved, l, c, <<>>, TRUE, unacked, "nothing")
  \/ /\ sink \/ source
     /\ asserted' = TRUE
     /\ UNCHANGED <<rxVars, txVars, sink, source>>

(* sco_demo_set_codec: nothing for the codec in use.  Both ways end in the *)
(* handler's request to send for link l.                                   *)
SetCodec(l, c) ==
  /\ codec' = c
  /\ \/ /\ c = codec
        /\ Notify(TRUE, reserved, l, c, in, inPaused, unacked, "nothing")
        /\ UNCHANGED <<rxVars, sink, source, asserted>>
     \/ /\ c # codec
        /\ InitializeAudio(l, c)

(* HFP_SUBEVENT_AUDIO_CONNECTION_ESTABLISHED with status 0. *)
AudioConnectionEstablished(l) ==
  /\ ~ asserted
  /\ l \notin Up /\ Cardinality(Up) < MaxUp
  /\ call < MaxCalls
  /\ call' = call + 1
  /\ \E c \in Codecs :
       /\ link' = [link EXCEPT ![l] = c]
       /\ sco_handle' = l
       /\ SetCodec(l, c)

(* sco_demo_close. *)
DemoClose_KeepsCodec == StopSink /\ StopSource /\ codec' = codec
DemoClose == StopSink /\ StopSource /\ codec' = NoCodec

(* HFP_SUBEVENT_AUDIO_CONNECTION_RELEASED, whichever link it is about. *)
AudioConnectionReleased(l) ==
  /\ ~ asserted
  /\ l \in Up
  /\ link' = [link EXCEPT ![l] = NoCodec]
  /\ unacked' = [unacked EXCEPT ![l] = 0]
  /\ sco_handle' = NoLink
  /\ DemoClose
  /\ UNCHANGED <<rxVars, in, inPaused, waiting, reserved, sent, asserted, call>>

-----------------------------------------------------------------------------
Next ==
  \/ TransportPacketSent \/ OtherPacketSent
  \/ SinkTimer \/ SourceTimer
  \/ \E l \in Links :
       \/ NumberOfCompletedPackets(l) \/ ReceiveScoData(l)
       \/ AudioConnectionEstablished(l) \/ AudioConnectionReleased(l)

Spec == Init /\ [][Next]_vars

(* The timer of the microphone fires, and the controller signals that it   *)
(* took a packet and that it sent one.  No call has to come or to end.     *)
Fairness ==
  /\ WF_vars(SourceTimer)
  /\ WF_vars(TransportPacketSent)
  /\ \A l \in Links : WF_vars(NumberOfCompletedPackets(l))

FairSpec == Spec /\ Fairness

-----------------------------------------------------------------------------
TypeOK ==
  /\ link \in [Links -> Codecs \cup {NoCodec}]
  /\ sco_handle \in Links \cup {NoLink}
  /\ codec \in Codecs \cup {NoCodec}
  /\ out \in Seq(0 .. MaxCalls) /\ Len(out) <= OutSize
  /\ in \in Seq(0 .. MaxCalls) /\ Len(in) <= InSize
  /\ {outPaused, inPaused, sink, source, waiting, reserved, asserted} \subseteq BOOLEAN
  /\ unacked \in [Links -> 0 .. ScoTotal]
  /\ call \in 0 .. MaxCalls
  /\ sent \in {"nothing", "silence", "audio"}

(* While calls do not overlap, the drivers run exactly during a call and   *)
(* the buffers use the codec of its link (sco_demo_set_codec,              *)
(* sco_demo_close, the packet handler).                                    *)
AudioFollowsCall ==
  IF sco_handle = NoLink
    THEN Up = {} /\ ~ sink /\ ~ source /\ codec = NoCodec
    ELSE Up = {sco_handle} /\ sink /\ source /\ codec = link[sco_handle]

(* Nothing recorded or received in one call is left to be sent or played   *)
(* in the next (audio_initialize, the check of the handle).                *)
AudioOfThisCallOnly ==
  sco_handle # NoLink => ToSet(out) \cup ToSet(in) \subseteq {call}

(* During a call the demo always waits for the next chance to send, and    *)
(* with no packet under way the only reason to wait is the controller      *)
(* (sco_demo_send, hci_notify_if_sco_can_send_now).                        *)
CallKeepsSending ==
  sco_handle # NoLink => waiting /\ (reserved \/ ~ SlotFree(unacked))

(* The controller is never given more SCO packets than it buffers, nor a   *)
(* packet while the shared buffer is in use (hci_number_free_sco_slots).   *)
ControllerNotOverrun ==
  [][unacked' # unacked =>
       /\ MapThenSumSet(LAMBDA l : unacked'[l], Links) <= ScoTotal
       /\ (\E l \in Links : unacked'[l] > unacked[l]) => reserved']_vars

(* After an underrun playback only goes on when the prebuffer of the       *)
(* call's codec is filled again (playback_callback).                       *)
PlaybackResumesBuffered ==
  [][outPaused /\ ~ outPaused' => Len(out) >= Prebuffer[link[sco_handle]]]_vars

(* No assertion fails: the drivers' timers are never added while they are  *)
(* registered (btstack_run_loop_base_add_timer).                           *)
NeverAsserts == ~ asserted

(* During every call recorded audio is sent in the end ("Sending and       *)
(* receiving audio via btstack_audio").                                    *)
SpeechIsSent ==
  \A l \in Links : sco_handle = l ~> sent = "audio" \/ sco_handle # l
=============================================================================
