------------------------------ MODULE HfpContext ------------------------------
(***************************************************************************)
(* What lib/BTstack/src/classic/hfp_hf.c and hfp.c do with the context of  *)
(* a connection to an audio gateway, as operators.  A handler takes and    *)
(* returns an outcome: the context, the AT commands it sent, the events it *)
(* emitted (what the application knows after them) and what it asked of    *)
(* RFCOMM and of the controller.                                           *)
(*                                                                         *)
(* States have their names in hfp.h without HFP_, flags the names of their *)
(* fields.  Of the commands an application can ask for there is one of     *)
(* each kind: hf_send_chup stands for those that wait for their answer,    *)
(* hf_send_cnum for those that do not (with hf_send_rrh), the status       *)
(* update for the queries whose flag is cleared by the answer.             *)
(***************************************************************************)
EXTENDS Integers, Sequences, FiniteSetsExt

CONSTANTS
  HfCodecs,      \* hfp_hf_codecs
  EscoUsable     \* both controllers support eSCO

NoCodec == 0
CVSD == 1
MSBC == 2

(* Features of both sides that the profile asks for: codec negotiation,    *)
(* three-way calling, HF indicators and eSCO S4.                           *)
FeatureNames == {"codec", "threeway", "indicators", "s4"}

ASSUME HfpContextAssumption ==
  /\ HfCodecs \subseteq {CVSD, MSBC}
  /\ EscoUsable \in BOOLEAN

SLC   == "SERVICE_LEVEL_CONNECTION_ESTABLISHED"
AUDIO == "AUDIO_CONNECTION_ESTABLISHED"

(* The commands that set up the service level connection. *)
SlcCommand ==
  [EXCHANGE_SUPPORTED_FEATURES |-> "BRSF",
   NOTIFY_ON_CODECS |-> "BAC",
   RETRIEVE_INDICATORS |-> "CIND=?",
   RETRIEVE_INDICATORS_STATUS |-> "CIND?",
   ENABLE_INDICATORS_STATUS_UPDATE |-> "CMER",
   RETRIEVE_CAN_HOLD_CALL |-> "CHLD",
   LIST_GENERIC_STATUS_INDICATORS |-> "BIND",
   RETRIEVE_GENERIC_STATUS_INDICATORS |-> "BIND=?",
   RETRIEVE_INITITAL_STATE_GENERIC_STATUS_INDICATORS |-> "BIND?"]

SlcWait ==
  [EXCHANGE_SUPPORTED_FEATURES |-> "W4_EXCHANGE_SUPPORTED_FEATURES",
   NOTIFY_ON_CODECS |-> "W4_NOTIFY_ON_CODECS",
   RETRIEVE_INDICATORS |-> "W4_RETRIEVE_INDICATORS",
   RETRIEVE_INDICATORS_STATUS |-> "W4_RETRIEVE_INDICATORS_STATUS",
   ENABLE_INDICATORS_STATUS_UPDATE |-> "W4_ENABLE_INDICATORS_STATUS_UPDATE",
   RETRIEVE_CAN_HOLD_CALL |-> "W4_RETRIEVE_CAN_HOLD_CALL",
   LIST_GENERIC_STATUS_INDICATORS |-> "W4_LIST_GENERIC_STATUS_INDICATORS",
   RETRIEVE_GENERIC_STATUS_INDICATORS |->
     "W4_RETRIEVE_GENERIC_STATUS_INDICATORS",
   RETRIEVE_INITITAL_STATE_GENERIC_STATUS_INDICATORS |->
     "W4_RETRIEVE_INITITAL_STATE_GENERIC_STATUS_INDICATORS"]

(* Intervals of hfp_state_t that the code tests with < and <=.             *)
Searching  == {"IDLE", "W2_SEND_SDP_QUERY", "W4_SDP_QUERY_COMPLETE"}
ToSend     == DOMAIN SlcCommand
ToBeAnswered == {SlcWait[s] : s \in ToSend}
SettingUp  == ToSend \cup ToBeAnswered
BelowSlc   == Searching \cup {"W4_RFCOMM_CONNECTED"} \cup SettingUp
FromDisconnectSco ==
  {"W2_DISCONNECT_SCO", "W4_SCO_DISCONNECTED",
   "W4_SCO_DISCONNECTED_TO_SHUTDOWN", "W2_DISCONNECT_RFCOMM",
   "W4_RFCOMM_DISCONNECTED", "W4_CONNECTION_ESTABLISHED_TO_SHUTDOWN"}
States == BelowSlc \cup {SLC, "W4_SCO_CONNECTED", AUDIO} \cup FromDisconnectSco

CodecsStates ==
  {"IDLE", "RECEIVED_TRIGGER_CODEC_EXCHANGE", "W4_AG_COMMON_CODEC",
   "HF_CONFIRMED_CODEC", "EXCHANGED"}

Flags ==
  {"trigger_codec_exchange", "hf_send_codec_confirm",
   "hf_send_supported_codecs", "establish_audio_connection",
   "release_audio_connection", "release_slc_connection", "accept_sco",
   "enable_status_update", "hf_answer_incoming_call",
   "send_microphone_gain", "send_speaker_gain", "hf_send_chup",
   "hf_send_cnum"}

(* hfp_link_settings_t: D0, D1, S1 to S4, T1, T2; the last two are mSBC,   *)
(* all but the first two need eSCO.  NoSetting is one past the table.      *)
LinkSettings == 0 .. 7
D1 == 1
NoSetting == 8

NextLinkSetting(current, codec, s4) ==
  LET fits(s) == /\ s < current
                 /\ s > D1 => EscoUsable
                 /\ s = 5 => s4
                 /\ codec = (IF s >= 6 THEN MSBC ELSE CVSD)
      fitting == {s \in LinkSettings : fits(s)}
  IN  IF fitting = {} THEN NoSetting ELSE Max(fitting)

Context ==
  [state : States \cup {"NONE"}, acl : BOOLEAN, cid : BOOLEAN, sco : BOOLEAN,
   features : SUBSET FeatureNames,
   ok_pending : BOOLEAN, codecs_state : CodecsStates,
   negotiated_codec : {NoCodec, CVSD, MSBC},
   codec_confirmed : {NoCodec, CVSD, MSBC},
   link_setting : LinkSettings \cup {NoSetting}, flags : SUBSET Flags]

NewContext ==
  [state |-> "IDLE", acl |-> FALSE, cid |-> FALSE, sco |-> FALSE,
   features |-> {}, ok_pending |-> FALSE, codecs_state |-> "IDLE",
   negotiated_codec |-> NoCodec, codec_confirmed |-> NoCodec,
   link_setting |-> 0, flags |-> {}]

NoContext == [NewContext EXCEPT !.state = "NONE"]

-----------------------------------------------------------------------------
(* Outcomes.  The application keeps from the events whether it is told of  *)
(* a service level connection and with which codec of an audio connection. *)

NoAudio == -1
NotConnected == [slc |-> FALSE, audio |-> NoAudio]

Outcome(c, app) == [c |-> c, app |-> app, cmds |-> <<>>, asks |-> {}]

Send(e, command, codec) == [e EXCEPT !.cmds = Append(@, <<command, codec>>)]
Ask(e, what) == [e EXCEPT !.asks = @ \cup {what}]

InState(e, s) == [e EXCEPT !.c.state = s]
Raise(e, fs) == [e EXCEPT !.c.flags = @ \cup fs]
Lower(e, fs) == [e EXCEPT !.c.flags = @ \ fs]
Raised(e, f) == f \in e.c.flags

(* Send a command and wait for its answer. *)
SendAndWait(e, command, codec) ==
  [Send(e, command, codec) EXCEPT !.c.ok_pending = TRUE]

ResetContextFlags_KeepsCodec(e) ==
  [Lower(e, {"establish_audio_connection", "enable_status_update"})
     EXCEPT !.c.ok_pending = FALSE]

ResetContextFlags(e) ==
  [Lower(e, {"establish_audio_connection", "enable_status_update"})
     EXCEPT !.c.ok_pending = FALSE, !.c.negotiated_codec = NoCodec,
            !.c.codec_confirmed = NoCodec]

Finalize(e) == [e EXCEPT !.c = NoContext]

-----------------------------------------------------------------------------
(* Events of RFCOMM and of the controller (hfp.c). *)

(* SERVICE_LEVEL_CONNECTION_ESTABLISHED with an error. *)
HandleSlcSetupError(e) == [Finalize(e) EXCEPT !.app.slc = FALSE]

ChannelOpened(e) ==
  [InState(e, "EXCHANGE_SUPPORTED_FEATURES")
     EXCEPT !.c.acl = TRUE, !.c.cid = TRUE]

(* Without a service level connection there is no audio: the context stays *)
(* until the audio link is down.                                           *)
ChannelClosed(e) ==
  IF e.c.state = AUDIO
    THEN Ask([Lower(InState(e, "W4_SCO_DISCONNECTED_TO_SHUTDOWN"),
                    {"release_audio_connection"}) EXCEPT !.c.acl = FALSE],
             "disconnect sco")
    ELSE [Finalize(e) EXCEPT !.app.slc = FALSE]

(* The link of the context is down.  The call of rfcomm_disconnect with    *)
(* the handle of the ACL connection (hfp.c:970) finds no channel of that   *)
(* number and does nothing: the channel is closed by the next run.         *)
ScoDisconnected_KeepsHandle(e) ==
  LET down == [Lower(InState(e, SLC), {"release_audio_connection"})
                 EXCEPT !.app.audio = NoAudio]
  IN  IF ~ e.c.acl THEN [Finalize(down) EXCEPT !.app.slc = FALSE]
      ELSE IF Raised(e, "release_slc_connection")
        THEN Lower(InState(down, "W2_DISCONNECT_RFCOMM"),
                   {"release_slc_connection"})
      ELSE down

ScoDisconnected(e) ==
  LET down == [Lower(InState(e, SLC), {"release_audio_connection"})
                 EXCEPT !.c.sco = FALSE, !.app.audio = NoAudio]
  IN  IF ~ e.c.acl THEN [Finalize(down) EXCEPT !.app.slc = FALSE]
      ELSE IF Raised(e, "release_slc_connection")
        THEN Lower(InState(down, "W2_DISCONNECT_RFCOMM"),
                   {"release_slc_connection"})
      ELSE down

SyncConnected(e) ==
  IF e.c.state = "W4_CONNECTION_ESTABLISHED_TO_SHUTDOWN"
    THEN InState(e, "W2_DISCONNECT_SCO")
    ELSE [Lower(InState(e, AUDIO), {"establish_audio_connection"})
            EXCEPT !.c.sco = TRUE, !.app.audio = e.c.negotiated_codec]

(* Another try with the next link setting, or with CVSD. *)
NextSetting(e) ==
  NextLinkSetting(e.c.link_setting, e.c.negotiated_codec, FALSE)
CanRetry(e) ==
  NextSetting(e) # NoSetting \/ e.c.negotiated_codec = MSBC
TryNextSetting(e) ==
  [Raise(e, {"establish_audio_connection"})
     EXCEPT !.c.link_setting = NextSetting(e),
            !.c.negotiated_codec =
              IF NextSetting(e) = NoSetting THEN CVSD ELSE @]

AudioFailed(e) == Lower(InState(e, SLC), {"establish_audio_connection"})

-----------------------------------------------------------------------------
(* Answers and lines of the gateway (hfp_hf.c). *)

SlcEstablished(e) ==
  [Raise(InState(e, SLC), {"send_speaker_gain", "send_microphone_gain"})
     EXCEPT !.app.slc = TRUE]

AfterAnswer_AsksAgain(state, features) ==
  CASE state = "W4_EXCHANGE_SUPPORTED_FEATURES" -> "RETRIEVE_INDICATORS"
    [] state = "W4_RETRIEVE_INDICATORS" -> "RETRIEVE_INDICATORS_STATUS"
    [] state = "W4_RETRIEVE_INDICATORS_STATUS" -> "RETRIEVE_INDICATORS"
    [] OTHER -> SLC

AfterAnswer(state, features) ==
  LET indicators == IF "indicators" \in features
                      THEN "LIST_GENERIC_STATUS_INDICATORS" ELSE SLC
  IN  CASE state = "W4_EXCHANGE_SUPPORTED_FEATURES" ->
             IF "codec" \in features THEN "NOTIFY_ON_CODECS"
                                     ELSE "RETRIEVE_INDICATORS"
        [] state = "W4_NOTIFY_ON_CODECS" -> "RETRIEVE_INDICATORS"
        [] state = "W4_RETRIEVE_INDICATORS" -> "RETRIEVE_INDICATORS_STATUS"
        [] state = "W4_RETRIEVE_INDICATORS_STATUS" ->
             "ENABLE_INDICATORS_STATUS_UPDATE"
        [] state = "W4_ENABLE_INDICATORS_STATUS_UPDATE" ->
             IF "threeway" \in features THEN "RETRIEVE_CAN_HOLD_CALL"
                                        ELSE indicators
        [] state = "W4_RETRIEVE_CAN_HOLD_CALL" -> indicators
        [] state = "W4_LIST_GENERIC_STATUS_INDICATORS" ->
             "RETRIEVE_GENERIC_STATUS_INDICATORS"
        [] state = "W4_RETRIEVE_GENERIC_STATUS_INDICATORS" ->
             "RETRIEVE_INITITAL_STATE_GENERIC_STATUS_INDICATORS"
        [] OTHER -> SLC

(* At the service level the answer goes to the query whose flag is up, and *)
(* else to the codec exchange, whichever command it was given to.          *)
AnswerAtSlc(e) ==
  IF Raised(e, "enable_status_update") THEN Lower(e, {"enable_status_update"})
  ELSE IF e.c.codecs_state = "RECEIVED_TRIGGER_CODEC_EXCHANGE"
    THEN [e EXCEPT !.c.codecs_state = "W4_AG_COMMON_CODEC"]
  ELSE IF e.c.codecs_state = "HF_CONFIRMED_CODEC"
    THEN [e EXCEPT !.c.codecs_state = "EXCHANGED"]
  ELSE e

SwitchOnOkPending_NotDuringAudio(e) ==
  LET answered == [e EXCEPT !.c.ok_pending = FALSE]
      next == AfterAnswer(e.c.state, e.c.features)
  IN  IF e.c.state \in ToBeAnswered
        THEN IF next = SLC THEN SlcEstablished(answered)
                           ELSE InState(answered, next)
      ELSE IF e.c.state = SLC THEN AnswerAtSlc(answered)
      ELSE e

SwitchOnOkPending(e) ==
  LET answered == [e EXCEPT !.c.ok_pending = FALSE]
      next == AfterAnswer(e.c.state, e.c.features)
  IN  IF e.c.state \in ToBeAnswered
        THEN IF next = SLC THEN SlcEstablished(answered)
                           ELSE InState(answered, next)
      ELSE IF e.c.state = SLC THEN AnswerAtSlc(answered)
      ELSE answered

HandleError(e) ==
  IF e.c.state = SLC /\ e.c.codecs_state = "RECEIVED_TRIGGER_CODEC_EXCHANGE"
    THEN ResetContextFlags(e)
    ELSE ResetContextFlags(SwitchOnOkPending(e))

HandleSuggestedCodec_IfNew(e, codec) ==
  [Raise(e, IF codec = e.c.negotiated_codec THEN {} ELSE {"hf_send_codec_confirm"})
     EXCEPT !.c.negotiated_codec = codec, !.c.codec_confirmed = codec,
            !.c.codecs_state = "HF_CONFIRMED_CODEC"]

HandleSuggestedCodec(e, codec) ==
  IF codec \in HfCodecs
    THEN [Raise(e, {"hf_send_codec_confirm"})
            EXCEPT !.c.negotiated_codec = codec, !.c.codec_confirmed = codec,
                   !.c.codecs_state = "HF_CONFIRMED_CODEC"]
    ELSE [Raise(e, {"hf_send_supported_codecs"})
            EXCEPT !.c.negotiated_codec = NoCodec,
                   !.c.codec_confirmed = NoCodec,
                   !.c.codecs_state = "W4_AG_COMMON_CODEC"]

-----------------------------------------------------------------------------
(* Calls of the application. *)

MayEstablishAudio(c) == c.state \notin {AUDIO} \cup FromDisconnectSco

EstablishAudio(e) ==
  IF "codec" \in e.c.features
    THEN CASE e.c.codecs_state = "W4_AG_COMMON_CODEC" -> e
           [] e.c.codecs_state = "EXCHANGED" ->
                Raise(e, {"trigger_codec_exchange"})
           [] OTHER ->
                [Raise(e, {"trigger_codec_exchange"})
                   EXCEPT !.c.codec_confirmed = NoCodec,
                          !.c.negotiated_codec = NoCodec,
                          !.c.codecs_state = "RECEIVED_TRIGGER_CODEC_EXCHANGE"]
    ELSE [Raise(InState(e, "W4_SCO_CONNECTED"), {"establish_audio_connection"})
            EXCEPT !.c.codecs_state = "EXCHANGED",
                   !.c.codec_confirmed = CVSD, !.c.negotiated_codec = CVSD,
                   !.c.link_setting =
                     NextLinkSetting(NoSetting, CVSD, "s4" \in e.c.features)]

TriggerReleaseAudio(e) ==
  IF e.c.state \in {"W4_SCO_CONNECTED", AUDIO}
    THEN Raise(e, {"release_audio_connection"}) ELSE e

TriggerReleaseSlc(e) ==
  LET r == TriggerReleaseAudio(e)
      s == Raise(r, {"release_slc_connection"})
  IN  CASE e.c.state \in Searching -> InState(r, "IDLE")
        [] e.c.state = "W4_RFCOMM_CONNECTED" ->
             InState(r, "W4_CONNECTION_ESTABLISHED_TO_SHUTDOWN")
        [] e.c.state \in SettingUp \cup {SLC} ->
             InState(s, "W2_DISCONNECT_RFCOMM")
        [] e.c.state \in {"W4_SCO_CONNECTED", AUDIO, "W2_DISCONNECT_SCO"} ->
             Raise(InState(s, "W2_DISCONNECT_SCO"), {"release_audio_connection"})
        [] OTHER -> s

-----------------------------------------------------------------------------
(* hfp_hf_run_for_context: the first machine that has something to do, and *)
(* after it the first command that was asked for.                          *)

SlcHasWork(e) == e.c.state \in ToSend /\ ~ e.c.ok_pending
RunServiceLevelConnection(e) ==
  Send(InState(e, SlcWait[e.c.state]), SlcCommand[e.c.state], NoCodec)

(* The flag stays up until the answer is there. *)
QueriesHaveWork(e) ==
  e.c.state = SLC /\ ~ e.c.ok_pending /\ Raised(e, "enable_status_update")
RunQueries(e) == SendAndWait(e, "CMER", NoCodec)

CodecFlags == {"trigger_codec_exchange", "hf_send_codec_confirm",
               "hf_send_supported_codecs"}
CodecsHaveWork(e) == e.c.flags \cap CodecFlags # {} /\ ~ e.c.ok_pending
RunCodecs(e) ==
  IF Raised(e, "trigger_codec_exchange")
    THEN SendAndWait(Lower(e, {"trigger_codec_exchange"}), "BCC", NoCodec)
  ELSE IF Raised(e, "hf_send_codec_confirm")
    THEN SendAndWait(Lower(e, {"hf_send_codec_confirm"}), "BCS",
                     e.c.codec_confirmed)
  ELSE SendAndWait(Lower(e, {"hf_send_supported_codecs"}), "BAC", NoCodec)

(* gap_disconnect of a handle that is not a connection emits the event of  *)
(* its end at once: it finds a context without a link, and the context is  *)
(* run again before the call returns (RunOnce).                            *)
ReleaseAudio(e) ==
  LET r == Lower(InState(e, "W4_SCO_DISCONNECTED"), {"release_audio_connection"})
  IN  IF e.c.sco THEN Ask(r, "disconnect sco")
                 ELSE Ask(ScoDisconnected(r), "run")

MaySetUpAudio(e) ==
  /\ e.c.codecs_state = "EXCHANGED"
  /\ Raised(e, "establish_audio_connection")

AudioHasWork_NotToDisconnect(e) ==
  \/ /\ e.c.state \in {SLC, "W4_SCO_CONNECTED", AUDIO}
     /\ Raised(e, "release_audio_connection")
  \/ /\ e.c.state \in {SLC, "W4_SCO_CONNECTED", "W2_DISCONNECT_SCO"}
     /\ CodecsHaveWork(e) \/ MaySetUpAudio(e)

AudioHasWork(e) ==
  \/ /\ e.c.state \in {SLC, "W4_SCO_CONNECTED", AUDIO, "W2_DISCONNECT_SCO"}
     /\ Raised(e, "release_audio_connection")
  \/ /\ e.c.state \in {SLC, "W4_SCO_CONNECTED", "W2_DISCONNECT_SCO"}
     /\ CodecsHaveWork(e) \/ MaySetUpAudio(e)

RunAudio(e) ==
  IF Raised(e, "release_audio_connection") THEN ReleaseAudio(e)
  ELSE IF CodecsHaveWork(e) THEN RunCodecs(e)
  ELSE Ask(Lower(InState(e, "W4_SCO_CONNECTED"),
                 {"establish_audio_connection"}), "setup")

(* ATA does not wait for its answer. *)
CallSetupHasWork(e) == Raised(e, "hf_answer_incoming_call") /\ ~ e.c.ok_pending
RunCallSetup(e) == Send(Lower(e, {"hf_answer_incoming_call"}), "ATA", NoCodec)

HasWork(e) ==
  SlcHasWork(e) \/ QueriesHaveWork(e) \/ AudioHasWork(e) \/ CallSetupHasWork(e)
RunMachines(e) ==
  IF SlcHasWork(e) THEN RunServiceLevelConnection(e)
  ELSE IF QueriesHaveWork(e) THEN RunQueries(e)
  ELSE IF AudioHasWork(e) THEN RunAudio(e)
  ELSE IF CallSetupHasWork(e) THEN RunCallSetup(e)
  ELSE e

Commands == <<"send_microphone_gain", "send_speaker_gain", "hf_send_chup",
              "hf_send_cnum">>
CommandOf == [send_microphone_gain |-> "VGM", send_speaker_gain |-> "VGS",
              hf_send_chup |-> "CHUP", hf_send_cnum |-> "CNUM"]

CommandsAsked(e) == {i \in DOMAIN Commands : Raised(e, Commands[i])}
RunCommands(e) ==
  LET flag == Commands[Min(CommandsAsked(e))]
  IN  IF flag = "hf_send_cnum" THEN Send(Lower(e, {flag}), "CNUM", NoCodec)
      ELSE SendAndWait(Lower(e, {flag}), CommandOf[flag], NoCodec)

RunAfterMachines(e, done) ==
  IF done.c.ok_pending \/ done.c.state \in BelowSlc \cup {"NONE"} THEN done
  ELSE IF CommandsAsked(done) # {} THEN RunCommands(done)
  ELSE IF ~ HasWork(e) /\ e.c.state = "W2_DISCONNECT_RFCOMM"
    THEN Ask(InState(e, "W4_RFCOMM_DISCONNECTED"), "disconnect rfcomm")
  ELSE done

(* The run inside gap_disconnect finds no link to release.                 *)
RunOnce(e) ==
  LET done   == RunMachines(e)
      inside == [done EXCEPT !.asks = @ \ {"run"}]
  IN  RunAfterMachines(e, IF "run" \in done.asks
                            THEN RunAfterMachines(inside, RunMachines(inside))
                            ELSE done)

(* room: what can be sent, nothing, commands to the controller or also     *)
(* lines to the gateway.                                                   *)
Run(e, room) ==
  IF e.c.state = "NONE" \/ ~ e.c.cid \/ room = "none" THEN e
  ELSE IF Raised(e, "accept_sco")
    THEN Ask([Lower(e, {"accept_sco"}) EXCEPT !.c.negotiated_codec =
                IF @ = NoCodec THEN CVSD ELSE @], "accept")
  ELSE IF room = "hci" THEN e
  ELSE RunOnce(e)
=============================================================================
