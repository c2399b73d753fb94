----------------------------- MODULE HfpHandsFree -----------------------------
(***************************************************************************)
(* A hands-free unit (lib/BTstack/src/classic/hfp_hf.c, hfp.c) and its     *)
(* connection to one audio gateway.  The handlers of RFCOMM, SDP and HCI   *)
(* events and the calls of the application run on the run loop task: each  *)
(* is one step, and ends in hfp_hf_run_for_context (HfpContext!Run).       *)
(*                                                                         *)
(* The gateway, the RFCOMM channel and the controller are modelled by what *)
(* the profile sees of them: lines arrive in order while the channel is    *)
(* open, the gateway answers every command with OK or ERROR, suggests      *)
(* codecs and opens an audio link when it is asked nothing else.           *)
(***************************************************************************)
EXTENDS HfpContext

CONSTANTS
  HfFeatures,      \* hfp_hf_supported_features
  AgFeatureSets,   \* features a gateway may have
  AgCodecs,        \* codecs it suggests
  AgErrors,        \* commands it may answer with ERROR
  Calls,           \* what the application does
  EarlyCalls,      \* also with the handle it has before it is connected
  MaxConnects, MaxCalls, MaxCodecs, MaxOffers, MaxDrops  \* bounds of a run

ASSUME HfpHandsFreeAssumption ==
  /\ HfFeatures \subseteq FeatureNames
  /\ AgFeatureSets \subseteq SUBSET FeatureNames
  /\ AgCodecs \subseteq {CVSD, MSBC}
  /\ EarlyCalls \in BOOLEAN
  /\ {MaxConnects, MaxCalls, MaxCodecs, MaxOffers, MaxDrops} \subseteq Nat

VARIABLES
  hfp,        \* the context in hfp_connections, NoContext when there is none
  scoActive,  \* hfp_sco_establishment_active: "none", "live" or "dangling"
  app,        \* what the application was told
  sdp,        \* the query: "idle", "registered", "querying", "asked_again"
  channel,    \* RFCOMM: its state and the lines on their way
  ag,         \* the gateway: features, slc, suggested codec, agreed codec
  link,       \* the audio link and the codec each side uses on it
  setup,      \* codec of a Setup_Synchronous_Connection without status yet
  spent       \* connections, calls, codecs and links offered, drops so far

vars == <<hfp, scoActive, app, sdp, channel, ag, link, setup, spent>>

NoLink    == [st |-> "none", ag |-> NoCodec, hf |-> NoCodec]
NoChannel == [st |-> "closed", toAG |-> <<>>, toHF |-> <<>>]

Init ==
  /\ hfp = NoContext /\ scoActive = "none" /\ app = NotConnected
  /\ sdp = "idle" /\ channel = NoChannel
  /\ \E f \in AgFeatureSets :
       ag = [features |-> f, slc |-> FALSE, asked |-> NoCodec, codec |-> CVSD]
  /\ link = NoLink /\ setup = NoCodec
  /\ spent = [connects |-> 0, calls |-> 0, codecs |-> 0, offers |-> 0,
              drops |-> 0]

Spend(what, max) ==
  spent[what] < max /\ spent' = [spent EXCEPT ![what] = @ + 1]

-----------------------------------------------------------------------------
(* A handler: its outcome and the run of the context that follows it.  The *)
(* controller may be busy, then nothing is sent.                           *)

Surroundings ==
  [channel |-> channel, link |-> link, setup |-> setup, active |-> scoActive]

(* The voice setting that goes with a codec. *)
AirCodec(c) == IF c.negotiated_codec = MSBC THEN MSBC ELSE CVSD

LinkAfter(l, r) ==
  CASE "accept" \in r.asks /\ l.st = "offered" ->
         [l EXCEPT !.st = "connecting", !.hf = AirCodec(r.c)]
    [] "disconnect sco" \in r.asks /\ l.st = "up" -> [l EXCEPT !.st = "closing"]
    [] OTHER -> l

Handle(e, s) ==
  \E room \in {"none", IF s.channel.st = "open" THEN "all" ELSE "hci"} :
    \E r \in {Run(e, room)} :
        /\ hfp' = r.c /\ app' = r.app
        /\ channel' = [s.channel EXCEPT
             !.toAG = @ \o r.cmds,
             !.st = IF "disconnect rfcomm" \in r.asks THEN "closing" ELSE @]
        /\ link' = LinkAfter(s.link, r)
        /\ setup' = IF "setup" \in r.asks THEN AirCodec(r.c) ELSE s.setup
        /\ scoActive' = IF "setup" \in r.asks THEN "live"
                        ELSE IF r.c.state = "NONE" /\ s.active = "live"
                          THEN "dangling" ELSE s.active

Here == Outcome(hfp, app)

(* The context is run again when something can be sent (CAN_SEND_NOW,      *)
(* Command_Complete).                                                      *)
RunAgain == UNCHANGED <<sdp, ag, spent>> /\ Handle(Here, Surroundings)

(* A new context may lie where the last one was. *)
ActiveForNewContext ==
  IF scoActive = "dangling" THEN {"dangling", "live"} ELSE {scoActive}

-----------------------------------------------------------------------------
(* Calls of the application (hfp_hf_demo.c: the console). *)

(* sdp_client_register_query_callback: one callback, which may be asked    *)
(* for while the query it has started is under way.                        *)
RegisterQuery ==
  sdp' = CASE sdp = "idle"     -> "registered"
           [] sdp = "querying" -> "asked_again"
           [] OTHER            -> sdp
Querying == sdp \in {"querying", "asked_again"}

EstablishSlc ==
  /\ Spend("connects", MaxConnects)
  /\ hfp.state = "NONE"
  /\ hfp' = [NewContext EXCEPT !.state = "W2_SEND_SDP_QUERY"]
  /\ scoActive' \in ActiveForNewContext
  /\ RegisterQuery
  /\ UNCHANGED <<app, channel, ag, link, setup>>

(* The context whose acl_handle is the one the application has. *)
ContextFound == hfp.state # "NONE" /\ hfp.acl = app.slc

Call(what, outcome) ==
  /\ what \in Calls /\ Spend("calls", MaxCalls)
  /\ EarlyCalls \/ app.slc
  /\ ContextFound
  /\ UNCHANGED <<sdp, ag>>
  /\ Handle(outcome, Surroundings)

CallReleaseSlc == Call("release_slc", TriggerReleaseSlc(Here))

CallEstablishAudio ==
  MayEstablishAudio(hfp) /\ Call("establish_audio", EstablishAudio(Here))

CallReleaseAudio ==
  /\ hfp.state \in {"W4_SCO_CONNECTED", AUDIO}
  /\ Call("release_audio", TriggerReleaseAudio(Here))

CallCommand ==
  \E f \in {"enable_status_update", "hf_answer_incoming_call",
            "send_microphone_gain", "send_speaker_gain", "hf_send_chup",
            "hf_send_cnum"} :
    Call(f, Raise(Here, {f}))

-----------------------------------------------------------------------------
(* SDP and RFCOMM. *)

(* hfp_handle_start_sdp_client_query *)
StartSdpQuery ==
  /\ sdp = "registered"
  /\ IF hfp.state = "W2_SEND_SDP_QUERY"
       THEN /\ sdp' = "querying"
            /\ hfp' = [hfp EXCEPT !.state = "W4_SDP_QUERY_COMPLETE"]
       ELSE sdp' = "idle" /\ UNCHANGED hfp
  /\ UNCHANGED <<scoActive, app, channel, ag, link, setup, spent>>

(* On a new channel the gateway has agreed to nothing yet. *)
AgAnew == [ag EXCEPT !.slc = FALSE, !.asked = NoCodec, !.codec = CVSD]

(* handle_query_rfcomm_event: whatever state the context is in meanwhile,  *)
(* which is then to ask again; only if it is gone, nothing is done.        *)
SdpQueryComplete ==
  /\ Querying
  /\ sdp' = IF hfp.state = "NONE" /\ sdp = "querying" THEN "idle" ELSE "registered"
  /\ \/ /\ hfp.state # "NONE"
        /\ hfp' = [hfp EXCEPT !.state = "W4_RFCOMM_CONNECTED"]
        /\ channel' = [NoChannel EXCEPT !.st = "opening"] /\ ag' = AgAnew
        /\ UNCHANGED <<app, scoActive>>
     \/ LET r == HandleSlcSetupError(Here)
        IN  /\ hfp.state # "NONE"
            /\ hfp' = r.c /\ app' = r.app
            /\ scoActive' = IF scoActive = "live" THEN "dangling" ELSE scoActive
            /\ UNCHANGED <<channel, ag>>
     \/ hfp.state = "NONE" /\ UNCHANGED <<hfp, app, channel, scoActive, ag>>
  /\ UNCHANGED <<link, setup, spent>>

(* The gateway connects.  There is one channel: not during a query.  It is *)
(* declined unless the context is idle.                                    *)
IncomingConnection ==
  LET accepted == [(IF hfp.state = "NONE" THEN NewContext ELSE hfp)
                     EXCEPT !.state = "W4_RFCOMM_CONNECTED", !.cid = TRUE]
      opening  == [Surroundings EXCEPT !.channel.st = "opening"]
  IN  /\ Spend("connects", MaxConnects)
      /\ channel.st = "closed" /\ ~ Querying
      /\ CASE hfp.state = "NONE" ->
                \E active \in ActiveForNewContext :
                  Handle(Outcome(accepted, app), [opening EXCEPT !.active = active])
           [] hfp.state = "IDLE" -> Handle(Outcome(accepted, app), opening)
           [] OTHER -> Handle(Here, Surroundings)
      /\ UNCHANGED <<sdp, ag>>

(* By then the controller has answered the commands sent before.           *)
ChannelOpenedEvent(ok) ==
  LET found == hfp.state = "W4_RFCOMM_CONNECTED"
      st == IF ok THEN "open" ELSE "closed"
  IN  /\ channel.st = "opening" /\ setup = NoCodec
      /\ UNCHANGED <<sdp, ag, spent>>
      /\ Handle(IF ~ found THEN Here
                ELSE IF ok THEN ChannelOpened(Here)
                ELSE HandleSlcSetupError(Here),
                [Surroundings EXCEPT !.channel.st = st])

ChannelClosedEvent ==
  /\ UNCHANGED sdp
  /\ ag' = AgAnew
  /\ Handle(IF hfp.cid THEN ChannelClosed(Here) ELSE Here,
            [Surroundings EXCEPT !.channel = NoChannel])

DisconnectDone ==
  channel.st = "closing" /\ UNCHANGED spent /\ ChannelClosedEvent

(* The gateway closes the channel, or the connection is lost. *)
ChannelLost ==
  channel.st = "open" /\ Spend("drops", MaxDrops) /\ ChannelClosedEvent

-----------------------------------------------------------------------------
(* The gateway. *)

(* The command whose answer completes the service level connection. *)
LastCommand ==
  LET both == HfFeatures \cap ag.features
  IN  IF "indicators" \in both THEN "BIND?"
      ELSE IF "threeway" \in both THEN "CHLD" ELSE "CMER"

AgAnswers ==
  LET command == Head(channel.toAG)[1]
      codec == Head(channel.toAG)[2]
      lines == IF command = "BRSF" THEN <<<<"+BRSF", NoCodec>>>> ELSE <<>>
  IN  /\ channel.st = "open" /\ channel.toAG # <<>>
      /\ \E ok \in {TRUE} \cup (IF command \in AgErrors THEN {FALSE} ELSE {}) :
           /\ channel' = [channel EXCEPT
                !.toAG = Tail(@),
                !.toHF = @ \o lines
                           \o <<<<IF ok THEN "OK" ELSE "ERROR", NoCodec>>>>]
           /\ ag' = [ag EXCEPT
                !.slc = @ \/ (ok /\ command = LastCommand),
                !.asked = IF command \in {"BCS", "BAC"} THEN NoCodec ELSE @,
                !.codec = IF ok /\ command = "BCS" /\ codec \in {ag.asked} \ {NoCodec}
                            THEN codec ELSE @]
      /\ UNCHANGED <<hfp, scoActive, app, sdp, link, setup, spent>>

AgSuggests ==
  /\ channel.st = "open" /\ ag.slc /\ ag.asked = NoCodec /\ link.st = "none"
  /\ "codec" \in HfFeatures \cap ag.features
  /\ Spend("codecs", MaxCodecs)
  /\ \E codec \in AgCodecs :
       /\ ag' = [ag EXCEPT !.asked = codec]
       /\ channel' = [channel EXCEPT !.toHF = Append(@, <<"+BCS", codec>>)]
  /\ UNCHANGED <<hfp, scoActive, app, sdp, link, setup>>

(* The lines sent before have arrived when the link is offered. *)
AgOpensAudio ==
  /\ channel.st = "open" /\ channel.toHF = <<>>
  /\ ag.slc /\ ag.asked = NoCodec /\ link.st = "none"
  /\ Spend("offers", MaxOffers)
  /\ link' = [st |-> "requested", ag |-> ag.codec, hf |-> NoCodec]
  /\ UNCHANGED <<hfp, scoActive, app, sdp, channel, ag, setup>>

-----------------------------------------------------------------------------
(* Lines of the gateway (hfp_hf_handle_rfcomm_command). *)

LineOutcome(line) ==
  CASE line[1] = "OK" -> SwitchOnOkPending(Here)
    [] line[1] = "ERROR" -> HandleError(Here)
    [] line[1] = "+BCS" -> HandleSuggestedCodec(Here, line[2])
    [] line[1] = "+BRSF" ->
         [Here EXCEPT !.c.features = HfFeatures \cap ag.features]

ReceiveLine ==
  /\ channel.st = "open" /\ channel.toHF # <<>>
  /\ UNCHANGED <<sdp, ag, spent>>
  /\ Handle(IF hfp.cid THEN LineOutcome(Head(channel.toHF)) ELSE Here,
            [Surroundings EXCEPT !.channel.toHF = Tail(@)])

-----------------------------------------------------------------------------
(* HCI events (hfp_handle_hci_event). *)

(* A context that is found accepts the link, whatever it is doing. *)
ConnectionRequest ==
  /\ link.st = "requested"
  /\ UNCHANGED <<sdp, ag, spent>>
  /\ IF hfp.state = "NONE"
       THEN Handle(Here, [Surroundings EXCEPT !.link.st = "offered"])
       ELSE Handle(Raise(Here, {"accept_sco"}),
                   [Surroundings EXCEPT !.link.st = "offered",
                                        !.active = "live"])

SyncConnectionComplete ==
  /\ link.st = "connecting"
  /\ UNCHANGED <<sdp, ag, spent>>
  /\ Handle(IF scoActive = "none" \/ hfp.state = "NONE"
              THEN Here ELSE SyncConnected(Here),
            [Surroundings EXCEPT !.link.st = "up"])

(* An attempt failed (hfp_handle_failed_sco_connection).  What a freed     *)
(* context holds, and that it is written to, is outside the model.         *)
AttemptFailed(e, hasContext, retryable, s) ==
  \/ /\ scoActive = "live" /\ retryable /\ CanRetry(e)
     /\ Handle(TryNextSetting(e), [s EXCEPT !.active = "none"])
  \/ /\ scoActive = "dangling" /\ retryable
     /\ Handle(e, [s EXCEPT !.active = "none"])
  \/ /\ scoActive = "dangling" \/ ~ retryable \/ ~ CanRetry(e)
     /\ Handle(IF hasContext THEN AudioFailed(e) ELSE e, s)

SyncConnectionFailed(retryable) ==
  LET s == [Surroundings EXCEPT !.link = NoLink]
  IN  /\ link.st \in {"offered", "connecting"}
      /\ link.st = "offered" => ~ retryable
      /\ UNCHANGED <<sdp, ag, spent>>
      /\ IF scoActive = "none" \/ hfp.state = "NONE" THEN Handle(Here, s)
         ELSE AttemptFailed(Lower(Here, {"accept_sco"}), TRUE, retryable, s)

(* Command_Status of Setup_Synchronous_Connection. *)
SetupStarted ==
  /\ setup # NoCodec /\ link.st = "none" /\ channel.st = "open"
  /\ link' = [st |-> "connecting", ag |-> ag.codec, hf |-> setup]
  /\ setup' = NoCodec
  /\ UNCHANGED <<hfp, scoActive, app, sdp, channel, ag, spent>>

SetupRefused(retryable) ==
  LET s == [Surroundings EXCEPT !.setup = NoCodec]
  IN  /\ setup # NoCodec
      /\ UNCHANGED <<sdp, ag, spent>>
      /\ IF scoActive = "none" THEN Handle(Here, s)
         ELSE AttemptFailed(Here, scoActive = "live", retryable, s)

DisconnectionComplete ==
  /\ UNCHANGED <<sdp, ag>>
  /\ Handle(IF hfp.sco THEN ScoDisconnected(Here) ELSE Here,
            [Surroundings EXCEPT !.link = NoLink])

AudioClosed == link.st = "closing" /\ UNCHANGED spent /\ DisconnectionComplete

(* The gateway closes the link, or it is lost. *)
AudioLost == link.st = "up" /\ Spend("drops", MaxDrops) /\ DisconnectionComplete

-----------------------------------------------------------------------------
Application ==
  \/ EstablishSlc \/ CallReleaseSlc \/ CallEstablishAudio \/ CallReleaseAudio
  \/ CallCommand

(* What nobody decides: it is under way and happens. *)
UnderWay ==
  \/ StartSdpQuery \/ SdpQueryComplete \/ SetupStarted \/ AgAnswers
  \/ ReceiveLine
  \/ \E ok \in BOOLEAN : ChannelOpenedEvent(ok)
  \/ DisconnectDone
  \/ ConnectionRequest \/ SyncConnectionComplete
  \/ \E retryable \in BOOLEAN :
       SyncConnectionFailed(retryable) \/ SetupRefused(retryable)
  \/ AudioClosed
  \/ RunAgain

Peer ==
  \/ IncomingConnection \/ ChannelLost \/ AgSuggests \/ AgOpensAudio \/ AudioLost

Next == Application \/ UnderWay \/ Peer

Spec == Init /\ [][Next]_vars

(* The run loop handles what the controller delivers, the controller and   *)
(* the gateway answer.  Nobody has to call or to connect.                  *)
FairSpec == Spec /\ WF_vars(UnderWay)

-----------------------------------------------------------------------------
(* Types. *)
TypeOK ==
  /\ hfp \in Context
  /\ scoActive \in {"none", "live", "dangling"}
  /\ app \in [slc : BOOLEAN, audio : {NoAudio, NoCodec, CVSD, MSBC}]
  /\ sdp \in {"idle", "registered", "querying", "asked_again"}
  /\ channel.st \in {"closed", "opening", "open", "closing"}
  /\ link.st \in {"none", "requested", "offered", "connecting", "up", "closing"}
  /\ {link.ag, link.hf, setup, ag.asked, ag.codec} \subseteq {NoCodec, CVSD, MSBC}

(* The context holds the handle of an audio link only while there is one:  *)
(* gap_disconnect never closes what has the handle by now.                 *)
HandleIsLive == hfp.sco => link.st \in {"up", "closing"}

(* While the hands-free unit waits for an answer (ok_pending or a state    *)
(* W4_...) its command or the answer to it is on the way, however errors,  *)
(* suggestions and calls of the application fall together.                 *)
AnswerIsComing ==
  channel.st = "open" /\ hfp.cid
    /\ (hfp.ok_pending \/ hfp.state \in ToBeAnswered)
  => \/ channel.toAG # <<>>
     \/ \E i \in DOMAIN channel.toHF : channel.toHF[i][1] \in {"OK", "ERROR"}

(* A link the gateway opens is accepted with mSBC frames only when the     *)
(* gateway takes it for an mSBC link.                                      *)
MsbcOnlyIfAgreed ==
  [][link.st \in {"requested", "offered"} /\ link'.st = "connecting"
       /\ link'.hf = MSBC => link'.ag = MSBC]_vars

(* The same of every link, those the hands-free unit sets up included.     *)
MsbcLinksAgree ==
  link.st \in {"connecting", "up"} /\ link.hf = MSBC => link.ag = MSBC

(* A service level connection that is being set up is completed or ends,   *)
(* whatever the features of both sides.                                    *)
SlcCompletes ==
  channel.st = "open" /\ hfp.cid ~> hfp.state \notin SettingUp

(* A codec the gateway suggests is confirmed or the codecs are sent to it, *)
(* or the connection ends, unless a link comes up first: the exchange then *)
(* waits for its end.                                                      *)
SuggestionAnswered ==
  ag.asked # NoCodec ~> ag.asked = NoCodec \/ hfp.state = AUDIO

(* A request to release the audio link is carried out.                     *)
ReleaseAudioDone ==
  "release_audio_connection" \in hfp.flags
    ~> "release_audio_connection" \notin hfp.flags /\ ~ hfp.sco

(* The end of an audio link is reported to the application (hfp_hf.h): it  *)
(* believes in a link only while there is one.                             *)
AudioEndIsReported == app.audio # NoAudio => link.st \in {"up", "closing"}

(* A release of the service level connection is reported (hfp_hf.h).       *)
ReleaseIsReported == "release_slc_connection" \in hfp.flags ~> ~ app.slc
=============================================================================
