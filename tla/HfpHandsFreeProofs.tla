-------------------------- MODULE HfpHandsFreeProofs --------------------------
(***************************************************************************)
(* Proofs about the hands-free unit: for any features and codecs of both   *)
(* sides, whatever commands the gateway refuses, whatever the application  *)
(* calls and however often both connect, open, release and lose channel    *)
(* and audio link.                                                         *)
(***************************************************************************)
EXTENDS HfpHandsFree, SequenceTheorems, TLAPS

-----------------------------------------------------------------------------
(* Types of what the type invariant leaves open, and of outcomes.          *)

Codecs == {NoCodec, CVSD, MSBC}
Told   == [slc : BOOLEAN, audio : {NoAudio, NoCodec, CVSD, MSBC}]
Asked  == {"disconnect sco", "disconnect rfcomm", "run", "accept", "setup"}

CommandNames ==
  {"BRSF", "BAC", "CIND=?", "CIND?", "CMER", "CHLD", "BIND", "BIND=?", "BIND?",
   "BCC", "BCS", "ATA", "VGM", "VGS", "CHUP", "CNUM"}
ToGateway == CommandNames \X Codecs
ToUnit    == {"OK", "ERROR", "+BCS", "+BRSF"} \X Codecs

Outcomes ==
  [c : Context, app : Told, cmds : Seq(ToGateway), asks : SUBSET Asked]

(* The unit waits for an answer. *)
Waits(c) == c.ok_pending \/ c.state \in ToBeAnswered

(* Two outcomes agree on the connections and on what was sent. *)
SameLinks(e, r) ==
  /\ r.c.acl = e.c.acl /\ r.c.cid = e.c.cid /\ r.c.sco = e.c.sco
  /\ r.cmds = e.cmds

LEMMA InStateFacts ==
  \A e \in Outcomes, s \in States :
    /\ InState(e, s) \in Outcomes /\ SameLinks(e, InState(e, s))
    /\ InState(e, s).c.state = s
    /\ InState(e, s).c.ok_pending = e.c.ok_pending
BY DEF Outcomes, InState, Context, SameLinks

LEMMA RaiseFacts ==
  \A e \in Outcomes, fs \in SUBSET Flags :
    /\ Raise(e, fs) \in Outcomes /\ SameLinks(e, Raise(e, fs))
    /\ Raise(e, fs).c.state = e.c.state
    /\ Raise(e, fs).c.ok_pending = e.c.ok_pending
BY DEF Outcomes, Raise, Context, SameLinks

LEMMA LowerFacts ==
  \A e \in Outcomes, fs \in SUBSET Flags :
    /\ Lower(e, fs) \in Outcomes /\ SameLinks(e, Lower(e, fs))
    /\ Lower(e, fs).c.state = e.c.state
    /\ Lower(e, fs).c.ok_pending = e.c.ok_pending
BY DEF Outcomes, Lower, Context, SameLinks

LEMMA AskFacts ==
  \A e \in Outcomes, what \in Asked :
    /\ Ask(e, what) \in Outcomes
    /\ Ask(e, what).c = e.c /\ Ask(e, what).cmds = e.cmds
    /\ Ask(e, what).app = e.app
BY DEF Outcomes, Ask

LEMMA SendFacts ==
  ASSUME NEW e \in Outcomes, NEW command \in CommandNames, NEW codec \in Codecs
  PROVE  /\ Send(e, command, codec) \in Outcomes
         /\ Send(e, command, codec).c = e.c
         /\ Send(e, command, codec).cmds # <<>>
<1>1. e.cmds \in Seq(ToGateway) /\ <<command, codec>> \in ToGateway
  BY DEF Outcomes, ToGateway
<1> DEFINE more == Append(e.cmds, <<command, codec>>)
<1>2. more \in Seq(ToGateway) /\ more # <<>>
  BY <1>1, AppendProperties
<1>3. Send(e, command, codec) = [e EXCEPT !.cmds = more]
  BY DEF Send
<1> HIDE DEF more
<1> QED BY <1>2, <1>3 DEF Outcomes

LEMMA SendAndWaitFacts ==
  ASSUME NEW e \in Outcomes, NEW command \in CommandNames, NEW codec \in Codecs
  PROVE  LET r == SendAndWait(e, command, codec)
         IN  /\ r \in Outcomes /\ r.cmds # <<>>
             /\ r.c.acl = e.c.acl /\ r.c.cid = e.c.cid /\ r.c.sco = e.c.sco
             /\ r.c.state = e.c.state
<1> DEFINE sent == Send(e, command, codec)
<1>1. sent \in Outcomes /\ sent.c = e.c /\ sent.cmds # <<>>
  BY SendFacts
<1>2. SendAndWait(e, command, codec) = [sent EXCEPT !.c.ok_pending = TRUE]
  BY DEF SendAndWait
<1> HIDE DEF sent
<1>3. [sent EXCEPT !.c.ok_pending = TRUE] \in Outcomes
  BY <1>1 DEF Outcomes, Context
<1>4. [sent EXCEPT !.c.ok_pending = TRUE].cmds = sent.cmds
  BY <1>1 DEF Outcomes
<1> DEFINE d == [sent.c EXCEPT !.ok_pending = TRUE]
<1>5. [sent EXCEPT !.c.ok_pending = TRUE].c = d
  BY <1>1 DEF Outcomes
<1>6. /\ d.acl = sent.c.acl /\ d.cid = sent.c.cid /\ d.sco = sent.c.sco
      /\ d.state = sent.c.state
  BY <1>1 DEF Outcomes, Context
<1> HIDE DEF d
<1> QED BY <1>1, <1>2, <1>3, <1>4, <1>5, <1>6

LEMMA OutcomeFacts ==
  \A c \in Context, a \in Told :
    /\ Outcome(c, a) \in Outcomes
    /\ Outcome(c, a).c = c /\ Outcome(c, a).app = a /\ Outcome(c, a).cmds = <<>>
BY DEF Outcomes, Outcome

(* The intervals of states. *)
LEMMA Intervals ==
  /\ ToSend = {"EXCHANGE_SUPPORTED_FEATURES", "NOTIFY_ON_CODECS",
               "RETRIEVE_INDICATORS", "RETRIEVE_INDICATORS_STATUS",
               "ENABLE_INDICATORS_STATUS_UPDATE", "RETRIEVE_CAN_HOLD_CALL",
               "LIST_GENERIC_STATUS_INDICATORS",
               "RETRIEVE_GENERIC_STATUS_INDICATORS",
               "RETRIEVE_INITITAL_STATE_GENERIC_STATUS_INDICATORS"}
  /\ ToBeAnswered =
       {"W4_EXCHANGE_SUPPORTED_FEATURES", "W4_NOTIFY_ON_CODECS",
        "W4_RETRIEVE_INDICATORS", "W4_RETRIEVE_INDICATORS_STATUS",
        "W4_ENABLE_INDICATORS_STATUS_UPDATE", "W4_RETRIEVE_CAN_HOLD_CALL",
        "W4_LIST_GENERIC_STATUS_INDICATORS",
        "W4_RETRIEVE_GENERIC_STATUS_INDICATORS",
        "W4_RETRIEVE_INITITAL_STATE_GENERIC_STATUS_INDICATORS"}
<1>1. ToSend = {"EXCHANGE_SUPPORTED_FEATURES", "NOTIFY_ON_CODECS",
               "RETRIEVE_INDICATORS", "RETRIEVE_INDICATORS_STATUS",
               "ENABLE_INDICATORS_STATUS_UPDATE", "RETRIEVE_CAN_HOLD_CALL",
               "LIST_GENERIC_STATUS_INDICATORS",
               "RETRIEVE_GENERIC_STATUS_INDICATORS",
               "RETRIEVE_INITITAL_STATE_GENERIC_STATUS_INDICATORS"}
  BY DEF ToSend, SlcCommand
<1> QED BY <1>1 DEF ToBeAnswered, SlcWait

(* Sending the command of a state leads to the state that waits for its    *)
(* answer, which is none of those before the channel is open.              *)
LEMMA StateFacts ==
  /\ ToSend \subseteq States /\ ToBeAnswered \subseteq States
  /\ {SLC, AUDIO, "W4_SCO_CONNECTED", "W4_RFCOMM_CONNECTED"} \subseteq States
  /\ Searching \subseteq States /\ FromDisconnectSco \subseteq States
  /\ \A s \in ToSend : SlcWait[s] \in ToBeAnswered /\ SlcCommand[s] \in CommandNames
  /\ (Searching \cup FromDisconnectSco
        \cup {SLC, AUDIO, "W4_SCO_CONNECTED", "W4_RFCOMM_CONNECTED", "NONE"} 
        \cup ToSend) \cap ToBeAnswered = {}
  /\ (ToSend \cup ToBeAnswered \cup FromDisconnectSco
        \cup {SLC, AUDIO, "W4_SCO_CONNECTED", "W4_RFCOMM_CONNECTED", "NONE"})
       \cap Searching = {}
  /\ "NONE" \notin States
<1>1. /\ ToSend \subseteq States /\ ToBeAnswered \subseteq States
      /\ {SLC, AUDIO, "W4_SCO_CONNECTED", "W4_RFCOMM_CONNECTED"} \subseteq States
      /\ Searching \subseteq States /\ FromDisconnectSco \subseteq States
  BY DEF States, BelowSlc, SettingUp
<1>2. \A s \in ToSend : SlcWait[s] \in ToBeAnswered
  BY DEF ToBeAnswered
<1>3. \A s \in ToSend : SlcCommand[s] \in CommandNames
  BY Intervals DEF SlcCommand, CommandNames
<1>4. (Searching \cup FromDisconnectSco
        \cup {SLC, AUDIO, "W4_SCO_CONNECTED", "W4_RFCOMM_CONNECTED", "NONE"}
        \cup ToSend) \cap ToBeAnswered = {}
  BY Intervals DEF Searching, FromDisconnectSco, SLC, AUDIO
<1>5. (ToSend \cup ToBeAnswered \cup FromDisconnectSco
        \cup {SLC, AUDIO, "W4_SCO_CONNECTED", "W4_RFCOMM_CONNECTED", "NONE"})
       \cap Searching = {}
  BY Intervals DEF Searching, FromDisconnectSco, SLC, AUDIO
<1>6. "NONE" \notin States
  BY Intervals DEF States, BelowSlc, SettingUp, Searching, FromDisconnectSco, SLC, AUDIO
<1> QED BY <1>1, <1>2, <1>3, <1>4, <1>5, <1>6

(* The command after an answer is sent next, or the connection is there. *)
LEMMA AfterAnswerFacts ==
  \A s \in ToBeAnswered, f \in SUBSET FeatureNames :
    AfterAnswer(s, f) \in ToSend \cup {SLC}
<1> SUFFICES ASSUME NEW s \in ToBeAnswered, NEW f \in SUBSET FeatureNames
             PROVE  AfterAnswer(s, f) \in ToSend \cup {SLC}
  OBVIOUS
<1> QED BY Intervals DEF AfterAnswer

-----------------------------------------------------------------------------
(* What handlers do to the context before it is run: nothing is sent, and  *)
(* the unit neither begins to wait nor takes connections for open.         *)
Quiet(e, r) ==
  /\ r \in Outcomes /\ r.cmds = e.cmds
  /\ r.c.sco => e.c.sco
  /\ r.c.acl => e.c.acl
  /\ r.c.cid => e.c.cid
  /\ Waits(r.c) => Waits(e.c)
  /\ e.c.cid /\ (Waits(r.c) \/ r.c.acl) => r.c.cid
  /\ r.c.cid /\ r.c.state \in Searching => e.c.state \in Searching
  /\ r.c.state = "W4_RFCOMM_CONNECTED" => e.c.state = "W4_RFCOMM_CONNECTED"

LEMMA QuietNothing == \A e \in Outcomes : Quiet(e, e)
BY DEF Quiet

LEMMA QuietRaise == \A e \in Outcomes, fs \in SUBSET Flags : Quiet(e, Raise(e, fs))
BY RaiseFacts DEF Quiet, SameLinks, Waits

LEMMA QuietLower == \A e \in Outcomes, fs \in SUBSET Flags : Quiet(e, Lower(e, fs))
BY LowerFacts DEF Quiet, SameLinks, Waits

(* States of an open channel in which the unit waits for no answer. *)
Settled ==
  States \ (ToBeAnswered \cup Searching \cup {"W4_RFCOMM_CONNECTED"})

LEMMA SettledStates ==
  /\ {SLC, AUDIO, "W4_SCO_CONNECTED"} \subseteq Settled
  /\ ToSend \subseteq Settled
  /\ FromDisconnectSco \subseteq Settled
  /\ {"W2_DISCONNECT_SCO", "W4_SCO_DISCONNECTED",
      "W4_SCO_DISCONNECTED_TO_SHUTDOWN", "W2_DISCONNECT_RFCOMM",
      "W4_RFCOMM_DISCONNECTED", "W4_CONNECTION_ESTABLISHED_TO_SHUTDOWN"}
     \subseteq Settled
<1>1. /\ {SLC, AUDIO, "W4_SCO_CONNECTED"} \subseteq Settled
      /\ ToSend \subseteq Settled
  BY StateFacts, Intervals DEF Settled, SLC, AUDIO
<1>2. FromDisconnectSco \subseteq Settled
  BY StateFacts DEF Settled, FromDisconnectSco
<1> QED BY <1>1, <1>2 DEF FromDisconnectSco

LEMMA QuietInState ==
  \A e \in Outcomes, s \in Settled :
    /\ Quiet(e, InState(e, s)) /\ InState(e, s) \in Outcomes
    /\ InState(e, s).c.sco = e.c.sco
BY InStateFacts DEF Quiet, SameLinks, Waits, Settled

LEMMA QuietAsk == \A e \in Outcomes, what \in Asked : Quiet(e, Ask(e, what))
BY AskFacts DEF Quiet

LEMMA NoContextFacts ==
  /\ NoContext \in Context /\ NewContext \in Context
  /\ ~ NoContext.sco /\ ~ NoContext.acl /\ ~ NoContext.cid /\ ~ NoContext.ok_pending
  /\ NoContext.state = "NONE"
  /\ ~ NewContext.sco /\ ~ NewContext.acl /\ ~ NewContext.cid
  /\ ~ NewContext.ok_pending /\ NewContext.state = "IDLE"
<1>1. "IDLE" \in States /\ "IDLE" \in CodecsStates
  BY DEF States, BelowSlc, Searching, CodecsStates
<1>2. NewContext \in Context
  BY <1>1 DEF NewContext, Context, LinkSettings
<1>3. /\ ~ NewContext.sco /\ ~ NewContext.acl /\ ~ NewContext.cid
      /\ ~ NewContext.ok_pending /\ NewContext.state = "IDLE"
  BY DEF NewContext
<1>4. NoContext \in Context
  BY <1>2 DEF NoContext, Context
<1>5. /\ ~ NoContext.sco /\ ~ NoContext.acl /\ ~ NoContext.cid
      /\ ~ NoContext.ok_pending /\ NoContext.state = "NONE"
  BY <1>2, <1>3 DEF NoContext, Context
<1> QED BY <1>2, <1>3, <1>4, <1>5

LEMMA QuietFinalize == \A e \in Outcomes : Quiet(e, Finalize(e)) /\ Finalize(e).c = NoContext
<1>1. ~ Waits(NoContext)
  BY NoContextFacts, StateFacts DEF Waits
<1> QED BY <1>1, NoContextFacts DEF Quiet, Finalize, Outcomes

(* Steps that are quiet, one after the other. *)
LEMMA QuietThen ==
  \A e, d, r : Quiet(e, d) /\ Quiet(d, r) => Quiet(e, r)
BY DEF Quiet

LEMMA QuietReset ==
  \A e \in Outcomes :
    Quiet(e, ResetContextFlags(e)) /\ ~ ResetContextFlags(e).c.ok_pending
      /\ ResetContextFlags(e).c.state = e.c.state
<1> SUFFICES ASSUME NEW e \in Outcomes
             PROVE  Quiet(e, ResetContextFlags(e)) /\ ~ ResetContextFlags(e).c.ok_pending
                      /\ ResetContextFlags(e).c.state = e.c.state
  OBVIOUS
<1> DEFINE d == Lower(e, {"establish_audio_connection", "enable_status_update"})
           r == ResetContextFlags(e)
<1>1. d \in Outcomes /\ Quiet(e, d) /\ d.c.state = e.c.state
  <2>1. {"establish_audio_connection", "enable_status_update"} \in SUBSET Flags
    BY DEF Flags
  <2> QED BY <2>1, LowerFacts, QuietLower
<1>2. r = [d EXCEPT !.c.ok_pending = FALSE, !.c.negotiated_codec = NoCodec,
                    !.c.codec_confirmed = NoCodec]
  BY DEF ResetContextFlags
<1> HIDE DEF d, r
<1>3. r \in Outcomes
  BY <1>1, <1>2 DEF Outcomes, Context
<1>4. /\ r.cmds = d.cmds /\ r.c.state = d.c.state /\ ~ r.c.ok_pending
      /\ r.c.acl = d.c.acl /\ r.c.cid = d.c.cid /\ r.c.sco = d.c.sco
  BY <1>1, <1>2 DEF Outcomes, Context
<1>5. Quiet(d, r)
  BY <1>3, <1>4 DEF Quiet, Waits
<1> QED BY <1>1, <1>4, <1>5, QuietThen DEF r

LEMMA QuietSetupError ==
  \A e \in Outcomes : Quiet(e, HandleSlcSetupError(e))
                        /\ HandleSlcSetupError(e).c = NoContext
<1> SUFFICES ASSUME NEW e \in Outcomes
             PROVE  Quiet(e, HandleSlcSetupError(e))
                      /\ HandleSlcSetupError(e).c = NoContext
  OBVIOUS
<1> DEFINE d == Finalize(e)
           r == HandleSlcSetupError(e)
<1>1. Quiet(e, d) /\ d.c = NoContext /\ d \in Outcomes
  BY QuietFinalize DEF Quiet
<1>2. r = [d EXCEPT !.app.slc = FALSE]
  BY DEF HandleSlcSetupError
<1> HIDE DEF d, r
<1>3. r \in Outcomes /\ r.c = d.c /\ r.cmds = d.cmds
  BY <1>1, <1>2 DEF Outcomes, Told
<1> QED BY <1>1, <1>3 DEF r, Quiet

(* The end of the link or of the channel is told to the application.       *)
LEMMA QuietClosed == \A e \in Outcomes : Quiet(e, ChannelClosed(e))
<1> SUFFICES ASSUME NEW e \in Outcomes PROVE Quiet(e, ChannelClosed(e))
  OBVIOUS
<1>1. CASE e.c.state = AUDIO
  <2> DEFINE a == InState(e, "W4_SCO_DISCONNECTED_TO_SHUTDOWN")
             b == Lower(a, {"release_audio_connection"})
             d == [b EXCEPT !.c.acl = FALSE]
  <2>1. Quiet(e, a) /\ a \in Outcomes
    BY SettledStates, QuietInState
  <2>2. Quiet(a, b) /\ b \in Outcomes
    BY <2>1, QuietLower, LowerFacts DEF Flags
  <2> HIDE DEF a, b
  <2>3. d \in Outcomes
    BY <2>2 DEF Outcomes, Context
  <2>4. /\ d.cmds = b.cmds /\ d.c.state = b.c.state /\ d.c.ok_pending = b.c.ok_pending
        /\ ~ d.c.acl /\ d.c.cid = b.c.cid /\ d.c.sco = b.c.sco
    BY <2>2 DEF Outcomes, Context
  <2> HIDE DEF d
  <2>5. Quiet(b, d)
    BY <2>3, <2>4 DEF Quiet, Waits
  <2>6. Quiet(d, Ask(d, "disconnect sco"))
    BY <2>3, QuietAsk DEF Asked
  <2>7. ChannelClosed(e) = Ask(d, "disconnect sco")
    BY <1>1 DEF ChannelClosed, d, b, a
  <2> QED BY <2>1, <2>2, <2>5, <2>6, <2>7, QuietThen
<1>2. CASE e.c.state # AUDIO
  <2>1. ChannelClosed(e) = HandleSlcSetupError(e)
    BY <1>2 DEF ChannelClosed, HandleSlcSetupError
  <2> QED BY <2>1, QuietSetupError
<1> QED BY <1>1, <1>2

LEMMA QuietScoDisconnected ==
  \A e \in Outcomes :
    /\ Quiet(e, ScoDisconnected(e)) /\ ~ ScoDisconnected(e).c.sco
    /\ ScoDisconnected(e).c.cid = e.c.cid \/ ScoDisconnected(e).c = NoContext
<1> SUFFICES ASSUME NEW e \in Outcomes
             PROVE  LET r == ScoDisconnected(e)
                    IN  /\ Quiet(e, r) /\ ~ r.c.sco
                        /\ r.c.cid = e.c.cid \/ r.c = NoContext
  OBVIOUS
<1> DEFINE a == InState(e, SLC)
           b == Lower(a, {"release_audio_connection"})
           d == [b EXCEPT !.c.sco = FALSE, !.app.audio = NoAudio]
<1>1. Quiet(e, a) /\ a \in Outcomes /\ a.c.cid = e.c.cid
  BY SettledStates, QuietInState, InStateFacts DEF Settled, SameLinks
<1>2. Quiet(a, b) /\ b \in Outcomes /\ b.c.cid = e.c.cid
  <2>1. {"release_audio_connection"} \in SUBSET Flags
    BY DEF Flags
  <2> HIDE DEF a
  <2> QED BY <1>1, <2>1, QuietLower, LowerFacts DEF SameLinks
<1>3. ScoDisconnected(e) =
        IF ~ e.c.acl THEN HandleSlcSetupError(d)
        ELSE IF Raised(e, "release_slc_connection")
          THEN Lower(InState(d, "W2_DISCONNECT_RFCOMM"), {"release_slc_connection"})
        ELSE d
  BY DEF ScoDisconnected, HandleSlcSetupError
<1> HIDE DEF a, b
<1>4. d \in Outcomes
  BY <1>2 DEF Outcomes, Context, Told
<1>5. /\ d.cmds = b.cmds /\ d.c.state = b.c.state /\ d.c.ok_pending = b.c.ok_pending
      /\ d.c.acl = b.c.acl /\ d.c.cid = b.c.cid /\ ~ d.c.sco
  BY <1>2 DEF Outcomes, Context
<1> HIDE DEF d
<1>6. Quiet(b, d)
  BY <1>4, <1>5 DEF Quiet, Waits
<1>7. Quiet(e, d)
  BY <1>1, <1>2, <1>6, QuietThen
<1>8. CASE ~ e.c.acl
  BY <1>3, <1>4, <1>7, <1>8, QuietSetupError, QuietThen, NoContextFacts
<1>9. CASE e.c.acl /\ Raised(e, "release_slc_connection")
  <2> DEFINE f == InState(d, "W2_DISCONNECT_RFCOMM")
  <2>0. "W2_DISCONNECT_RFCOMM" \in Settled /\ "W2_DISCONNECT_RFCOMM" \in States
    BY SettledStates DEF Settled
  <2>1. Quiet(d, f) /\ f \in Outcomes /\ ~ f.c.sco /\ f.c.cid = d.c.cid
    <3>1. Quiet(d, f) /\ f \in Outcomes /\ f.c.sco = d.c.sco
      BY <1>4, <2>0, QuietInState
    <3>2. f.c.cid = d.c.cid
      BY <1>4, <2>0, InStateFacts DEF SameLinks
    <3> QED BY <1>5, <3>1, <3>2
  <2>2. {"release_slc_connection"} \in SUBSET Flags
    BY DEF Flags
  <2>3. ScoDisconnected(e) = Lower(f, {"release_slc_connection"})
    BY <1>3, <1>9
  <2> HIDE DEF f
  <2>4. /\ Quiet(f, Lower(f, {"release_slc_connection"}))
        /\ ~ Lower(f, {"release_slc_connection"}).c.sco
        /\ Lower(f, {"release_slc_connection"}).c.cid = f.c.cid
    BY <2>1, <2>2, QuietLower, LowerFacts DEF SameLinks
  <2> QED BY <1>2, <1>5, <1>7, <2>1, <2>3, <2>4, QuietThen
<1>10. CASE e.c.acl /\ ~ Raised(e, "release_slc_connection")
  BY <1>2, <1>3, <1>5, <1>7, <1>10
<1> QED BY <1>8, <1>9, <1>10

-----------------------------------------------------------------------------
LEMMA LinkSettingFacts ==
  \A current, codec, s4 :
    NextLinkSetting(current, codec, s4) \in LinkSettings \cup {NoSetting}
<1>1. ASSUME NEW T \in SUBSET LinkSettings, T # {}
      PROVE  Max(T) \in LinkSettings
  <2>1. \E x \in T : \A y \in T : x >= y
    <3>1. \A y \in T : y \in 0 .. 7
      BY DEF LinkSettings
    <3>2. CASE 7 \in T
      BY <3>1, <3>2
    <3>3. CASE 6 \in T /\ 7 \notin T
      BY <3>1, <3>3
    <3>4. CASE 5 \in T /\ {6, 7} \cap T = {}
      BY <3>1, <3>4
    <3>5. CASE 4 \in T /\ {5, 6, 7} \cap T = {}
      BY <3>1, <3>5
    <3>6. CASE 3 \in T /\ {4, 5, 6, 7} \cap T = {}
      BY <3>1, <3>6
    <3>7. CASE 2 \in T /\ {3, 4, 5, 6, 7} \cap T = {}
      BY <3>1, <3>7
    <3>8. CASE 1 \in T /\ {2, 3, 4, 5, 6, 7} \cap T = {}
      BY <3>1, <3>8
    <3>9. CASE {1, 2, 3, 4, 5, 6, 7} \cap T = {}
      BY <1>1, <3>1, <3>9
    <3> QED BY <3>2, <3>3, <3>4, <3>5, <3>6, <3>7, <3>8, <3>9
  <2> QED BY <2>1 DEF Max
<1> QED BY <1>1 DEF NextLinkSetting

LEMMA QuietRetry == \A e \in Outcomes : Quiet(e, TryNextSetting(e))
<1> SUFFICES ASSUME NEW e \in Outcomes PROVE Quiet(e, TryNextSetting(e))
  OBVIOUS
<1> DEFINE d == Raise(e, {"establish_audio_connection"})
           r == TryNextSetting(e)
<1>1. Quiet(e, d) /\ d \in Outcomes
  BY QuietRaise, RaiseFacts DEF Flags
<1>2. NextSetting(e) \in LinkSettings \cup {NoSetting}
  BY LinkSettingFacts DEF NextSetting
<1> DEFINE codec == IF NextSetting(e) = NoSetting THEN CVSD
                                                  ELSE d.c.negotiated_codec
<1>3. r = [d EXCEPT !.c.link_setting = NextSetting(e),
                    !.c.negotiated_codec = codec]
  BY DEF TryNextSetting
<1>4. codec \in {NoCodec, CVSD, MSBC}
  BY <1>1 DEF Outcomes, Context
<1> HIDE DEF d, r, codec
<1>5. r \in Outcomes
  BY <1>1, <1>2, <1>3, <1>4 DEF Outcomes, Context
<1>6. /\ r.cmds = d.cmds /\ r.c.state = d.c.state /\ r.c.ok_pending = d.c.ok_pending
      /\ r.c.acl = d.c.acl /\ r.c.cid = d.c.cid /\ r.c.sco = d.c.sco
  BY <1>1, <1>3 DEF Outcomes, Context
<1>7. Quiet(d, r)
  BY <1>5, <1>6 DEF Quiet, Waits
<1> QED BY <1>1, <1>7, QuietThen DEF r

LEMMA QuietAudioFailed == \A e \in Outcomes : Quiet(e, AudioFailed(e))
<1> SUFFICES ASSUME NEW e \in Outcomes PROVE Quiet(e, AudioFailed(e))
  OBVIOUS
<1>1. Quiet(e, InState(e, SLC)) /\ InState(e, SLC) \in Outcomes
  BY SettledStates, QuietInState
<1>2. Quiet(InState(e, SLC), AudioFailed(e))
  BY <1>1, QuietLower DEF AudioFailed, Flags
<1> QED BY <1>1, <1>2, QuietThen

(* Lines of the gateway.  After an answer the unit waits for none.         *)
LEMMA QuietSlcEstablished ==
  \A e \in Outcomes :
    /\ Quiet(e, SlcEstablished(e)) /\ SlcEstablished(e).c.state = SLC
    /\ SlcEstablished(e).c.ok_pending = e.c.ok_pending
<1> SUFFICES ASSUME NEW e \in Outcomes
             PROVE  /\ Quiet(e, SlcEstablished(e)) /\ SlcEstablished(e).c.state = SLC
                    /\ SlcEstablished(e).c.ok_pending = e.c.ok_pending
  OBVIOUS
<1> DEFINE a == InState(e, SLC)
           b == Raise(a, {"send_speaker_gain", "send_microphone_gain"})
           r == SlcEstablished(e)
<1>1. Quiet(e, a) /\ a \in Outcomes /\ a.c.state = SLC
      /\ a.c.ok_pending = e.c.ok_pending
  BY SettledStates, StateFacts, QuietInState, InStateFacts
<1>2. Quiet(a, b) /\ b \in Outcomes /\ b.c.state = SLC
      /\ b.c.ok_pending = e.c.ok_pending
  <2>1. {"send_speaker_gain", "send_microphone_gain"} \in SUBSET Flags
    BY DEF Flags
  <2> HIDE DEF a
  <2> QED BY <1>1, <2>1, QuietRaise, RaiseFacts
<1>3. r = [b EXCEPT !.app.slc = TRUE]
  BY DEF SlcEstablished
<1> HIDE DEF a, b, r
<1>4. r \in Outcomes /\ r.c = b.c /\ r.cmds = b.cmds
  BY <1>2, <1>3 DEF Outcomes, Told
<1> QED BY <1>1, <1>2, <1>4, QuietThen DEF Quiet, r

LEMMA QuietCodecsState ==
  \A e \in Outcomes, s \in CodecsStates :
    /\ Quiet(e, [e EXCEPT !.c.codecs_state = s])
    /\ [e EXCEPT !.c.codecs_state = s].c.ok_pending = e.c.ok_pending
    /\ [e EXCEPT !.c.codecs_state = s].c.state = e.c.state
<1> SUFFICES ASSUME NEW e \in Outcomes, NEW s \in CodecsStates
             PROVE  LET r == [e EXCEPT !.c.codecs_state = s]
                    IN  /\ Quiet(e, r)
                        /\ r.c.ok_pending = e.c.ok_pending /\ r.c.state = e.c.state
  OBVIOUS
<1> DEFINE r == [e EXCEPT !.c.codecs_state = s]
<1>1. r \in Outcomes
  BY DEF Outcomes, Context
<1>2. /\ r.cmds = e.cmds /\ r.c.state = e.c.state /\ r.c.ok_pending = e.c.ok_pending
      /\ r.c.acl = e.c.acl /\ r.c.cid = e.c.cid /\ r.c.sco = e.c.sco
  BY DEF Outcomes, Context
<1> HIDE DEF r
<1>3. Quiet(e, r)
  BY <1>1, <1>2 DEF Quiet, Waits
<1> QED BY <1>2, <1>3 DEF r

LEMMA QuietAnswerAtSlc ==
  \A e \in Outcomes :
    /\ Quiet(e, AnswerAtSlc(e)) /\ AnswerAtSlc(e).c.state = e.c.state
    /\ AnswerAtSlc(e).c.ok_pending = e.c.ok_pending
<1> SUFFICES ASSUME NEW e \in Outcomes
             PROVE  /\ Quiet(e, AnswerAtSlc(e)) /\ AnswerAtSlc(e).c.state = e.c.state
                    /\ AnswerAtSlc(e).c.ok_pending = e.c.ok_pending
  OBVIOUS
<1>1. {"enable_status_update"} \in SUBSET Flags
      /\ "W4_AG_COMMON_CODEC" \in CodecsStates /\ "EXCHANGED" \in CodecsStates
  BY DEF Flags, CodecsStates
<1>2. \/ AnswerAtSlc(e) = Lower(e, {"enable_status_update"})
      \/ AnswerAtSlc(e) = [e EXCEPT !.c.codecs_state = "W4_AG_COMMON_CODEC"]
      \/ AnswerAtSlc(e) = [e EXCEPT !.c.codecs_state = "EXCHANGED"]
      \/ AnswerAtSlc(e) = e
  BY DEF AnswerAtSlc
<1>3. CASE AnswerAtSlc(e) = Lower(e, {"enable_status_update"})
  BY <1>1, <1>3, QuietLower, LowerFacts
<1>4. ASSUME NEW s \in CodecsStates, AnswerAtSlc(e) = [e EXCEPT !.c.codecs_state = s]
      PROVE  /\ Quiet(e, AnswerAtSlc(e)) /\ AnswerAtSlc(e).c.state = e.c.state
             /\ AnswerAtSlc(e).c.ok_pending = e.c.ok_pending
  BY <1>4, QuietCodecsState, Zenon
<1> QED BY <1>1, <1>2, <1>3, <1>4, QuietNothing

LEMMA QuietOk ==
  \A e \in Outcomes :
    Quiet(e, SwitchOnOkPending(e)) /\ ~ Waits(SwitchOnOkPending(e).c)
<1> SUFFICES ASSUME NEW e \in Outcomes
             PROVE  Quiet(e, SwitchOnOkPending(e)) /\ ~ Waits(SwitchOnOkPending(e).c)
  OBVIOUS
<1> DEFINE a == [e EXCEPT !.c.ok_pending = FALSE]
           next == AfterAnswer(e.c.state, e.c.features)
<1>1. a \in Outcomes
  BY DEF Outcomes, Context
<1>2. /\ a.cmds = e.cmds /\ a.c.state = e.c.state /\ ~ a.c.ok_pending
      /\ a.c.acl = e.c.acl /\ a.c.cid = e.c.cid /\ a.c.sco = e.c.sco
  BY DEF Outcomes, Context
<1>3. SwitchOnOkPending(e) =
        IF e.c.state \in ToBeAnswered
          THEN IF next = SLC THEN SlcEstablished(a) ELSE InState(a, next)
          ELSE IF e.c.state = SLC THEN AnswerAtSlc(a) ELSE a
  BY DEF SwitchOnOkPending
<1>4. e.c.features \in SUBSET FeatureNames
  BY DEF Outcomes, Context
<1> HIDE DEF a, next
<1>5. Quiet(e, a)
  BY <1>1, <1>2 DEF Quiet, Waits
<1>6. CASE e.c.state \in ToBeAnswered
  <2>1. next \in ToSend \cup {SLC}
    BY <1>4, <1>6, AfterAnswerFacts DEF next
  <2>2. CASE next = SLC
    <3>1. SwitchOnOkPending(e) = SlcEstablished(a)
      BY <1>3, <1>6, <2>2
    <3>2. Quiet(a, SlcEstablished(a)) /\ ~ Waits(SlcEstablished(a).c)
      BY <1>1, <1>2, QuietSlcEstablished, StateFacts DEF Waits
    <3> QED BY <1>5, <3>1, <3>2, QuietThen
  <2>3. CASE next # SLC
    <3>1. SwitchOnOkPending(e) = InState(a, next)
      BY <1>3, <1>6, <2>3
    <3>2. next \in ToSend /\ next \in Settled /\ next \in States
      BY <2>1, <2>3, SettledStates, StateFacts
    <3>3. Quiet(a, InState(a, next)) /\ ~ Waits(InState(a, next).c)
      <4>1. Quiet(a, InState(a, next))
        BY <1>1, <3>2, QuietInState
      <4>2. InState(a, next).c.state = next /\ ~ InState(a, next).c.ok_pending
        BY <1>1, <1>2, <3>2, InStateFacts
      <4> QED BY <3>2, <4>1, <4>2, StateFacts DEF Waits
    <3> QED BY <1>5, <3>1, <3>3, QuietThen
  <2> QED BY <2>2, <2>3
<1>7. CASE e.c.state \notin ToBeAnswered /\ e.c.state = SLC
  <2>1. SwitchOnOkPending(e) = AnswerAtSlc(a)
    BY <1>3, <1>7
  <2>2. Quiet(a, AnswerAtSlc(a)) /\ ~ Waits(AnswerAtSlc(a).c)
    BY <1>1, <1>2, <1>7, QuietAnswerAtSlc DEF Waits
  <2> QED BY <1>5, <2>1, <2>2, QuietThen
<1>8. CASE e.c.state \notin ToBeAnswered /\ e.c.state # SLC
  BY <1>2, <1>3, <1>5, <1>8 DEF Waits
<1> QED BY <1>6, <1>7, <1>8

LEMMA QuietError ==
  \A e \in Outcomes : Quiet(e, HandleError(e)) /\ ~ Waits(HandleError(e).c)
<1> SUFFICES ASSUME NEW e \in Outcomes
             PROVE  Quiet(e, HandleError(e)) /\ ~ Waits(HandleError(e).c)
  OBVIOUS
<1>1. CASE HandleError(e) = ResetContextFlags(e) /\ e.c.state = SLC
  BY <1>1, QuietReset, StateFacts DEF Waits
<1>2. CASE HandleError(e) = ResetContextFlags(SwitchOnOkPending(e))
  <2> DEFINE d == SwitchOnOkPending(e)
  <2>1. Quiet(e, d) /\ ~ Waits(d.c) /\ d \in Outcomes
    BY QuietOk DEF Quiet
  <2> HIDE DEF d
  <2>2. Quiet(d, ResetContextFlags(d)) /\ ~ Waits(ResetContextFlags(d).c)
    BY <2>1, QuietReset DEF Waits
  <2>3. HandleError(e) = ResetContextFlags(d)
    BY <1>2 DEF d
  <2> QED BY <2>1, <2>2, <2>3, QuietThen
<1> QED BY <1>1, <1>2 DEF HandleError

LEMMA QuietSuggested ==
  \A e \in Outcomes, codec \in Codecs : Quiet(e, HandleSuggestedCodec(e, codec))
<1> SUFFICES ASSUME NEW e \in Outcomes, NEW codec \in Codecs
             PROVE  Quiet(e, HandleSuggestedCodec(e, codec))
  OBVIOUS
<1>1. ASSUME NEW f \in Flags, NEW n \in Codecs, NEW s \in CodecsStates
      PROVE  Quiet(e, [Raise(e, {f}) EXCEPT !.c.negotiated_codec = n,
                                            !.c.codec_confirmed = n,
                                            !.c.codecs_state = s])
  <2> DEFINE d == Raise(e, {f})
             r == [d EXCEPT !.c.negotiated_codec = n, !.c.codec_confirmed = n,
                            !.c.codecs_state = s]
  <2>1. d \in Outcomes /\ Quiet(e, d)
    BY QuietRaise, RaiseFacts
  <2> HIDE DEF d
  <2>2. r \in Outcomes
    BY <2>1 DEF Outcomes, Context, Codecs
  <2>3. /\ r.cmds = d.cmds /\ r.c.state = d.c.state
        /\ r.c.ok_pending = d.c.ok_pending
        /\ r.c.acl = d.c.acl /\ r.c.cid = d.c.cid /\ r.c.sco = d.c.sco
    BY <2>1 DEF Outcomes, Context
  <2> HIDE DEF r
  <2>4. Quiet(d, r)
    BY <2>2, <2>3 DEF Quiet, Waits
  <2> QED BY <2>1, <2>4, QuietThen DEF r, d
<1>2. /\ "hf_send_codec_confirm" \in Flags /\ "hf_send_supported_codecs" \in Flags
      /\ "HF_CONFIRMED_CODEC" \in CodecsStates
      /\ "W4_AG_COMMON_CODEC" \in CodecsStates /\ NoCodec \in Codecs
  BY DEF Flags, CodecsStates, Codecs
<1>3. CASE codec \in HfCodecs
  BY <1>1, <1>2, <1>3, Zenon DEF HandleSuggestedCodec
<1>4. CASE codec \notin HfCodecs
  BY <1>1, <1>2, <1>4, Zenon DEF HandleSuggestedCodec
<1> QED BY <1>3, <1>4

LEMMA QuietFeatures ==
  \A e \in Outcomes, f \in SUBSET FeatureNames :
    Quiet(e, [e EXCEPT !.c.features = f])
<1> SUFFICES ASSUME NEW e \in Outcomes, NEW f \in SUBSET FeatureNames
             PROVE  Quiet(e, [e EXCEPT !.c.features = f])
  OBVIOUS
<1> DEFINE r == [e EXCEPT !.c.features = f]
<1>1. r \in Outcomes
  BY DEF Outcomes, Context
<1>2. /\ r.cmds = e.cmds /\ r.c.state = e.c.state /\ r.c.ok_pending = e.c.ok_pending
      /\ r.c.acl = e.c.acl /\ r.c.cid = e.c.cid /\ r.c.sco = e.c.sco
  BY DEF Outcomes, Context
<1> HIDE DEF r
<1>3. Quiet(e, r)
  BY <1>1, <1>2 DEF Quiet, Waits
<1> QED BY <1>3 DEF r

(* Calls of the application. *)
LEMMA QuietEstablish == \A e \in Outcomes : Quiet(e, EstablishAudio(e))
<1> SUFFICES ASSUME NEW e \in Outcomes PROVE Quiet(e, EstablishAudio(e))
  OBVIOUS
<1> DEFINE d == Raise(e, {"trigger_codec_exchange"})
           a == InState(e, "W4_SCO_CONNECTED")
           b == Raise(a, {"establish_audio_connection"})
           setting == NextLinkSetting(NoSetting, CVSD, "s4" \in e.c.features)
           fresh == [d EXCEPT !.c.codec_confirmed = NoCodec,
                              !.c.negotiated_codec = NoCodec,
                              !.c.codecs_state = "RECEIVED_TRIGGER_CODEC_EXCHANGE"]
           direct == [b EXCEPT !.c.codecs_state = "EXCHANGED",
                               !.c.codec_confirmed = CVSD,
                               !.c.negotiated_codec = CVSD,
                               !.c.link_setting = setting]
<1>1. EstablishAudio(e) \in {e, d, fresh, direct}
  BY DEF EstablishAudio
<1>2. d \in Outcomes /\ Quiet(e, d)
  BY QuietRaise, RaiseFacts DEF Flags
<1>3. b \in Outcomes /\ Quiet(e, b)
  <2>1. a \in Outcomes /\ Quiet(e, a)
    BY SettledStates, QuietInState
  <2>2. b \in Outcomes /\ Quiet(a, b)
    BY <2>1, QuietRaise, RaiseFacts DEF Flags
  <2> QED BY <2>1, <2>2, QuietThen
<1>4. setting \in LinkSettings \cup {NoSetting}
  BY LinkSettingFacts
<1>5. "RECEIVED_TRIGGER_CODEC_EXCHANGE" \in CodecsStates /\ "EXCHANGED" \in CodecsStates
  BY DEF CodecsStates
<1> HIDE DEF a, b, d, setting
<1>6. Quiet(e, fresh)
  <2>1. fresh \in Outcomes
    BY <1>2, <1>5 DEF Outcomes, Context
  <2>2. /\ fresh.cmds = d.cmds /\ fresh.c.state = d.c.state
        /\ fresh.c.ok_pending = d.c.ok_pending /\ fresh.c.acl = d.c.acl
        /\ fresh.c.cid = d.c.cid /\ fresh.c.sco = d.c.sco
    BY <1>2 DEF Outcomes, Context
  <2> HIDE DEF fresh
  <2>3. Quiet(d, fresh)
    BY <2>1, <2>2 DEF Quiet, Waits
  <2> QED BY <1>2, <2>3, QuietThen
<1>7. Quiet(e, direct)
  <2>1. direct \in Outcomes
    BY <1>3, <1>4, <1>5 DEF Outcomes, Context
  <2>2. /\ direct.cmds = b.cmds /\ direct.c.state = b.c.state
        /\ direct.c.ok_pending = b.c.ok_pending /\ direct.c.acl = b.c.acl
        /\ direct.c.cid = b.c.cid /\ direct.c.sco = b.c.sco
    BY <1>3 DEF Outcomes, Context
  <2> HIDE DEF direct
  <2>3. Quiet(b, direct)
    BY <2>1, <2>2 DEF Quiet, Waits
  <2> QED BY <1>3, <2>3, QuietThen
<1> HIDE DEF fresh, direct
<1> QED BY <1>1, <1>2, <1>6, <1>7, QuietNothing

LEMMA QuietReleaseAudio == \A e \in Outcomes : Quiet(e, TriggerReleaseAudio(e))
BY QuietRaise, QuietNothing DEF TriggerReleaseAudio, Flags

LEMMA QuietReleaseSlc == \A e \in Outcomes : Quiet(e, TriggerReleaseSlc(e))
<1> SUFFICES ASSUME NEW e \in Outcomes PROVE Quiet(e, TriggerReleaseSlc(e))
  OBVIOUS
<1> DEFINE r == TriggerReleaseAudio(e)
           s == Raise(r, {"release_slc_connection"})
<1>1. r \in Outcomes /\ Quiet(e, r) /\ r.c.state = e.c.state
  <2>1. r \in Outcomes /\ Quiet(e, r)
    BY QuietReleaseAudio DEF Quiet
  <2>2. r.c.state = e.c.state
    BY RaiseFacts DEF TriggerReleaseAudio, Flags
  <2> QED BY <2>1, <2>2
<1>2. s \in Outcomes /\ Quiet(r, s)
  BY <1>1, QuietRaise, RaiseFacts DEF Flags
<1>3. \/ TriggerReleaseSlc(e) = InState(r, "IDLE") /\ e.c.state \in Searching
      \/ TriggerReleaseSlc(e) = InState(r, "W4_CONNECTION_ESTABLISHED_TO_SHUTDOWN")
      \/ TriggerReleaseSlc(e) = InState(s, "W2_DISCONNECT_RFCOMM")
      \/ TriggerReleaseSlc(e)
           = Raise(InState(s, "W2_DISCONNECT_SCO"), {"release_audio_connection"})
      \/ TriggerReleaseSlc(e) = s
  BY DEF TriggerReleaseSlc
<1> HIDE DEF r, s
<1>4. CASE TriggerReleaseSlc(e) = InState(r, "IDLE") /\ e.c.state \in Searching
  <2>1. "IDLE" \in Searching /\ "IDLE" \in States
    BY StateFacts DEF Searching
  <2>2. /\ InState(r, "IDLE") \in Outcomes /\ SameLinks(r, InState(r, "IDLE"))
        /\ InState(r, "IDLE").c.state = "IDLE"
        /\ InState(r, "IDLE").c.ok_pending = r.c.ok_pending
    BY <1>1, <2>1, InStateFacts
  <2>3. "IDLE" \notin ToBeAnswered
    BY <2>1, StateFacts
  <2>4. Quiet(r, InState(r, "IDLE"))
    BY <1>1, <1>4, <2>2, <2>3 DEF Quiet, Waits, SameLinks
  <2> QED BY <1>1, <1>4, <2>4, QuietThen
<1>5. CASE TriggerReleaseSlc(e) = InState(r, "W4_CONNECTION_ESTABLISHED_TO_SHUTDOWN")
  <2>1. Quiet(r, InState(r, "W4_CONNECTION_ESTABLISHED_TO_SHUTDOWN"))
    BY <1>1, SettledStates, QuietInState
  <2> QED BY <1>1, <1>5, <2>1, QuietThen
<1>6. CASE TriggerReleaseSlc(e) = InState(s, "W2_DISCONNECT_RFCOMM")
  <2>1. Quiet(s, InState(s, "W2_DISCONNECT_RFCOMM"))
    BY <1>2, SettledStates, QuietInState
  <2> QED BY <1>1, <1>2, <1>6, <2>1, QuietThen
<1>7. CASE TriggerReleaseSlc(e)
             = Raise(InState(s, "W2_DISCONNECT_SCO"), {"release_audio_connection"})
  <2> DEFINE f == InState(s, "W2_DISCONNECT_SCO")
  <2>1. Quiet(s, f) /\ f \in Outcomes
    BY <1>2, SettledStates, QuietInState
  <2> HIDE DEF f
  <2>2. Quiet(f, Raise(f, {"release_audio_connection"}))
    BY <2>1, QuietRaise DEF Flags
  <2> QED BY <1>1, <1>2, <1>7, <2>1, <2>2, QuietThen DEF f
<1>8. CASE TriggerReleaseSlc(e) = s
  BY <1>1, <1>2, <1>8, QuietThen
<1> QED BY <1>3, <1>4, <1>5, <1>6, <1>7, <1>8

-----------------------------------------------------------------------------
(* What a run of the context does once the channel is there: it begins to  *)
(* wait for an answer only with a command, takes no connection for open,   *)
(* and keeps the channel unless the context is freed.                      *)
Ran(e, r) ==
  /\ r \in Outcomes
  /\ r.c.sco => e.c.sco
  /\ r.c.acl => e.c.acl
  /\ r.c.cid => e.c.cid
  /\ r.c.cid \/ r.c = NoContext
  /\ Waits(r.c) => Waits(e.c) \/ r.cmds # <<>>
  /\ e.cmds # <<>> => r.cmds # <<>>
  /\ r.c.cid /\ r.c.state \in Searching => e.c.state \in Searching

LEMMA QuietRan ==
  \A e, r : Quiet(e, r) /\ (r.c.cid \/ r.c = NoContext) => Ran(e, r)
BY DEF Quiet, Ran

LEMMA RanThen == \A e, d, r : Ran(e, d) /\ Ran(d, r) => Ran(e, r)
BY DEF Ran

(* Outcomes whose context has its channel. *)
Open == {e \in Outcomes : e.c.cid}

LEMMA OpenFacts ==
  /\ \A e \in Open, fs \in SUBSET Flags :
       Lower(e, fs) \in Open /\ Ran(e, Lower(e, fs)) /\ Quiet(e, Lower(e, fs))
  /\ \A e \in Open, s \in Settled :
       InState(e, s) \in Open /\ Ran(e, InState(e, s)) /\ Quiet(e, InState(e, s))
  /\ \A e \in Open, what \in Asked :
       Ask(e, what) \in Open /\ Ran(e, Ask(e, what)) /\ Quiet(e, Ask(e, what))
  /\ \A e \in Open : Ran(e, e)
<1>1. \A e \in Open, fs \in SUBSET Flags :
        Lower(e, fs) \in Open /\ Quiet(e, Lower(e, fs))
  BY LowerFacts, QuietLower DEF Open, SameLinks
<1>2. \A e \in Open, s \in Settled :
        InState(e, s) \in Open /\ Quiet(e, InState(e, s))
  BY InStateFacts, QuietInState DEF Open, SameLinks, Settled
<1>3. \A e \in Open, what \in Asked :
        Ask(e, what) \in Open /\ Quiet(e, Ask(e, what))
  BY AskFacts, QuietAsk DEF Open
<1> QED BY <1>1, <1>2, <1>3, QuietNothing, QuietRan DEF Open

LEMMA RanSending ==
  \A e \in Open, command \in CommandNames, codec \in Codecs :
    Ran(e, Send(e, command, codec)) /\ Ran(e, SendAndWait(e, command, codec))
BY SendFacts, SendAndWaitFacts DEF Ran, Open

LEMMA RanService ==
  \A e \in Open : SlcHasWork(e) => Ran(e, RunServiceLevelConnection(e))
<1> SUFFICES ASSUME NEW e \in Open, SlcHasWork(e)
             PROVE  Ran(e, RunServiceLevelConnection(e))
  OBVIOUS
<1> DEFINE w == SlcWait[e.c.state]
           x == SlcCommand[e.c.state]
           a == InState(e, w)
<1>1. /\ w \in ToBeAnswered /\ w \in States /\ w \notin Searching
      /\ x \in CommandNames /\ NoCodec \in Codecs
  BY StateFacts DEF SlcHasWork, Codecs
<1>2. RunServiceLevelConnection(e) = Send(a, x, NoCodec)
  BY DEF RunServiceLevelConnection
<1> HIDE DEF w, x
<1>3. a \in Outcomes /\ SameLinks(e, a) /\ a.c.state = w
  BY <1>1, InStateFacts DEF Open
<1> HIDE DEF a
<1>4. /\ Send(a, x, NoCodec) \in Outcomes /\ Send(a, x, NoCodec).c = a.c
      /\ Send(a, x, NoCodec).cmds # <<>>
  BY <1>1, <1>3, SendFacts
<1> QED BY <1>1, <1>2, <1>3, <1>4 DEF Ran, SameLinks, Open

LEMMA RanCodecs == \A e \in Open : Ran(e, RunCodecs(e))
<1> SUFFICES ASSUME NEW e \in Open PROVE Ran(e, RunCodecs(e))
  OBVIOUS
<1>1. ASSUME NEW f \in Flags, NEW command \in CommandNames, NEW codec \in Codecs
      PROVE  Ran(e, SendAndWait(Lower(e, {f}), command, codec))
  <2>1. Ran(e, Lower(e, {f})) /\ Lower(e, {f}) \in Open
    BY OpenFacts
  <2>2. Ran(Lower(e, {f}), SendAndWait(Lower(e, {f}), command, codec))
    BY <2>1, RanSending
  <2> QED BY <2>1, <2>2, RanThen
<1>2. /\ {"trigger_codec_exchange", "hf_send_codec_confirm",
          "hf_send_supported_codecs"} \subseteq Flags
      /\ {"BCC", "BCS", "BAC"} \subseteq CommandNames
      /\ NoCodec \in Codecs /\ e.c.codec_confirmed \in Codecs
  BY DEF Flags, CommandNames, Codecs, Outcomes, Context, Open
<1>3. \/ RunCodecs(e) = SendAndWait(Lower(e, {"trigger_codec_exchange"}), "BCC", NoCodec)
      \/ RunCodecs(e) = SendAndWait(Lower(e, {"hf_send_codec_confirm"}), "BCS",
                                    e.c.codec_confirmed)
      \/ RunCodecs(e) = SendAndWait(Lower(e, {"hf_send_supported_codecs"}), "BAC",
                                    NoCodec)
  BY DEF RunCodecs
<1> QED BY <1>1, <1>2, <1>3

LEMMA RanRelease == \A e \in Open : Ran(e, ReleaseAudio(e))
<1> SUFFICES ASSUME NEW e \in Open PROVE Ran(e, ReleaseAudio(e))
  OBVIOUS
<1> DEFINE a == InState(e, "W4_SCO_DISCONNECTED")
           r == Lower(a, {"release_audio_connection"})
           d == ScoDisconnected(r)
<1>1. a \in Open /\ Ran(e, a)
  BY SettledStates, OpenFacts
<1>2. r \in Open /\ Ran(a, r)
  <2> HIDE DEF a
  <2> QED BY <1>1, OpenFacts DEF Flags
<1>3. ReleaseAudio(e) = IF e.c.sco THEN Ask(r, "disconnect sco") ELSE Ask(d, "run")
  BY DEF ReleaseAudio
<1> HIDE DEF r, a
<1>4. d \in Outcomes /\ Quiet(r, d) /\ (d.c.cid \/ d.c = NoContext)
  BY <1>2, QuietScoDisconnected DEF Quiet, Open
<1> HIDE DEF d
<1>5. Ran(r, Ask(r, "disconnect sco"))
  BY <1>2, OpenFacts DEF Asked
<1>6. Ran(d, Ask(d, "run"))
  BY <1>4, QuietAsk, AskFacts, QuietRan DEF Asked
<1>7. Ran(r, d)
  BY <1>4, QuietRan
<1> QED BY <1>1, <1>2, <1>3, <1>5, <1>6, <1>7, RanThen

LEMMA RanAudio == \A e \in Open : Ran(e, RunAudio(e))
<1> SUFFICES ASSUME NEW e \in Open PROVE Ran(e, RunAudio(e))
  OBVIOUS
<1> DEFINE a == InState(e, "W4_SCO_CONNECTED")
           r == Lower(a, {"establish_audio_connection"})
<1>1. a \in Open /\ Ran(e, a)
  BY SettledStates, OpenFacts
<1>2. r \in Open /\ Ran(a, r)
  <2> HIDE DEF a
  <2> QED BY <1>1, OpenFacts DEF Flags
<1>3. RunAudio(e) \in {ReleaseAudio(e), RunCodecs(e), Ask(r, "setup")}
  BY DEF RunAudio
<1> HIDE DEF r, a
<1>4. Ran(r, Ask(r, "setup"))
  BY <1>2, OpenFacts DEF Asked
<1>5. Ran(e, Ask(r, "setup"))
  BY <1>1, <1>2, <1>4, RanThen
<1> QED BY <1>3, <1>5, RanRelease, RanCodecs

LEMMA RanMachines == \A e \in Open : Ran(e, RunMachines(e))
<1> SUFFICES ASSUME NEW e \in Open PROVE Ran(e, RunMachines(e))
  OBVIOUS
<1>1. CASE SlcHasWork(e)
  BY <1>1, RanService DEF RunMachines
<1>2. Ran(e, RunQueries(e))
  BY RanSending DEF RunQueries, CommandNames, Codecs
<1>3. Ran(e, RunCallSetup(e))
  <2> DEFINE d == Lower(e, {"hf_answer_incoming_call"})
  <2>1. d \in Open /\ Ran(e, d)
    BY OpenFacts DEF Flags
  <2> HIDE DEF d
  <2>2. Ran(d, Send(d, "ATA", NoCodec))
    BY <2>1, RanSending DEF CommandNames, Codecs
  <2> QED BY <2>1, <2>2, RanThen DEF RunCallSetup, d
<1>4. Ran(e, e)
  BY OpenFacts
<1>5. CASE ~ SlcHasWork(e)
  <2>1. RunMachines(e) \in {RunQueries(e), RunAudio(e), RunCallSetup(e), e}
    BY <1>5 DEF RunMachines
  <2> QED BY <1>2, <1>3, <1>4, <2>1, RanAudio
<1> QED BY <1>1, <1>5

(* A context that was freed is not run any further. *)
LEMMA FreedIsNotRun ==
  \A e \in Outcomes :
    e.c = NoContext => RunMachines(e) = e /\ RunAfterMachines(e, e) = e
<1> SUFFICES ASSUME NEW e \in Outcomes, e.c = NoContext
             PROVE  RunMachines(e) = e /\ RunAfterMachines(e, e) = e
  OBVIOUS
<1>1. e.c.state = "NONE" /\ e.c.flags = {}
  BY NoContextFacts DEF NoContext, NewContext
<1>2. "NONE" \notin ToSend \cup {SLC, "W4_SCO_CONNECTED", AUDIO, "W2_DISCONNECT_SCO"}
  BY StateFacts, SettledStates DEF Settled
<1>3. /\ ~ SlcHasWork(e) /\ ~ QueriesHaveWork(e) /\ ~ AudioHasWork(e)
      /\ ~ CallSetupHasWork(e)
  BY <1>1, <1>2 DEF SlcHasWork, QueriesHaveWork, AudioHasWork, CallSetupHasWork,
                    Raised
<1>4. RunMachines(e) = e
  BY <1>3 DEF RunMachines
<1>5. RunAfterMachines(e, e) = e
  BY <1>1 DEF RunAfterMachines
<1> QED BY <1>4, <1>5

LEMMA FirstAsked ==
  \A e : CommandsAsked(e) # {} =>
    Commands[Min(CommandsAsked(e))]
      \in {"send_microphone_gain", "send_speaker_gain", "hf_send_chup",
           "hf_send_cnum"}
<1> SUFFICES ASSUME NEW T, T \subseteq 1 .. 4, T # {}
             PROVE  Min(T) \in 1 .. 4
  BY DEF CommandsAsked, Commands
<1>1. \E x \in T : \A y \in T : x <= y
  <2>1. CASE 1 \in T
    BY <2>1
  <2>2. CASE 2 \in T /\ 1 \notin T
    BY <2>2
  <2>3. CASE 3 \in T /\ {1, 2} \cap T = {}
    BY <2>3
  <2>4. CASE {1, 2, 3} \cap T = {}
    <3>1. PICK x \in T : TRUE
      OBVIOUS
    <3>2. \A y \in T : y \in 1 .. 4 /\ y # 1 /\ y # 2 /\ y # 3
      BY <2>4
    <3> QED BY <3>1, <3>2
  <2> QED BY <2>1, <2>2, <2>3, <2>4
<1> QED BY <1>1 DEF Min

LEMMA RanCommands ==
  \A e \in Open : CommandsAsked(e) # {} => Ran(e, RunCommands(e))
<1> SUFFICES ASSUME NEW e \in Open, CommandsAsked(e) # {}
             PROVE  Ran(e, RunCommands(e))
  OBVIOUS
<1> DEFINE flag == Commands[Min(CommandsAsked(e))]
           d == Lower(e, {flag})
<1>1. flag \in {"send_microphone_gain", "send_speaker_gain", "hf_send_chup",
                "hf_send_cnum"}
  BY FirstAsked
<1>2. RunCommands(e) = IF flag = "hf_send_cnum" THEN Send(d, "CNUM", NoCodec)
                       ELSE SendAndWait(d, CommandOf[flag], NoCodec)
  BY DEF RunCommands
<1> HIDE DEF flag
<1>3. d \in Open /\ Ran(e, d)
  <2>1. {flag} \in SUBSET Flags
    BY <1>1 DEF Flags
  <2> QED BY <2>1, OpenFacts
<1> HIDE DEF d
<1>4. flag # "hf_send_cnum" => CommandOf[flag] \in CommandNames
  BY <1>1 DEF CommandOf, CommandNames
<1>5. "CNUM" \in CommandNames /\ NoCodec \in Codecs
  BY DEF CommandNames, Codecs
<1>6. Ran(d, RunCommands(e))
  BY <1>2, <1>3, <1>4, <1>5, RanSending
<1> QED BY <1>3, <1>6, RanThen

LEMMA RanAfterMachines ==
  \A e \in Open, done \in Outcomes :
    Ran(e, done) => Ran(e, RunAfterMachines(e, done))
<1> SUFFICES ASSUME NEW e \in Open, NEW done \in Outcomes, Ran(e, done)
             PROVE  Ran(e, RunAfterMachines(e, done))
  OBVIOUS
<1> DEFINE a == InState(e, "W4_RFCOMM_DISCONNECTED")
           b == Ask(a, "disconnect rfcomm")
<1>1. a \in Open /\ Ran(e, a)
  BY SettledStates, OpenFacts
<1>2. Ran(a, b)
  <2> HIDE DEF a
  <2> QED BY <1>1, OpenFacts DEF Asked
<1>3. Ran(e, b)
  BY <1>1, <1>2, RanThen
<1>4. \/ RunAfterMachines(e, done) = done
      \/ /\ done.c.state # "NONE" /\ CommandsAsked(done) # {}
         /\ RunAfterMachines(e, done) = RunCommands(done)
      \/ RunAfterMachines(e, done) = b
  BY DEF RunAfterMachines
<1> HIDE DEF b
<1>5. CASE /\ done.c.state # "NONE" /\ CommandsAsked(done) # {}
           /\ RunAfterMachines(e, done) = RunCommands(done)
  <2>1. done \in Open
    BY <1>5, NoContextFacts DEF Ran, Open
  <2> QED BY <1>5, <2>1, RanCommands, RanThen
<1> QED BY <1>3, <1>4, <1>5

LEMMA RanOnce == \A e \in Open : Ran(e, RunOnce(e))
<1> SUFFICES ASSUME NEW e \in Open PROVE Ran(e, RunOnce(e))
  OBVIOUS
<1> DEFINE done == RunMachines(e)
           inside == [done EXCEPT !.asks = @ \ {"run"}]
           second == RunMachines(inside)
           nested == RunAfterMachines(inside, second)
<1>1. done \in Outcomes /\ Ran(e, done)
  BY RanMachines DEF Ran
<1>2. RunOnce(e) = RunAfterMachines(e, IF "run" \in done.asks THEN nested ELSE done)
  BY DEF RunOnce
<1> HIDE DEF done
<1>3. inside \in Outcomes /\ inside.c = done.c /\ inside.cmds = done.cmds
  BY <1>1 DEF Outcomes
<1>4. Ran(done, inside) /\ (inside \in Open \/ inside.c = NoContext)
  BY <1>1, <1>3 DEF Ran, Open
<1> HIDE DEF inside
<1>5. CASE inside \in Open
  <2>1. second \in Outcomes /\ Ran(inside, second)
    BY <1>5, RanMachines DEF Ran
  <2> HIDE DEF second
  <2>2. Ran(inside, nested)
    BY <1>5, <2>1, RanAfterMachines
  <2> HIDE DEF nested
  <2>3. nested \in Outcomes /\ Ran(e, nested)
    BY <1>1, <1>4, <2>2, RanThen DEF Ran
  <2> QED BY <1>1, <1>2, <2>3, RanAfterMachines
<1>6. CASE inside.c = NoContext
  <2>1. nested = inside
    BY <1>3, <1>6, FreedIsNotRun
  <2> HIDE DEF second, nested
  <2>2. nested \in Outcomes /\ Ran(e, nested)
    BY <1>1, <1>3, <1>4, <2>1, RanThen
  <2> QED BY <1>1, <1>2, <2>2, RanAfterMachines
<1> QED BY <1>4, <1>5, <1>6

LEMMA RunFacts ==
  \A e \in Outcomes : \A room :
    /\ e.c.cid => Ran(e, Run(e, room))
    /\ ~ e.c.cid => Run(e, room) = e
    /\ room \in {"none", "hci"} => Quiet(e, Run(e, room))
<1> SUFFICES ASSUME NEW e \in Outcomes, NEW room
             PROVE  /\ e.c.cid => Ran(e, Run(e, room))
                    /\ ~ e.c.cid => Run(e, room) = e
                    /\ room \in {"none", "hci"} => Quiet(e, Run(e, room))
  OBVIOUS
<1> DEFINE a == Lower(e, {"accept_sco"})
           codec == IF a.c.negotiated_codec = NoCodec THEN CVSD
                                                     ELSE a.c.negotiated_codec
           b == [a EXCEPT !.c.negotiated_codec = codec]
           r == Ask(b, "accept")
<1>1. Quiet(e, r) /\ r.c.cid = e.c.cid
  <2>1. a \in Outcomes /\ Quiet(e, a) /\ a.c.cid = e.c.cid
    <3>1. {"accept_sco"} \in SUBSET Flags
      BY DEF Flags
    <3> QED BY <3>1, QuietLower, LowerFacts DEF SameLinks
  <2> HIDE DEF a
  <2>2. codec \in {NoCodec, CVSD, MSBC}
    BY <2>1 DEF Outcomes, Context
  <2> HIDE DEF codec
  <2>3. b \in Outcomes
    BY <2>1, <2>2 DEF Outcomes, Context
  <2>4. /\ b.cmds = a.cmds /\ b.c.state = a.c.state /\ b.c.ok_pending = a.c.ok_pending
        /\ b.c.acl = a.c.acl /\ b.c.cid = a.c.cid /\ b.c.sco = a.c.sco
    BY <2>1 DEF Outcomes, Context
  <2> HIDE DEF b
  <2>5. Quiet(a, b)
    BY <2>3, <2>4 DEF Quiet, Waits
  <2>6. Quiet(b, r) /\ r.c.cid = b.c.cid
    BY <2>3, QuietAsk, AskFacts DEF Asked
  <2> QED BY <2>1, <2>4, <2>5, <2>6, QuietThen
<1>2. Run(e, room) =
        IF e.c.state = "NONE" \/ ~ e.c.cid \/ room = "none" THEN e
        ELSE IF Raised(e, "accept_sco") THEN r
        ELSE IF room = "hci" THEN e ELSE RunOnce(e)
  BY DEF Run
<1> HIDE DEF r
<1>3. Quiet(e, e) /\ (e.c.cid => Ran(e, e) /\ Ran(e, r) /\ Ran(e, RunOnce(e)))
  BY <1>1, QuietNothing, QuietRan, RanOnce DEF Open
<1> QED BY <1>1, <1>2, <1>3

-----------------------------------------------------------------------------
(* The invariant.                                                          *)

Channels ==
  [st : {"closed", "opening", "open", "closing"},
   toAG : Seq(ToGateway), toHF : Seq(ToUnit)]
Links ==
  [st : {"none", "requested", "offered", "connecting", "up", "closing"},
   ag : Codecs, hf : Codecs]
Gateways ==
  [features : SUBSET FeatureNames, slc : BOOLEAN, asked : Codecs, codec : Codecs]
Attempts == {"none", "live", "dangling"}
Around ==
  [channel : Channels, link : Links, setup : Codecs, active : Attempts]

Typed ==
  /\ hfp \in Context /\ scoActive \in Attempts /\ app \in Told
  /\ sdp \in {"idle", "registered", "querying", "asked_again"}
  /\ channel \in Channels /\ link \in Links /\ ag \in Gateways
  /\ setup \in Codecs

(* An answer is on its way, or the command it is given to. *)
Coming(ch) ==
  \/ ch.toAG # <<>>
  \/ \E i \in DOMAIN ch.toHF : ch.toHF[i][1] \in {"OK", "ERROR"}

(* A context that waits or has the handle of the connection has a channel, *)
(* one with a channel is past the search for it, waits for nothing before  *)
(* the channel is open and for nothing but what is on its way.  While SDP  *)
(* is asked there is no channel.                                           *)
ChannelSound ==
  /\ hfp.acl => hfp.cid
  /\ Waits(hfp) => hfp.cid
  /\ hfp.cid => hfp.state \notin Searching
  /\ channel.st = "opening" => ~ Waits(hfp)
  /\ channel.st = "open" /\ Waits(hfp) => Coming(channel)
QuerySound ==
  sdp \in {"querying", "asked_again"} => ~ hfp.cid /\ hfp.state # "W4_RFCOMM_CONNECTED"

Inv == Typed /\ HandleIsLive /\ ChannelSound /\ QuerySound

(* What a handler may leave to the run of the context. *)
Ready(e, s) ==
  /\ e \in Outcomes /\ s \in Around /\ e.cmds = <<>>
  /\ e.c.sco => s.link.st \in {"up", "closing"}
  /\ e.c.acl => e.c.cid
  /\ Waits(e.c) => e.c.cid
  /\ e.c.cid => e.c.state \notin Searching
  /\ s.channel.st = "opening" => ~ Waits(e.c)
  /\ s.channel.st = "open" /\ Waits(e.c) => Coming(s.channel)

LEMMA LinkAfterFacts ==
  \A l \in Links, r \in Outcomes :
    /\ LinkAfter(l, r) \in Links
    /\ l.st \in {"up", "closing"} => LinkAfter(l, r).st \in {"up", "closing"}
<1> SUFFICES ASSUME NEW l \in Links, NEW r \in Outcomes
             PROVE  /\ LinkAfter(l, r) \in Links
                    /\ l.st \in {"up", "closing"}
                         => LinkAfter(l, r).st \in {"up", "closing"}
  OBVIOUS
<1>1. AirCodec(r.c) \in Codecs
  BY DEF AirCodec, Codecs
<1>2. \/ /\ l.st = "offered"
         /\ LinkAfter(l, r) = [l EXCEPT !.st = "connecting", !.hf = AirCodec(r.c)]
      \/ l.st = "up" /\ LinkAfter(l, r) = [l EXCEPT !.st = "closing"]
      \/ LinkAfter(l, r) = l
  BY DEF LinkAfter
<1> QED BY <1>1, <1>2 DEF Links

(* What a run sends follows the lines on their way. *)
LEMMA SentFacts ==
  \A sent, cmds \in Seq(ToGateway) :
    /\ sent \o cmds \in Seq(ToGateway)
    /\ sent # <<>> \/ cmds # <<>> => sent \o cmds # <<>>
BY ConcatProperties, ConcatEmptySeq, EmptySeq, LenProperties

(* A handler that leaves the context ready, and the run after it, keep the *)
(* invariant.                                                              *)
LEMMA HandleKeeps ==
  ASSUME NEW e, NEW s, Ready(e, s), Handle(e, s),
         sdp' \in {"idle", "registered", "querying", "asked_again"}, ag' \in Gateways,
         sdp' \in {"querying", "asked_again"} => ~ e.c.cid /\ e.c.state # "W4_RFCOMM_CONNECTED"
  PROVE  Inv'
<1>1. PICK room \in {"none", IF s.channel.st = "open" THEN "all" ELSE "hci"} :
        \E r \in {Run(e, room)} :
          /\ hfp' = r.c /\ app' = r.app
          /\ channel' = [s.channel EXCEPT
               !.toAG = @ \o r.cmds,
               !.st = IF "disconnect rfcomm" \in r.asks THEN "closing" ELSE @]
          /\ link' = LinkAfter(s.link, r)
          /\ setup' = IF "setup" \in r.asks THEN AirCodec(r.c) ELSE s.setup
          /\ scoActive' = IF "setup" \in r.asks THEN "live"
                          ELSE IF r.c.state = "NONE" /\ s.active = "live"
                            THEN "dangling" ELSE s.active
  BY DEF Handle
<1> DEFINE r == Run(e, room)
           st == IF "disconnect rfcomm" \in r.asks THEN "closing" ELSE s.channel.st
<1>2. /\ hfp' = r.c /\ app' = r.app
      /\ channel' = [s.channel EXCEPT !.toAG = @ \o r.cmds, !.st = st]
      /\ link' = LinkAfter(s.link, r)
      /\ setup' = IF "setup" \in r.asks THEN AirCodec(r.c) ELSE s.setup
      /\ scoActive' = IF "setup" \in r.asks THEN "live"
                      ELSE IF r.c.state = "NONE" /\ s.active = "live"
                        THEN "dangling" ELSE s.active
  BY <1>1
<1>3. /\ e.c.cid => Ran(e, r)
      /\ ~ e.c.cid => r = e
      /\ s.channel.st # "open" => Quiet(e, r)
  BY <1>1, RunFacts DEF Ready
<1> HIDE DEF r
<1>4. r \in Outcomes /\ e \in Outcomes
  BY <1>3 DEF Ran, Ready
<1>5. /\ s.channel \in Channels /\ s.link \in Links /\ s.setup \in Codecs
      /\ s.active \in Attempts
  BY DEF Ready, Around
<1>6. st \in {"closed", "opening", "open", "closing"}
      /\ (st \in {"opening", "open"} => st = s.channel.st)
  BY <1>5 DEF Channels
<1> HIDE DEF st
<1>7. r.c \in Context /\ r.app \in Told /\ r.cmds \in Seq(ToGateway)
  BY <1>4 DEF Outcomes
<1>8. /\ channel' \in Channels /\ channel'.st = st
      /\ Coming(s.channel) \/ r.cmds # <<>> => Coming(channel')
  <2> DEFINE ch == s.channel
             more == ch.toAG \o r.cmds
             after == channel'
  <2>1. after = [ch EXCEPT !.toAG = more, !.st = st] /\ ch \in Channels
    BY <1>2, <1>5
  <2>2. more \in Seq(ToGateway) /\ (ch.toAG # <<>> \/ r.cmds # <<>> => more # <<>>)
    BY <1>5, <1>7, SentFacts DEF Channels
  <2> HIDE DEF more, ch, after
  <2>3. after \in Channels /\ after.toAG = more /\ after.st = st
        /\ after.toHF = ch.toHF
    BY <1>6, <2>1, <2>2 DEF Channels
  <2>4. Coming(ch) \/ r.cmds # <<>> => Coming(after)
    BY <2>2, <2>3 DEF Coming
  <2> QED BY <2>3, <2>4 DEF ch, after
<1>9. Typed'
  <2>1. link' \in Links
    BY <1>2, <1>4, <1>5, LinkAfterFacts
  <2>2. setup' \in Codecs /\ scoActive' \in Attempts
    BY <1>2, <1>5 DEF AirCodec, Codecs, Attempts
  <2> QED BY <1>2, <1>7, <1>8, <2>1, <2>2 DEF Typed
<1>10. HandleIsLive'
  <2>1. hfp'.sco => s.link.st \in {"up", "closing"}
    BY <1>2, <1>3 DEF Ran, Ready
  <2> QED BY <1>2, <1>4, <1>5, <2>1, LinkAfterFacts DEF HandleIsLive
<1>11. ChannelSound'
  <2>1. ~ NoContext.acl /\ ~ NoContext.cid /\ ~ Waits(NoContext)
    BY NoContextFacts, StateFacts DEF Waits
  <2>2. CASE ~ e.c.cid
    <3>1. hfp' = e.c /\ ~ Waits(e.c) /\ ~ e.c.acl
      BY <1>2, <1>3, <2>2 DEF Ready
    <3>2. ~ Waits(hfp') /\ ~ hfp'.acl /\ ~ hfp'.cid
      BY <2>2, <3>1 DEF Waits
    <3> QED BY <3>2 DEF ChannelSound, Waits
  <2>3. CASE e.c.cid
    <3>1. Ran(e, r)
      BY <1>3, <2>3
    <3>2. /\ r.c.acl => r.c.cid
          /\ Waits(r.c) => r.c.cid
          /\ r.c.cid => r.c.state \notin Searching
      BY <2>1, <2>3, <3>1 DEF Ran, Ready
    <3>3. st = "opening" => ~ Waits(r.c)
      BY <1>3, <1>6 DEF Quiet, Ready
    <3>4. st = "open" /\ Waits(r.c) => Coming(channel')
      BY <1>6, <1>8, <3>1 DEF Ran, Ready
    <3>5. Waits(r.c) <=> Waits(hfp')
      BY <1>2 DEF Waits
    <3> HIDE DEF Waits
    <3>6. /\ hfp'.acl => hfp'.cid
          /\ Waits(hfp') => hfp'.cid
          /\ hfp'.cid => hfp'.state \notin Searching
          /\ channel'.st = "opening" => ~ Waits(hfp')
          /\ channel'.st = "open" /\ Waits(hfp') => Coming(channel')
      BY <1>2, <1>8, <3>2, <3>3, <3>4, <3>5
    <3> QED BY <3>6 DEF ChannelSound, Waits, Coming
  <2> QED BY <2>2, <2>3
<1>12. QuerySound'
  BY <1>2, <1>3 DEF QuerySound
<1> QED BY <1>9, <1>10, <1>11, <1>12 DEF Inv

(* A quiet handler leaves the context ready. *)
LEMMA QuietReady ==
  ASSUME Inv, NEW e, NEW s \in Around, Quiet(Here, e),
         e.c.sco => s.link.st \in {"up", "closing"},
         s.channel.st = "opening" => ~ Waits(e.c),
         s.channel.st = "open" /\ Waits(e.c) => Coming(s.channel)
  PROVE  /\ Ready(e, s)
         /\ sdp \in {"querying", "asked_again"} => ~ e.c.cid /\ e.c.state # "W4_RFCOMM_CONNECTED"
<1>1. Here \in Outcomes /\ Here.c = hfp /\ Here.cmds = <<>>
  BY OutcomeFacts DEF Inv, Typed, Here
<1>2. /\ hfp.acl => hfp.cid
      /\ Waits(hfp) => hfp.cid
      /\ hfp.cid => hfp.state \notin Searching
      /\ sdp \in {"querying", "asked_again"} => ~ hfp.cid /\ hfp.state # "W4_RFCOMM_CONNECTED"
  BY DEF Inv, ChannelSound, QuerySound
<1> HIDE DEF Here
<1> QED BY <1>1, <1>2 DEF Ready, Quiet

LEMMA QuietKeeps ==
  ASSUME Inv, NEW e, NEW s \in Around, Quiet(Here, e),
         e.c.sco => s.link.st \in {"up", "closing"},
         s.channel.st = "opening" => ~ Waits(e.c),
         s.channel.st = "open" /\ Waits(e.c) => Coming(s.channel),
         Handle(e, s), sdp' = sdp, ag' \in Gateways
  PROVE  Inv'
<1>1. /\ Ready(e, s)
      /\ sdp \in {"querying", "asked_again"} => ~ e.c.cid /\ e.c.state # "W4_RFCOMM_CONNECTED"
  BY QuietReady
<1>2. sdp' \in {"idle", "registered", "querying", "asked_again"}
  BY DEF Inv, Typed
<1> QED BY <1>1, <1>2, HandleKeeps

(* What the handlers find. *)
LEMMA HereFacts ==
  ASSUME Inv
  PROVE  /\ Here \in Outcomes /\ Here.c = hfp /\ Here.app = app /\ Here.cmds = <<>>
         /\ Quiet(Here, Here)
         /\ Surroundings \in Around
         /\ Surroundings.channel = channel /\ Surroundings.link = link
         /\ Surroundings.setup = setup /\ Surroundings.active = scoActive
         /\ hfp.sco => link.st \in {"up", "closing"}
         /\ channel.st = "opening" => ~ Waits(hfp)
         /\ channel.st = "open" /\ Waits(hfp) => Coming(channel)
         /\ hfp.acl => hfp.cid
         /\ Waits(hfp) => hfp.cid
         /\ hfp.cid => hfp.state \notin Searching
         /\ sdp \in {"querying", "asked_again"} => ~ hfp.cid /\ hfp.state # "W4_RFCOMM_CONNECTED"
<1>1. Here \in Outcomes /\ Here.c = hfp /\ Here.app = app /\ Here.cmds = <<>>
  BY OutcomeFacts DEF Inv, Typed, Here
<1>2. Quiet(Here, Here)
  BY <1>1, QuietNothing
<1>3. /\ Surroundings \in Around
      /\ Surroundings.channel = channel /\ Surroundings.link = link
      /\ Surroundings.setup = setup /\ Surroundings.active = scoActive
  BY DEF Surroundings, Around, Inv, Typed
<1> QED BY <1>1, <1>2, <1>3 DEF Inv, HandleIsLive, ChannelSound, QuerySound

(* A quiet handler of an event that changes neither link nor channel. *)
LEMMA QuietHere ==
  ASSUME Inv, NEW e, NEW s \in Around, Quiet(Here, e),
         s.channel = channel, s.link = link,
         Handle(e, s), sdp' = sdp, ag' \in Gateways
  PROVE  Inv'
<1>1. /\ e.c.sco => s.link.st \in {"up", "closing"}
      /\ s.channel.st = "opening" => ~ Waits(e.c)
      /\ s.channel.st = "open" /\ Waits(e.c) => Coming(s.channel)
  BY HereFacts DEF Quiet
<1> QED BY <1>1, QuietKeeps

(* Calls of the application. *)
LEMMA CallKeeps ==
  ASSUME Inv, NEW what, NEW e, Quiet(Here, e), Call(what, e)
  PROVE  Inv'
<1>1. Handle(e, Surroundings) /\ sdp' = sdp /\ ag' = ag
  BY DEF Call
<1>2. ag \in Gateways
  BY DEF Inv, Typed
<1> QED BY <1>1, <1>2, HereFacts, QuietHere

LEMMA ApplicationKeeps == Inv /\ Application => Inv'
<1> SUFFICES ASSUME Inv, Application PROVE Inv'
  OBVIOUS
<1>1. CASE EstablishSlc
  <2>1. /\ hfp.state = "NONE" /\ hfp' = [NewContext EXCEPT !.state = "W2_SEND_SDP_QUERY"]
        /\ scoActive' \in ActiveForNewContext
        /\ sdp' \in {"idle", "registered", "querying", "asked_again"}
        /\ UNCHANGED <<app, channel, ag, link, setup>>
    BY <1>1 DEF EstablishSlc, RegisterQuery, Inv, Typed
  <2>2. "W2_SEND_SDP_QUERY" \in Searching /\ "W2_SEND_SDP_QUERY" \in States
        /\ "W2_SEND_SDP_QUERY" \notin ToBeAnswered
        /\ "W2_SEND_SDP_QUERY" # "W4_RFCOMM_CONNECTED"
    BY StateFacts DEF Searching
  <2>3. /\ hfp' \in Context /\ ~ hfp'.sco /\ ~ hfp'.acl /\ ~ hfp'.cid
        /\ ~ hfp'.ok_pending /\ hfp'.state = "W2_SEND_SDP_QUERY"
    BY <2>1, <2>2, NoContextFacts DEF Context
  <2>4. scoActive' \in Attempts
    BY <2>1 DEF ActiveForNewContext, Inv, Typed, Attempts
  <2>5. Typed'
    BY <2>1, <2>3, <2>4 DEF Inv, Typed
  <2>6. HandleIsLive' /\ ChannelSound' /\ QuerySound'
    BY <2>2, <2>3 DEF HandleIsLive, ChannelSound, QuerySound, Waits
  <2> QED BY <2>5, <2>6 DEF Inv
<1>2. CASE CallReleaseSlc
  BY <1>2, HereFacts, QuietReleaseSlc, CallKeeps DEF CallReleaseSlc
<1>3. CASE CallEstablishAudio
  BY <1>3, HereFacts, QuietEstablish, CallKeeps DEF CallEstablishAudio
<1>4. CASE CallReleaseAudio
  BY <1>4, HereFacts, QuietReleaseAudio, CallKeeps DEF CallReleaseAudio
<1>5. CASE CallCommand
  <2>1. PICK f \in Flags : Call(f, Raise(Here, {f}))
    BY <1>5 DEF CallCommand, Flags
  <2>2. Quiet(Here, Raise(Here, {f}))
    BY HereFacts, QuietRaise
  <2> QED BY <2>1, <2>2, CallKeeps
<1> QED BY <1>1, <1>2, <1>3, <1>4, <1>5 DEF Application

(* SDP and RFCOMM. *)
LEMMA StartSdpQueryKeeps == Inv /\ StartSdpQuery => Inv'
<1> SUFFICES ASSUME Inv, StartSdpQuery PROVE Inv'
  OBVIOUS
<1>1. CASE hfp.state = "W2_SEND_SDP_QUERY"
  <2>1. /\ sdp' = "querying" /\ hfp' = [hfp EXCEPT !.state = "W4_SDP_QUERY_COMPLETE"]
        /\ UNCHANGED <<scoActive, app, channel, ag, link, setup>>
    BY <1>1 DEF StartSdpQuery
  <2>2. /\ {"W2_SEND_SDP_QUERY", "W4_SDP_QUERY_COMPLETE"} \subseteq Searching
        /\ "W4_SDP_QUERY_COMPLETE" \in States \ ToBeAnswered
        /\ "W4_SDP_QUERY_COMPLETE" # "W4_RFCOMM_CONNECTED"
    BY StateFacts DEF Searching
  <2>3. ~ hfp.cid /\ ~ hfp.acl /\ ~ Waits(hfp) /\ hfp \in Context
    BY <1>1, <2>2, HereFacts DEF Inv, Typed
  <2>4. /\ hfp' \in Context /\ hfp'.sco = hfp.sco /\ ~ hfp'.acl /\ ~ hfp'.cid
        /\ ~ hfp'.ok_pending /\ hfp'.state = "W4_SDP_QUERY_COMPLETE"
    BY <2>1, <2>2, <2>3 DEF Context, Waits
  <2>5. Typed'
    BY <2>1, <2>4 DEF Inv, Typed
  <2>6. HandleIsLive' /\ ChannelSound' /\ QuerySound'
    BY <2>1, <2>2, <2>4 DEF Inv, HandleIsLive, ChannelSound, QuerySound, Waits
  <2> QED BY <2>5, <2>6 DEF Inv
<1>2. CASE hfp.state # "W2_SEND_SDP_QUERY"
  <2>1. sdp' = "idle" /\ UNCHANGED <<hfp, scoActive, app, channel, ag, link, setup>>
    BY <1>2 DEF StartSdpQuery
  <2> QED BY <2>1 DEF Inv, Typed, HandleIsLive, ChannelSound, QuerySound, Waits,
                      Coming
<1> QED BY <1>1, <1>2

(* A channel that is not there, and the gateway on a new one.              *)
LEMMA NoChannelFacts == NoChannel \in Channels /\ NoChannel.st = "closed"
<1>1. <<>> \in Seq(ToGateway) /\ <<>> \in Seq(ToUnit)
  BY EmptySeq
<1> QED BY <1>1 DEF NoChannel, Channels

LEMMA AgAnewFacts == ag \in Gateways => AgAnew \in Gateways
BY DEF AgAnew, Gateways, Codecs

LEMMA SdpQueryCompleteKeeps == Inv /\ SdpQueryComplete => Inv'
<1> SUFFICES ASSUME Inv, SdpQueryComplete PROVE Inv'
  OBVIOUS
<1>1. /\ ~ hfp.cid /\ ~ hfp.acl /\ ~ Waits(hfp) /\ hfp \in Context
      /\ sdp' \in {"idle", "registered"} /\ UNCHANGED <<link, setup>>
      /\ hfp.sco => link.st \in {"up", "closing"}
  BY HereFacts DEF SdpQueryComplete, Querying, Inv, Typed
<1>2. CASE /\ hfp' = [hfp EXCEPT !.state = "W4_RFCOMM_CONNECTED"]
           /\ channel' = [NoChannel EXCEPT !.st = "opening"] /\ ag' = AgAnew
           /\ UNCHANGED <<app, scoActive>>
  <2>1. "W4_RFCOMM_CONNECTED" \in States \ ToBeAnswered
    BY StateFacts
  <2>2. /\ hfp' \in Context /\ hfp'.sco = hfp.sco /\ ~ hfp'.acl /\ ~ hfp'.cid
        /\ ~ hfp'.ok_pending /\ hfp'.state = "W4_RFCOMM_CONNECTED"
    BY <1>1, <1>2, <2>1 DEF Context, Waits
  <2>3. channel' \in Channels /\ channel'.st = "opening"
    BY <1>2, NoChannelFacts DEF Channels
  <2>4. Typed'
    BY <1>1, <1>2, <2>2, <2>3, AgAnewFacts DEF Inv, Typed
  <2>5. HandleIsLive' /\ ChannelSound' /\ QuerySound'
    BY <1>1, <2>1, <2>2, <2>3 DEF HandleIsLive, ChannelSound, QuerySound, Waits
  <2> QED BY <2>4, <2>5 DEF Inv
<1>3. CASE /\ hfp' = HandleSlcSetupError(Here).c
           /\ app' = HandleSlcSetupError(Here).app
           /\ scoActive' = IF scoActive = "live" THEN "dangling" ELSE scoActive
           /\ UNCHANGED <<channel, ag>>
  <2>1. hfp' = NoContext /\ app' \in Told
    BY <1>3, HereFacts, QuietSetupError DEF Quiet, Outcomes
  <2>2. /\ hfp' \in Context /\ ~ hfp'.sco /\ ~ hfp'.acl /\ ~ hfp'.cid
        /\ ~ hfp'.ok_pending /\ hfp'.state = "NONE"
    BY <2>1, NoContextFacts
  <2>3. Typed'
    BY <1>1, <1>3, <2>1, <2>2 DEF Inv, Typed, Attempts
  <2>4. HandleIsLive' /\ ChannelSound' /\ QuerySound'
    BY <1>1, <2>2, StateFacts DEF HandleIsLive, ChannelSound, QuerySound, Waits
  <2> QED BY <2>3, <2>4 DEF Inv
<1>4. CASE UNCHANGED <<hfp, app, channel, scoActive, ag>>
  BY <1>1, <1>4 DEF Inv, Typed, HandleIsLive, ChannelSound, QuerySound, Waits, Coming
<1> QED BY <1>2, <1>3, <1>4 DEF SdpQueryComplete

(* Surroundings after an event. *)
LEMMA SurroundingsAfter ==
  ASSUME Inv
  PROVE  /\ \A st \in {"closed", "opening", "open", "closing"} :
              LET s == [Surroundings EXCEPT !.channel.st = st]
              IN  s \in Around /\ s.link = link /\ s.channel.st = st
         /\ LET s == [Surroundings EXCEPT !.channel = NoChannel]
            IN  s \in Around /\ s.link = link /\ s.channel.st = "closed"
         /\ \A st \in {"offered", "up"} :
              LET s == [Surroundings EXCEPT !.link.st = st]
              IN  s \in Around /\ s.channel = channel /\ s.link.st = st
         /\ LET s == [Surroundings EXCEPT !.link.st = "offered", !.active = "live"]
            IN  s \in Around /\ s.channel = channel
         /\ LET s == [Surroundings EXCEPT !.link = NoLink]
            IN  s \in Around /\ s.channel = channel
         /\ LET s == [Surroundings EXCEPT !.setup = NoCodec]
            IN  s \in Around /\ s.channel = channel /\ s.link = link
         /\ \A s \in Around, a \in Attempts :
              LET d == [s EXCEPT !.active = a]
              IN  d \in Around /\ d.channel = s.channel /\ d.link = s.link
<1>1. /\ Surroundings \in Around
      /\ Surroundings.channel = channel /\ Surroundings.link = link
  BY HereFacts
<1> HIDE DEF Surroundings
<1>2. NoChannel \in Channels /\ NoChannel.st = "closed"
  BY NoChannelFacts
<1>3. NoLink \in Links /\ NoCodec \in Codecs
  BY DEF NoLink, Links, Codecs
<1>4. \A st \in {"closed", "opening", "open", "closing"} :
        LET s == [Surroundings EXCEPT !.channel.st = st]
        IN  s \in Around /\ s.link = link /\ s.channel.st = st
  BY <1>1 DEF Around, Channels
<1>5. \A st \in {"offered", "up"} :
        LET s == [Surroundings EXCEPT !.link.st = st]
        IN  s \in Around /\ s.channel = channel /\ s.link.st = st
  BY <1>1 DEF Around, Links
<1>6. LET s == [Surroundings EXCEPT !.link.st = "offered", !.active = "live"]
      IN  s \in Around /\ s.channel = channel
  BY <1>1 DEF Around, Links, Attempts
<1>7. /\ LET s == [Surroundings EXCEPT !.channel = NoChannel]
         IN  s \in Around /\ s.link = link /\ s.channel.st = "closed"
      /\ LET s == [Surroundings EXCEPT !.link = NoLink]
         IN  s \in Around /\ s.channel = channel
      /\ LET s == [Surroundings EXCEPT !.setup = NoCodec]
         IN  s \in Around /\ s.channel = channel /\ s.link = link
  BY <1>1, <1>2, <1>3 DEF Around
<1>8. \A s \in Around, a \in Attempts :
        LET d == [s EXCEPT !.active = a]
        IN  d \in Around /\ d.channel = s.channel /\ d.link = s.link
  BY DEF Around
<1> QED BY <1>4, <1>5, <1>6, <1>7, <1>8

LEMMA IncomingConnectionKeeps == Inv /\ IncomingConnection => Inv'
<1> SUFFICES ASSUME Inv, IncomingConnection PROVE Inv'
  OBVIOUS
<1> DEFINE base == IF hfp.state = "NONE" THEN NewContext ELSE hfp
           accepted == [base EXCEPT !.state = "W4_RFCOMM_CONNECTED", !.cid = TRUE]
           opening == [Surroundings EXCEPT !.channel.st = "opening"]
           e == Outcome(accepted, app)
<1>1. /\ sdp \notin {"querying", "asked_again"}
      /\ sdp' = sdp /\ ag' = ag /\ ag \in Gateways
      /\ sdp \in {"idle", "registered"}
  BY DEF IncomingConnection, Querying, Inv, Typed
<1>2. opening \in Around /\ opening.link = link /\ opening.channel.st = "opening"
  BY SurroundingsAfter
<1>3. CASE hfp.state \in {"NONE", "IDLE"}
  <2>1. /\ base \in Context /\ ~ base.ok_pending
        /\ base.sco => link.st \in {"up", "closing"}
    <3>1. "IDLE" \in Searching
      BY DEF Searching
    <3>2. CASE hfp.state = "NONE"
      BY <3>2, NoContextFacts
    <3>3. CASE hfp.state # "NONE"
      BY <1>3, <3>1, <3>3, HereFacts DEF Inv, Typed, Waits
    <3> QED BY <3>2, <3>3
  <2>2. \/ \E active \in ActiveForNewContext :
             Handle(e, [opening EXCEPT !.active = active])
        \/ Handle(e, opening)
    BY <1>3 DEF IncomingConnection
  <2> HIDE DEF base
  <2>3. "W4_RFCOMM_CONNECTED" \in States \ (ToBeAnswered \cup Searching)
    BY StateFacts
  <2>4. /\ accepted \in Context /\ accepted.cid /\ ~ accepted.ok_pending
        /\ accepted.state = "W4_RFCOMM_CONNECTED" /\ accepted.sco = base.sco
    BY <2>1, <2>3 DEF Context
  <2> HIDE DEF accepted
  <2>5. e \in Outcomes /\ e.c = accepted /\ e.cmds = <<>>
    BY <2>4, OutcomeFacts DEF Inv, Typed
  <2> HIDE DEF e, opening
  <2>6. ~ Waits(e.c) /\ e.c.cid /\ e.c.state \notin Searching
        /\ (e.c.sco => link.st \in {"up", "closing"})
    BY <2>1, <2>3, <2>4, <2>5 DEF Waits
  <2>7. ASSUME NEW s \in Around, s.link = link, s.channel.st = "opening"
        PROVE  Ready(e, s)
    BY <2>5, <2>6, <2>7 DEF Ready
  <2>8. CASE Handle(e, opening)
    BY <1>1, <1>2, <2>7, <2>8, HandleKeeps
  <2>9. ASSUME NEW active \in ActiveForNewContext,
               Handle(e, [opening EXCEPT !.active = active])
        PROVE  Inv'
    <3> DEFINE s == [opening EXCEPT !.active = active]
    <3>1. active \in Attempts
      BY DEF ActiveForNewContext, Inv, Typed, Attempts
    <3>2. s \in Around /\ s.link = link /\ s.channel.st = "opening"
      BY <1>2, <3>1 DEF Around
    <3>3. Handle(e, s)
      BY <2>9
    <3> HIDE DEF s
    <3> QED BY <1>1, <2>7, <3>2, <3>3, HandleKeeps
  <2> QED BY <2>2, <2>8, <2>9
<1>4. CASE hfp.state \notin {"NONE", "IDLE"}
  <2>1. Handle(Here, Surroundings)
    BY <1>4 DEF IncomingConnection
  <2> QED BY <1>1, <2>1, HereFacts, QuietHere
<1> QED BY <1>3, <1>4

LEMMA ChannelOpenedKeeps ==
  ASSUME Inv, NEW ok \in BOOLEAN, ChannelOpenedEvent(ok) PROVE Inv'
<1> DEFINE st == IF ok THEN "open" ELSE "closed"
           s == [Surroundings EXCEPT !.channel.st = st]
           found == hfp.state = "W4_RFCOMM_CONNECTED"
           e == IF ~ found THEN Here
                ELSE IF ok THEN ChannelOpened(Here) ELSE HandleSlcSetupError(Here)
<1>1. /\ channel.st = "opening" /\ sdp' = sdp /\ ag' = ag /\ ag \in Gateways
      /\ Handle(e, s) /\ sdp' \in {"idle", "registered", "querying", "asked_again"}
  BY DEF ChannelOpenedEvent, Inv, Typed
<1>2. st \in {"closed", "opening", "open", "closing"} /\ st # "opening"
  OBVIOUS
<1> HIDE DEF st
<1>3. s \in Around /\ s.link = link /\ s.channel.st = st
  BY <1>2, SurroundingsAfter
<1> HIDE DEF s
<1>4. ~ Waits(hfp)
  BY <1>1, HereFacts
<1>5. CASE found /\ ok
  <2> DEFINE a == InState(Here, "EXCHANGE_SUPPORTED_FEATURES")
             d == ChannelOpened(Here)
  <2>1. /\ "EXCHANGE_SUPPORTED_FEATURES" \in States
        /\ "EXCHANGE_SUPPORTED_FEATURES" \notin ToBeAnswered \cup Searching
        /\ "EXCHANGE_SUPPORTED_FEATURES" # "W4_RFCOMM_CONNECTED"
    BY StateFacts, Intervals
  <2>2. /\ a \in Outcomes /\ a.c.sco = hfp.sco /\ a.cmds = <<>>
        /\ a.c.state = "EXCHANGE_SUPPORTED_FEATURES"
        /\ a.c.ok_pending = hfp.ok_pending
    BY <2>1, HereFacts, InStateFacts DEF SameLinks
  <2>3. d = [a EXCEPT !.c.acl = TRUE, !.c.cid = TRUE]
    BY DEF ChannelOpened
  <2> HIDE DEF a, d
  <2>4. d \in Outcomes
    BY <2>2, <2>3 DEF Outcomes, Context
  <2>5. /\ d.c.sco = a.c.sco /\ d.cmds = a.cmds /\ d.c.state = a.c.state
        /\ d.c.ok_pending = a.c.ok_pending /\ d.c.cid
    BY <2>2, <2>3 DEF Outcomes, Context
  <2>6. Ready(d, s)
    BY <1>2, <1>3, <1>4, <2>1, <2>2, <2>4, <2>5, HereFacts DEF Ready, Waits
  <2>7. sdp \notin {"querying", "asked_again"}
    BY <1>5, HereFacts
  <2>8. Handle(d, s)
    BY <1>1, <1>5 DEF d
  <2> QED BY <1>1, <2>6, <2>7, <2>8, HandleKeeps
<1>6. CASE ~ (found /\ ok)
  <2>1. Quiet(Here, e)
    BY <1>6, HereFacts, QuietSetupError
  <2> HIDE DEF e
  <2>2. ~ Waits(e.c) /\ (e.c.sco => s.link.st \in {"up", "closing"})
    BY <1>3, <1>4, <2>1, HereFacts DEF Quiet
  <2> QED BY <1>1, <1>3, <2>1, <2>2, QuietKeeps
<1> QED BY <1>5, <1>6

LEMMA ChannelClosedKeeps == Inv /\ ChannelClosedEvent => Inv'
<1> SUFFICES ASSUME Inv, ChannelClosedEvent PROVE Inv'
  OBVIOUS
<1> DEFINE e == IF hfp.cid THEN ChannelClosed(Here) ELSE Here
           s == [Surroundings EXCEPT !.channel = NoChannel]
<1>1. Handle(e, s) /\ sdp' = sdp
  BY DEF ChannelClosedEvent
<1>2. ag' \in Gateways
  BY AgAnewFacts DEF ChannelClosedEvent, Inv, Typed
<1>3. Quiet(Here, e)
  BY HereFacts, QuietClosed
<1>4. s \in Around /\ s.link = link /\ s.channel.st = "closed"
  BY SurroundingsAfter
<1> HIDE DEF e, s
<1>5. e.c.sco => s.link.st \in {"up", "closing"}
  BY <1>3, <1>4, HereFacts DEF Quiet
<1> QED BY <1>1, <1>2, <1>3, <1>4, <1>5, QuietKeeps

(* The gateway. *)
Lines == Seq(ToUnit)
HasAnswer(lines) == \E i \in DOMAIN lines : lines[i][1] \in {"OK", "ERROR"}

LEMMA AppendFacts ==
  \A lines \in Lines, x \in ToUnit :
    /\ Append(lines, x) \in Lines
    /\ HasAnswer(lines) \/ x[1] \in {"OK", "ERROR"} => HasAnswer(Append(lines, x))
<1> SUFFICES ASSUME NEW lines \in Lines, NEW x \in ToUnit
             PROVE  /\ Append(lines, x) \in Lines
                    /\ HasAnswer(lines) \/ x[1] \in {"OK", "ERROR"}
                         => HasAnswer(Append(lines, x))
  OBVIOUS
<1> DEFINE more == Append(lines, x)
<1>1. /\ more \in Lines /\ Len(more) = Len(lines) + 1
      /\ more[Len(lines) + 1] = x
      /\ \A i \in 1 .. Len(lines) : more[i] = lines[i]
      /\ Len(lines) \in Nat /\ DOMAIN lines = 1 .. Len(lines)
      /\ DOMAIN more = 1 .. Len(more)
  BY AppendProperties, LenProperties DEF Lines
<1> HIDE DEF more
<1>2. CASE x[1] \in {"OK", "ERROR"}
  <2>1. Len(lines) + 1 \in DOMAIN more
    BY <1>1
  <2> QED BY <1>1, <1>2, <2>1 DEF HasAnswer, more
<1>3. ASSUME NEW i \in DOMAIN lines, lines[i][1] \in {"OK", "ERROR"}
      PROVE  HasAnswer(more)
  <2>1. i \in DOMAIN more /\ more[i] = lines[i]
    BY <1>1
  <2> QED BY <1>3, <2>1 DEF HasAnswer
<1>4. HasAnswer(lines) => HasAnswer(more)
  BY <1>3 DEF HasAnswer
<1> QED BY <1>1, <1>2, <1>4 DEF more

(* A line that is no answer leaves the answer that is on its way.          *)
LEMMA TailFacts ==
  \A lines \in Lines :
    lines # <<>> =>
      /\ Head(lines) \in ToUnit /\ Tail(lines) \in Lines
      /\ HasAnswer(lines) => Head(lines)[1] \in {"OK", "ERROR"} \/ HasAnswer(Tail(lines))
<1> SUFFICES ASSUME NEW lines \in Lines, lines # <<>>
             PROVE  /\ Head(lines) \in ToUnit /\ Tail(lines) \in Lines
                    /\ HasAnswer(lines)
                         => Head(lines)[1] \in {"OK", "ERROR"} \/ HasAnswer(Tail(lines))
  OBVIOUS
<1> DEFINE rest == Tail(lines)
<1>1. /\ Head(lines) \in ToUnit /\ rest \in Lines
      /\ Head(lines) = lines[1]
      /\ Len(lines) \in Nat \ {0} /\ Len(rest) = Len(lines) - 1
      /\ \A i \in 1 .. Len(rest) : rest[i] = lines[i + 1]
      /\ DOMAIN lines = 1 .. Len(lines) /\ DOMAIN rest = 1 .. Len(rest)
  BY HeadTailProperties, LenProperties, EmptySeq DEF Lines
<1> HIDE DEF rest
<1>2. ASSUME NEW i \in DOMAIN lines, lines[i][1] \in {"OK", "ERROR"}, i # 1
      PROVE  HasAnswer(rest)
  <2>1. i - 1 \in 1 .. Len(rest) /\ (i - 1) + 1 = i
    BY <1>1, <1>2
  <2>2. i - 1 \in DOMAIN rest /\ rest[i - 1] = lines[i]
    BY <1>1, <2>1
  <2> QED BY <1>2, <2>2 DEF HasAnswer
<1>3. HasAnswer(lines) => Head(lines)[1] \in {"OK", "ERROR"} \/ HasAnswer(rest)
  BY <1>1, <1>2 DEF HasAnswer
<1> QED BY <1>1, <1>3 DEF rest

LEMMA ComingFacts ==
  \A ch \in Channels :
    /\ ch.toHF \in Lines /\ ch.toAG \in Seq(ToGateway)
    /\ Coming(ch) <=> ch.toAG # <<>> \/ HasAnswer(ch.toHF)
BY DEF Coming, HasAnswer, Channels, Lines

(* An event that leaves the context as it is, and an answer on its way.    *)
LEMMA OutsideKeeps ==
  ASSUME Inv, UNCHANGED <<hfp, scoActive, app, sdp>>,
         channel' \in Channels, channel'.st = channel.st,
         Coming(channel) => Coming(channel'),
         link' \in Links, link.st \in {"up", "closing"} => link' = link,
         ag' \in Gateways, setup' \in Codecs
  PROVE  Inv'
<1>1. Typed'
  BY DEF Inv, Typed
<1>2. HandleIsLive'
  BY DEF Inv, HandleIsLive
<1>3. ChannelSound'
  <2> DEFINE w == Waits(hfp)
             before == Coming(channel)
             after == Coming(channel')
  <2>1. hfp' = hfp /\ channel'.st = channel.st /\ (before => after)
    OBVIOUS
  <2>2. /\ hfp.acl => hfp.cid
        /\ w => hfp.cid
        /\ hfp.cid => hfp.state \notin Searching
        /\ channel.st = "opening" => ~ w
        /\ channel.st = "open" /\ w => before
    BY DEF Inv, ChannelSound
  <2>3. Waits(hfp)' <=> w
    BY <2>1 DEF Waits
  <2>4. Coming(channel)' <=> after
    BY DEF Coming
  <2> HIDE DEF w, before, after
  <2> QED BY <2>1, <2>2, <2>3, <2>4 DEF ChannelSound
<1>4. QuerySound'
  BY DEF Inv, QuerySound
<1> QED BY <1>1, <1>2, <1>3, <1>4 DEF Inv

LEMMA AgAnswersKeeps == Inv /\ AgAnswers => Inv'
<1> SUFFICES ASSUME Inv, AgAnswers PROVE Inv'
  OBVIOUS
<1> DEFINE command == Head(channel.toAG)[1]
           codec == Head(channel.toAG)[2]
           lines == IF command = "BRSF" THEN <<<<"+BRSF", NoCodec>>>> ELSE <<>>
<1>1. PICK ok \in BOOLEAN :
        /\ channel' = [channel EXCEPT
             !.toAG = Tail(@),
             !.toHF = @ \o lines \o <<<<IF ok THEN "OK" ELSE "ERROR", NoCodec>>>>]
        /\ ag' = [ag EXCEPT
             !.slc = @ \/ (ok /\ command = LastCommand),
             !.asked = IF command \in {"BCS", "BAC"} THEN NoCodec ELSE @,
             !.codec = IF ok /\ command = "BCS" /\ codec \in {ag.asked} \ {NoCodec}
                         THEN codec ELSE @]
  BY DEF AgAnswers
<1>2. /\ channel.st = "open" /\ channel.toAG # <<>>
      /\ UNCHANGED <<hfp, scoActive, app, sdp, link, setup, spent>>
  BY DEF AgAnswers
<1>3. channel \in Channels /\ channel.toAG \in Seq(ToGateway) /\ channel.toHF \in Lines
      /\ ag \in Gateways
  BY ComingFacts DEF Inv, Typed
<1> DEFINE answer == <<IF ok THEN "OK" ELSE "ERROR", NoCodec>>
           before == channel.toHF \o lines
           after == before \o <<answer>>
<1>4. answer \in ToUnit /\ answer[1] \in {"OK", "ERROR"}
  BY DEF ToUnit, Codecs
<1>5. before \in Lines
  <2>1. lines \in Lines
    <3>1. <<"+BRSF", NoCodec>> \in ToUnit
      BY DEF ToUnit, Codecs
    <3>2. <<<<"+BRSF", NoCodec>>>> \in Lines /\ <<>> \in Lines
      BY <3>1, EmptySeq DEF Lines
    <3> QED BY <3>2
  <2> HIDE DEF lines
  <2> QED BY <1>3, <2>1, ConcatProperties DEF Lines
<1>6. after \in Lines /\ HasAnswer(after)
  <2> HIDE DEF before, answer
  <2>1. after = Append(before, answer)
    BY <1>4, <1>5, AppendIsConcat DEF Lines
  <2> QED BY <1>4, <1>5, <2>1, AppendFacts
<1>7. Tail(channel.toAG) \in Seq(ToGateway)
  BY <1>2, <1>3, HeadTailProperties
<1>8. channel' = [channel EXCEPT !.toAG = Tail(channel.toAG), !.toHF = after]
  BY <1>1
<1> HIDE DEF after
<1>9. channel' \in Channels /\ channel'.st = channel.st /\ channel'.toHF = after
  BY <1>3, <1>6, <1>7, <1>8 DEF Channels, Lines
<1>10. Coming(channel')
  BY <1>6, <1>9 DEF Coming, HasAnswer
<1>11. ag' \in Gateways
  <2> DEFINE slc == ag.slc \/ (ok /\ command = LastCommand)
             asked == IF command \in {"BCS", "BAC"} THEN NoCodec ELSE ag.asked
             agreed == IF ok /\ command = "BCS" /\ codec \in {ag.asked} \ {NoCodec}
                         THEN codec ELSE ag.codec
  <2>1. ag' = [ag EXCEPT !.slc = slc, !.asked = asked, !.codec = agreed]
    BY <1>1
  <2>2. slc \in BOOLEAN
    BY <1>3 DEF Gateways
  <2>3. asked \in Codecs /\ agreed \in Codecs
    BY <1>3 DEF Gateways, Codecs
  <2> HIDE DEF slc, asked, agreed
  <2> QED BY <1>3, <2>1, <2>2, <2>3 DEF Gateways
<1> QED BY <1>2, <1>9, <1>10, <1>11, OutsideKeeps DEF Inv, Typed

LEMMA AgSuggestsKeeps == Inv /\ AgSuggests => Inv'
<1> SUFFICES ASSUME Inv, AgSuggests PROVE Inv'
  OBVIOUS
<1>1. PICK codec \in AgCodecs :
        /\ ag' = [ag EXCEPT !.asked = codec]
        /\ channel' = [channel EXCEPT !.toHF = Append(@, <<"+BCS", codec>>)]
  BY DEF AgSuggests
<1>2. UNCHANGED <<hfp, scoActive, app, sdp, link, setup>>
  BY DEF AgSuggests
<1>3. channel \in Channels /\ channel.toHF \in Lines /\ ag \in Gateways
  BY ComingFacts DEF Inv, Typed
<1>4. codec \in Codecs /\ <<"+BCS", codec>> \in ToUnit
  BY HfpHandsFreeAssumption DEF Codecs, ToUnit
<1> DEFINE after == Append(channel.toHF, <<"+BCS", codec>>)
<1>5. after \in Lines /\ (HasAnswer(channel.toHF) => HasAnswer(after))
  BY <1>3, <1>4, AppendFacts
<1>6. channel' = [channel EXCEPT !.toHF = after]
  BY <1>1
<1> HIDE DEF after
<1>7. /\ channel' \in Channels /\ channel'.st = channel.st
      /\ channel'.toHF = after /\ channel'.toAG = channel.toAG
  BY <1>3, <1>5, <1>6 DEF Channels, Lines
<1>8. Coming(channel) => Coming(channel')
  BY <1>3, <1>5, <1>7, ComingFacts
<1>9. ag' \in Gateways
  BY <1>1, <1>3, <1>4 DEF Gateways
<1> QED BY <1>2, <1>7, <1>8, <1>9, OutsideKeeps DEF Inv, Typed

LEMMA AgOpensAudioKeeps == Inv /\ AgOpensAudio => Inv'
<1> SUFFICES ASSUME Inv, AgOpensAudio PROVE Inv'
  OBVIOUS
<1>1. /\ link.st = "none" /\ link' = [st |-> "requested", ag |-> ag.codec, hf |-> NoCodec]
      /\ UNCHANGED <<hfp, scoActive, app, sdp, channel, ag, setup>>
  BY DEF AgOpensAudio
<1>2. link' \in Links
  BY <1>1 DEF Links, Inv, Typed, Gateways, Codecs
<1>3. /\ channel' \in Channels /\ channel'.st = channel.st
      /\ (Coming(channel) => Coming(channel'))
  BY <1>1 DEF Inv, Typed, Coming
<1> QED BY <1>1, <1>2, <1>3, OutsideKeeps DEF Inv, Typed

LEMMA ReceiveLineKeeps == Inv /\ ReceiveLine => Inv'
<1> SUFFICES ASSUME Inv, ReceiveLine PROVE Inv'
  OBVIOUS
<1> DEFINE line == Head(channel.toHF)
           rest == Tail(channel.toHF)
           e == IF hfp.cid THEN LineOutcome(line) ELSE Here
           s == [Surroundings EXCEPT !.channel.toHF = rest]
<1>1. /\ channel.st = "open" /\ channel.toHF # <<>>
      /\ Handle(e, s) /\ sdp' = sdp /\ ag' = ag /\ ag \in Gateways
  <2>1. Surroundings.channel = channel
    BY HereFacts
  <2>2. ag \in Gateways
    BY DEF Inv, Typed
  <2> QED BY <2>1, <2>2 DEF ReceiveLine
<1>2. channel \in Channels /\ channel.toHF \in Lines
  BY ComingFacts DEF Inv, Typed
<1>3. /\ line \in ToUnit /\ rest \in Lines
      /\ HasAnswer(channel.toHF) => line[1] \in {"OK", "ERROR"} \/ HasAnswer(rest)
  BY <1>1, <1>2, TailFacts
<1> HIDE DEF rest
<1>4. /\ s \in Around /\ s.link = link
      /\ s.channel.st = "open" /\ s.channel.toHF = rest
      /\ s.channel.toAG = channel.toAG /\ s.channel \in Channels
  <2>1. Surroundings \in Around /\ Surroundings.channel = channel
        /\ Surroundings.link = link
    BY HereFacts
  <2> HIDE DEF Surroundings
  <2> QED BY <1>1, <1>2, <1>3, <2>1 DEF Around, Channels, Lines
<1>5. Quiet(Here, e) /\ (hfp.cid /\ line[1] \in {"OK", "ERROR"} => ~ Waits(e.c))
  <2>1. line[1] \in {"OK", "ERROR", "+BCS", "+BRSF"} /\ line[2] \in Codecs
    BY <1>3 DEF ToUnit
  <2>2. CASE ~ hfp.cid
    BY <2>2, HereFacts
  <2>3. CASE hfp.cid
    <3> DEFINE f == HfFeatures \cap ag.features
    <3>1. e = LineOutcome(line)
      BY <2>3
    <3> HIDE DEF e, line
    <3>2. CASE line[1] = "OK"
      BY <3>1, <3>2, HereFacts, QuietOk DEF LineOutcome
    <3>3. CASE line[1] = "ERROR"
      BY <3>1, <3>3, HereFacts, QuietError DEF LineOutcome
    <3>4. CASE line[1] = "+BCS"
      BY <2>1, <3>1, <3>4, HereFacts, QuietSuggested DEF LineOutcome
    <3>5. CASE line[1] = "+BRSF"
      <4>1. f \in SUBSET FeatureNames
        BY <1>1 DEF Gateways
      <4>2. e = [Here EXCEPT !.c.features = f]
        BY <3>1, <3>5 DEF LineOutcome
      <4> HIDE DEF f, Here
      <4>3. Here \in Outcomes
        BY HereFacts
      <4> QED BY <3>5, <4>1, <4>2, <4>3, QuietFeatures
    <3> QED BY <2>1, <3>2, <3>3, <3>4, <3>5
  <2> QED BY <2>2, <2>3
<1> HIDE DEF e, s, line
<1>6. Waits(e.c) => Coming(s.channel)
  <2> SUFFICES ASSUME Waits(e.c) PROVE Coming(s.channel)
    OBVIOUS
  <2>1. Waits(hfp) /\ hfp.cid
    BY <1>5, HereFacts DEF Quiet
  <2>2. channel.toAG # <<>> \/ HasAnswer(channel.toHF)
    BY <1>1, <1>2, <2>1, HereFacts, ComingFacts
  <2>3. channel.toAG # <<>> \/ HasAnswer(rest)
    BY <1>3, <1>5, <2>1, <2>2
  <2> QED BY <1>4, <2>3, ComingFacts
<1>7. e.c.sco => s.link.st \in {"up", "closing"}
  BY <1>4, <1>5, HereFacts DEF Quiet
<1> QED BY <1>1, <1>4, <1>5, <1>6, <1>7, QuietKeeps

-----------------------------------------------------------------------------
(* HCI events.  Those that find no link of the context leave it quiet.     *)
LEMMA NoHandleKeeps ==
  ASSUME Inv, NEW e, NEW s \in Around, Quiet(Here, e), ~ e.c.sco,
         s.channel = channel, Handle(e, s), sdp' = sdp, ag' = ag
  PROVE  Inv'
<1>1. /\ s.channel.st = "opening" => ~ Waits(e.c)
      /\ s.channel.st = "open" /\ Waits(e.c) => Coming(s.channel)
  BY HereFacts DEF Quiet
<1>2. ag' \in Gateways
  BY DEF Inv, Typed
<1> QED BY <1>1, <1>2, QuietKeeps

LEMMA ConnectionRequestKeeps == Inv /\ ConnectionRequest => Inv'
<1> SUFFICES ASSUME Inv, ConnectionRequest PROVE Inv'
  OBVIOUS
<1>1. link.st = "requested" /\ sdp' = sdp /\ ag' = ag
  BY DEF ConnectionRequest
<1>2. ~ hfp.sco
  BY <1>1, HereFacts
<1>3. CASE Handle(Here, [Surroundings EXCEPT !.link.st = "offered"])
  <2> DEFINE s == [Surroundings EXCEPT !.link.st = "offered"]
  <2>1. s \in Around /\ s.channel = channel /\ Handle(Here, s)
    BY <1>3, SurroundingsAfter
  <2> HIDE DEF s
  <2> QED BY <1>1, <1>2, <2>1, HereFacts, NoHandleKeeps
<1>4. CASE Handle(Raise(Here, {"accept_sco"}),
                  [Surroundings EXCEPT !.link.st = "offered", !.active = "live"])
  <2> DEFINE s == [Surroundings EXCEPT !.link.st = "offered", !.active = "live"]
             e == Raise(Here, {"accept_sco"})
  <2>1. s \in Around /\ s.channel = channel /\ Handle(e, s)
    BY <1>4, SurroundingsAfter
  <2>2. Quiet(Here, e)
    BY HereFacts, QuietRaise DEF Flags
  <2> HIDE DEF s, e
  <2> QED BY <1>1, <1>2, <2>1, <2>2, HereFacts, NoHandleKeeps DEF Quiet
<1> QED BY <1>3, <1>4 DEF ConnectionRequest

LEMMA SyncConnectionCompleteKeeps == Inv /\ SyncConnectionComplete => Inv'
<1> SUFFICES ASSUME Inv, SyncConnectionComplete PROVE Inv'
  OBVIOUS
<1> DEFINE e == IF scoActive = "none" \/ hfp.state = "NONE"
                  THEN Here ELSE SyncConnected(Here)
           s == [Surroundings EXCEPT !.link.st = "up"]
<1>1. Handle(e, s) /\ sdp' = sdp /\ ag' = ag /\ link.st = "connecting"
      /\ ag \in Gateways /\ sdp \in {"idle", "registered", "querying", "asked_again"}
  BY DEF SyncConnectionComplete, Inv, Typed
<1>2. s \in Around /\ s.channel = channel /\ s.link.st = "up"
  BY SurroundingsAfter
<1> HIDE DEF s
<1>3. CASE e = Here \/ e = InState(Here, "W2_DISCONNECT_SCO")
  <2>1. Quiet(Here, e)
    BY <1>3, HereFacts, SettledStates, QuietInState
  <2> HIDE DEF e
  <2>2. ~ e.c.sco
    BY <1>1, <2>1, HereFacts DEF Quiet
  <2> QED BY <1>1, <1>2, <2>1, <2>2, NoHandleKeeps
<1>4. CASE e = [Lower(InState(Here, AUDIO), {"establish_audio_connection"})
                  EXCEPT !.c.sco = TRUE, !.app.audio = Here.c.negotiated_codec]
  <2> DEFINE a == InState(Here, AUDIO)
             b == Lower(a, {"establish_audio_connection"})
             codec == Here.c.negotiated_codec
  <2>1. AUDIO \in States \ (ToBeAnswered \cup Searching)
        /\ AUDIO # "W4_RFCOMM_CONNECTED"
    BY SettledStates DEF Settled
  <2>2. /\ a \in Outcomes /\ SameLinks(Here, a) /\ a.c.state = AUDIO
        /\ a.c.ok_pending = hfp.ok_pending
    BY <2>1, HereFacts, InStateFacts
  <2>3. /\ b \in Outcomes /\ SameLinks(a, b) /\ b.c.state = AUDIO
        /\ b.c.ok_pending = hfp.ok_pending
    <3>1. {"establish_audio_connection"} \in SUBSET Flags
      BY DEF Flags
    <3> HIDE DEF a
    <3> QED BY <2>2, <3>1, LowerFacts
  <2>4. codec \in {NoCodec, CVSD, MSBC}
    BY HereFacts DEF Outcomes, Context
  <2>5. e = [b EXCEPT !.c.sco = TRUE, !.app.audio = codec]
    BY <1>4
  <2> HIDE DEF a, b, codec, e
  <2>6. e \in Outcomes
    BY <2>3, <2>4, <2>5 DEF Outcomes, Context, Told
  <2>7. /\ e.cmds = b.cmds /\ e.c.state = b.c.state /\ e.c.acl = b.c.acl
        /\ e.c.cid = b.c.cid /\ e.c.ok_pending = b.c.ok_pending
    BY <2>3, <2>5 DEF Outcomes, Context
  <2>8. /\ e.cmds = <<>> /\ e.c.state = AUDIO /\ e.c.acl = hfp.acl
        /\ e.c.cid = hfp.cid /\ e.c.ok_pending = hfp.ok_pending
    BY <2>2, <2>3, <2>7, HereFacts DEF SameLinks
  <2>9. Waits(e.c) => Waits(hfp)
    BY <2>1, <2>8 DEF Waits
  <2>10. Ready(e, s)
    BY <1>2, <2>1, <2>6, <2>8, <2>9, HereFacts DEF Ready
  <2>11. sdp \in {"querying", "asked_again"} => ~ e.c.cid /\ e.c.state # "W4_RFCOMM_CONNECTED"
    BY <2>1, <2>8, HereFacts
  <2> QED BY <1>1, <2>10, <2>11, HandleKeeps
<1> QED BY <1>3, <1>4 DEF SyncConnected

(* A failed attempt: the next one, or back to the service level.           *)
LEMMA AttemptFailedKeeps ==
  ASSUME Inv, NEW e, Quiet(Here, e), NEW hasContext \in BOOLEAN,
         NEW retryable \in BOOLEAN, NEW s \in Around, s.channel = channel,
         ~ e.c.sco \/ s.link = link,
         AttemptFailed(e, hasContext, retryable, s), sdp' = sdp, ag' = ag
  PROVE  Inv'
<1> DEFINE t == [s EXCEPT !.active = "none"]
<1>1. t \in Around /\ t.channel = channel /\ t.link = s.link
  BY SurroundingsAfter DEF Attempts
<1>2. e \in Outcomes
  BY DEF Quiet
<1>3. \/ Handle(TryNextSetting(e), t)
      \/ Handle(e, t)
      \/ Handle(AudioFailed(e), s)
      \/ Handle(e, s)
  BY DEF AttemptFailed
<1> HIDE DEF t
<1>4. ASSUME NEW r, Quiet(e, r), NEW around \in {s, t}, Handle(r, around)
      PROVE  Inv'
  <2>1. Quiet(Here, r)
    BY <1>4, QuietThen
  <2>2. around \in Around /\ around.channel = channel /\ around.link = s.link
    BY <1>1
  <2>3. CASE ~ e.c.sco
    BY <1>4, <2>1, <2>2, <2>3, NoHandleKeeps DEF Quiet
  <2>4. CASE s.link = link
    <3>1. ag' \in Gateways
      BY DEF Inv, Typed
    <3> QED BY <1>4, <2>1, <2>2, <2>4, <3>1, QuietHere
  <2> QED BY <2>3, <2>4
<1> QED BY <1>2, <1>3, <1>4, QuietRetry, QuietAudioFailed, QuietNothing

LEMMA SyncConnectionFailedKeeps ==
  ASSUME Inv, NEW retryable \in BOOLEAN, SyncConnectionFailed(retryable)
  PROVE  Inv'
<1> DEFINE s == [Surroundings EXCEPT !.link = NoLink]
           e == Lower(Here, {"accept_sco"})
<1>1. link.st \in {"offered", "connecting"} /\ sdp' = sdp /\ ag' = ag
  BY DEF SyncConnectionFailed
<1>2. s \in Around /\ s.channel = channel
  BY SurroundingsAfter
<1>3. Quiet(Here, e)
  BY HereFacts, QuietLower DEF Flags
<1>4. ~ hfp.sco
  BY <1>1, HereFacts
<1>5. Handle(Here, s) \/ AttemptFailed(e, TRUE, retryable, s)
  BY DEF SyncConnectionFailed
<1> HIDE DEF s, e
<1>6. ~ e.c.sco
  BY <1>3, <1>4, HereFacts DEF Quiet
<1>7. CASE Handle(Here, s)
  BY <1>1, <1>2, <1>4, <1>7, HereFacts, NoHandleKeeps
<1>8. CASE AttemptFailed(e, TRUE, retryable, s)
  BY <1>1, <1>2, <1>3, <1>6, <1>8, AttemptFailedKeeps
<1> QED BY <1>5, <1>7, <1>8

LEMMA SetupStartedKeeps == Inv /\ SetupStarted => Inv'
<1> SUFFICES ASSUME Inv, SetupStarted PROVE Inv'
  OBVIOUS
<1>1. /\ link.st = "none" /\ link' = [st |-> "connecting", ag |-> ag.codec, hf |-> setup]
      /\ setup' = NoCodec /\ UNCHANGED <<hfp, scoActive, app, sdp, channel, ag>>
  BY DEF SetupStarted
<1>2. link' \in Links /\ setup' \in Codecs
  BY <1>1 DEF Links, Inv, Typed, Gateways, Codecs
<1>3. /\ channel' \in Channels /\ channel'.st = channel.st
      /\ (Coming(channel) => Coming(channel'))
  BY <1>1 DEF Inv, Typed, Coming
<1> QED BY <1>1, <1>2, <1>3, OutsideKeeps DEF Inv, Typed

LEMMA SetupRefusedKeeps ==
  ASSUME Inv, NEW retryable \in BOOLEAN, SetupRefused(retryable)
  PROVE  Inv'
<1> DEFINE s == [Surroundings EXCEPT !.setup = NoCodec]
           hasContext == scoActive = "live"
<1>1. sdp' = sdp /\ ag' = ag /\ ag \in Gateways
  BY DEF SetupRefused, Inv, Typed
<1>2. s \in Around /\ s.channel = channel /\ s.link = link
  BY SurroundingsAfter
<1>3. Handle(Here, s) \/ AttemptFailed(Here, hasContext, retryable, s)
  BY DEF SetupRefused
<1>4. hasContext \in BOOLEAN
  OBVIOUS
<1> HIDE DEF s, hasContext
<1>5. CASE Handle(Here, s)
  BY <1>1, <1>2, <1>5, HereFacts, QuietHere
<1>6. CASE AttemptFailed(Here, hasContext, retryable, s)
  BY <1>1, <1>2, <1>4, <1>6, HereFacts, AttemptFailedKeeps
<1> QED BY <1>3, <1>5, <1>6

LEMMA DisconnectionCompleteKeeps == Inv /\ DisconnectionComplete => Inv'
<1> SUFFICES ASSUME Inv, DisconnectionComplete PROVE Inv'
  OBVIOUS
<1> DEFINE e == IF hfp.sco THEN ScoDisconnected(Here) ELSE Here
           s == [Surroundings EXCEPT !.link = NoLink]
<1>1. Handle(e, s) /\ sdp' = sdp /\ ag' = ag
  BY DEF DisconnectionComplete
<1>2. s \in Around /\ s.channel = channel
  BY SurroundingsAfter
<1>3. Quiet(Here, e) /\ ~ e.c.sco
  BY HereFacts, QuietScoDisconnected
<1> HIDE DEF e, s
<1> QED BY <1>1, <1>2, <1>3, NoHandleKeeps

LEMMA RunAgainKeeps == Inv /\ RunAgain => Inv'
<1> SUFFICES ASSUME Inv, RunAgain PROVE Inv'
  OBVIOUS
<1>1. Handle(Here, Surroundings) /\ sdp' = sdp /\ ag' \in Gateways
  BY DEF RunAgain, Inv, Typed
<1> QED BY <1>1, HereFacts, QuietHere

-----------------------------------------------------------------------------
LEMMA InvInit == Init => Inv
<1> SUFFICES ASSUME Init PROVE Inv
  OBVIOUS
<1>1. /\ hfp = NoContext /\ hfp \in Context /\ ~ hfp.sco /\ ~ hfp.acl
      /\ ~ hfp.cid /\ ~ hfp.ok_pending /\ hfp.state = "NONE"
  BY NoContextFacts DEF Init
<1>2. scoActive \in Attempts /\ app \in Told /\ sdp = "idle" /\ setup \in Codecs
  BY DEF Init, Attempts, Told, NotConnected, Codecs
<1>3. channel \in Channels /\ channel.st = "closed"
  <2>1. <<>> \in Seq(ToGateway) /\ <<>> \in Seq(ToUnit)
    BY EmptySeq
  <2> QED BY <2>1 DEF Init, NoChannel, Channels
<1>4. link \in Links /\ ag \in Gateways
  BY HfpHandsFreeAssumption DEF Init, NoLink, Links, Gateways, Codecs
<1>5. Typed
  BY <1>1, <1>2, <1>3, <1>4 DEF Typed
<1>6. HandleIsLive /\ ChannelSound /\ QuerySound
  BY <1>1, <1>2, StateFacts DEF HandleIsLive, ChannelSound, QuerySound, Waits
<1> QED BY <1>5, <1>6 DEF Inv

LEMMA InvNext == Inv /\ [Next]_vars => Inv'
<1> SUFFICES ASSUME Inv, [Next]_vars PROVE Inv'
  OBVIOUS
<1>1. CASE Application
  BY <1>1, ApplicationKeeps
<1>2. CASE UnderWay
  <2>1. CASE StartSdpQuery
    BY <2>1, StartSdpQueryKeeps
  <2>2. CASE SdpQueryComplete
    BY <2>2, SdpQueryCompleteKeeps
  <2>3. CASE SetupStarted
    BY <2>3, SetupStartedKeeps
  <2>4. CASE AgAnswers
    BY <2>4, AgAnswersKeeps
  <2>5. CASE ReceiveLine
    BY <2>5, ReceiveLineKeeps
  <2>6. CASE \E ok \in BOOLEAN : ChannelOpenedEvent(ok)
    BY <2>6, ChannelOpenedKeeps
  <2>7. CASE DisconnectDone
    BY <2>7, ChannelClosedKeeps DEF DisconnectDone
  <2>8. CASE ConnectionRequest
    BY <2>8, ConnectionRequestKeeps
  <2>9. CASE SyncConnectionComplete
    BY <2>9, SyncConnectionCompleteKeeps
  <2>10. CASE \E retryable \in BOOLEAN :
                SyncConnectionFailed(retryable) \/ SetupRefused(retryable)
    BY <2>10, SyncConnectionFailedKeeps, SetupRefusedKeeps
  <2>11. CASE AudioClosed
    BY <2>11, DisconnectionCompleteKeeps DEF AudioClosed
  <2>12. CASE RunAgain
    BY <2>12, RunAgainKeeps
  <2> QED BY <1>2, <2>1, <2>2, <2>3, <2>4, <2>5, <2>6, <2>7, <2>8, <2>9, <2>10,
             <2>11, <2>12 DEF UnderWay
<1>3. CASE Peer
  <2>1. CASE IncomingConnection
    BY <2>1, IncomingConnectionKeeps
  <2>2. CASE ChannelLost
    BY <2>2, ChannelClosedKeeps DEF ChannelLost
  <2>3. CASE AgSuggests
    BY <2>3, AgSuggestsKeeps
  <2>4. CASE AgOpensAudio
    BY <2>4, AgOpensAudioKeeps
  <2>5. CASE AudioLost
    BY <2>5, DisconnectionCompleteKeeps DEF AudioLost
  <2> QED BY <1>3, <2>1, <2>2, <2>3, <2>4, <2>5 DEF Peer
<1>4. CASE UNCHANGED vars
  BY <1>4 DEF vars, Inv, Typed, HandleIsLive, ChannelSound, QuerySound, Waits, Coming
<1> QED BY <1>1, <1>2, <1>3, <1>4 DEF Next

LEMMA Invariant == Spec => []Inv
BY InvInit, InvNext, PTL DEF Spec

(* The variables keep their types whatever the application, the gateway    *)
(* and the controller do.                                                  *)
THEOREM HandsFreeTypeCorrect == Spec => []TypeOK
<1>1. Inv => TypeOK
  <2> SUFFICES ASSUME Inv PROVE TypeOK
    OBVIOUS
  <2>1. link.ag \in Codecs /\ link.hf \in Codecs /\ setup \in Codecs
        /\ ag.asked \in Codecs /\ ag.codec \in Codecs
    BY DEF Inv, Typed, Links, Gateways
  <2>2. /\ channel.st \in {"closed", "opening", "open", "closing"}
        /\ link.st \in {"none", "requested", "offered", "connecting", "up", "closing"}
    BY DEF Inv, Typed, Links, Channels
  <2> QED BY <2>1, <2>2 DEF Inv, Typed, TypeOK, Attempts, Told, Codecs
<1> QED BY <1>1, Invariant, PTL

(* The context has the handle of an audio link only while there is one:    *)
(* gap_disconnect in hfp_hf_run_for_audio_connection never closes another  *)
(* connection that has the handle by now.                                  *)
THEOREM HandleStaysLive == Spec => []HandleIsLive
<1>1. Inv => HandleIsLive
  BY DEF Inv
<1> QED BY <1>1, Invariant, PTL

(* While the unit waits for OK or ERROR, the command it is given to or the *)
(* answer is on its way: ok_pending never stops hfp_hf_run_for_context for *)
(* good, however errors, suggestions of codecs and calls fall together.    *)
THEOREM AnswerStaysComing == Spec => []AnswerIsComing
<1>1. Inv => AnswerIsComing
  BY DEF Inv, ChannelSound, AnswerIsComing, Waits, Coming
<1> QED BY <1>1, Invariant, PTL

-----------------------------------------------------------------------------
(* The codec of a link the gateway opens.                                  *)

(* The commands that answer a suggestion, and the last of those that set   *)
(* up a service level connection.                                          *)
Replies == {"BCS", "BAC"}
Late    == {"CMER", "CHLD", "BIND?"}

(* States whose commands come before the codecs are sent. *)
Early == {"EXCHANGE_SUPPORTED_FEATURES", "W4_EXCHANGE_SUPPORTED_FEATURES",
          "NOTIFY_ON_CODECS"}

Has(q, names) == \E i \in DOMAIN q : q[i][1] \in names
One(q, names) ==
  \A i, j \in DOMAIN q : q[i][1] \in names /\ q[j][1] \in names => i = j
All(q, name, codec) == \A i \in DOMAIN q : q[i][1] = name => q[i][2] = codec
BacFirst(q) ==
  \A i, j \in DOMAIN q : q[i][1] \in Late /\ q[j][1] = "BAC" => j < i

LEMMA EmptyHas ==
  /\ \A names : ~ Has(<<>>, names) /\ One(<<>>, names)
  /\ \A name, codec : All(<<>>, name, codec)
  /\ BacFirst(<<>>)
<1>1. DOMAIN <<>> = {}
  OBVIOUS
<1> QED BY <1>1 DEF Has, One, All, BacFirst

LEMMA Appended ==
  ASSUME NEW S, NEW q \in Seq(S), NEW x \in S
  PROVE  LET r == Append(q, x) IN
         /\ r \in Seq(S)
         /\ DOMAIN r = DOMAIN q \cup {Len(q) + 1}
         /\ Len(q) \in Nat /\ \A i \in DOMAIN q : i \in 1 .. Len(q)
         /\ r[Len(q) + 1] = x /\ \A i \in DOMAIN q : r[i] = q[i]
<1>1. /\ Append(q, x) \in Seq(S) /\ Len(Append(q, x)) = Len(q) + 1
      /\ Append(q, x)[Len(q) + 1] = x
      /\ \A i \in 1 .. Len(q) : Append(q, x)[i] = q[i]
      /\ Len(q) \in Nat /\ DOMAIN q = 1 .. Len(q)
      /\ DOMAIN Append(q, x) = 1 .. Len(Append(q, x))
  BY AppendProperties, LenProperties
<1>2. 1 .. (Len(q) + 1) = 1 .. Len(q) \cup {Len(q) + 1}
  BY <1>1
<1> QED BY <1>1, <1>2

LEMMA AppendHas ==
  ASSUME NEW S, NEW q \in Seq(S), NEW x \in S
  PROVE  LET r == Append(q, x) IN
         /\ \A names : Has(r, names) <=> Has(q, names) \/ x[1] \in names
         /\ \A names : One(q, names) /\ (x[1] \in names => ~ Has(q, names))
                         => One(r, names)
         /\ \A name, codec : All(r, name, codec)
                <=> All(q, name, codec) /\ (x[1] = name => x[2] = codec)
         /\ BacFirst(q) /\ (x[1] = "BAC" => ~ Has(q, Late)) => BacFirst(r)
<1> DEFINE r == Append(q, x)
           n == Len(q) + 1
<1>1. /\ DOMAIN r = DOMAIN q \cup {n} /\ r[n] = x
      /\ \A i \in DOMAIN q : r[i] = q[i] /\ i < n /\ i \in Nat
      /\ n \in Nat
  BY Appended
<1> HIDE DEF r, n
<1>2. \A names : Has(r, names) <=> Has(q, names) \/ x[1] \in names
  BY <1>1 DEF Has
<1>3. ASSUME NEW names, One(q, names), x[1] \in names => ~ Has(q, names)
      PROVE  One(r, names)
  BY <1>1, <1>3 DEF One, Has
<1>4. \A name, codec : All(r, name, codec)
                <=> All(q, name, codec) /\ (x[1] = name => x[2] = codec)
  BY <1>1 DEF All
<1>5. ASSUME BacFirst(q), x[1] = "BAC" => ~ Has(q, Late) PROVE BacFirst(r)
  <2> SUFFICES ASSUME NEW i \in DOMAIN r, NEW j \in DOMAIN r,
                      r[i][1] \in Late, r[j][1] = "BAC"
               PROVE  j < i
    BY DEF BacFirst
  <2>1. "BAC" \notin Late
    BY DEF Late
  <2>2. CASE i = n
    BY <1>1, <2>1, <2>2
  <2>3. CASE i # n
    BY <1>1, <1>5, <2>3 DEF BacFirst, Has
  <2> QED BY <2>2, <2>3
<1> QED BY <1>2, <1>3, <1>4, <1>5 DEF r

LEMMA TailHas ==
  ASSUME NEW S, NEW q \in Seq(S), q # <<>>
  PROVE  LET x == Head(q)
             r == Tail(q)
         IN  /\ x \in S /\ r \in Seq(S)
             /\ \A names : Has(q, names) <=> Has(r, names) \/ x[1] \in names
             /\ \A names : One(q, names)
                  => One(r, names) /\ (x[1] \in names => ~ Has(r, names))
             /\ \A name, codec : All(q, name, codec)
                  <=> All(r, name, codec) /\ (x[1] = name => x[2] = codec)
             /\ BacFirst(q) => BacFirst(r) /\ (x[1] \in Late => ~ Has(r, {"BAC"}))
<1> DEFINE x == Head(q)
           r == Tail(q)
<1>1. /\ x \in S /\ r \in Seq(S) /\ x = q[1]
      /\ Len(q) \in Nat \ {0} /\ Len(r) = Len(q) - 1
      /\ \A i \in 1 .. Len(r) : r[i] = q[i + 1]
      /\ DOMAIN q = 1 .. Len(q) /\ DOMAIN r = 1 .. Len(r)
  BY HeadTailProperties, LenProperties, EmptySeq
<1> HIDE DEF x, r
<1>2. /\ 1 \in DOMAIN q /\ q[1] = x
      /\ \A i \in DOMAIN r : i \in Nat /\ i + 1 \in DOMAIN q /\ q[i + 1] = r[i] /\ 1 < i + 1
      /\ \A i \in DOMAIN q : i = 1 \/ (i - 1 \in DOMAIN r /\ r[i - 1] = q[i])
  <2>1. \A i \in DOMAIN r : i \in Nat /\ i + 1 \in DOMAIN q /\ q[i + 1] = r[i] /\ 1 < i + 1
    BY <1>1
  <2>2. \A i \in DOMAIN q : i # 1 => i - 1 \in DOMAIN r
    BY <1>1
  <2>3. \A i \in DOMAIN q : i # 1 => r[i - 1] = q[i]
    <3> TAKE i \in DOMAIN q
    <3>1. HAVE i # 1
    <3>2. i - 1 \in DOMAIN r /\ (i - 1) + 1 = i
      BY <1>1, <2>2, <3>1
    <3> QED BY <2>1, <3>2
  <2> QED BY <1>1, <2>1, <2>2, <2>3
<1>3. \A names : Has(q, names) <=> Has(r, names) \/ x[1] \in names
  BY <1>2 DEF Has
<1>4. ASSUME NEW names, One(q, names)
      PROVE  One(r, names) /\ (x[1] \in names => ~ Has(r, names))
  <2>1. \A i, j \in DOMAIN r : i + 1 = j + 1 => i = j
    BY <1>2
  <2>2. One(r, names)
    BY <1>2, <1>4, <2>1 DEF One
  <2>3. x[1] \in names => ~ Has(r, names)
    BY <1>2, <1>4 DEF One, Has
  <2> QED BY <2>2, <2>3
<1>5. \A name, codec : All(q, name, codec)
                  <=> All(r, name, codec) /\ (x[1] = name => x[2] = codec)
  BY <1>2 DEF All
<1>6. ASSUME BacFirst(q)
      PROVE  BacFirst(r) /\ (x[1] \in Late => ~ Has(r, {"BAC"}))
  <2>1. \A i, j \in DOMAIN r : j + 1 < i + 1 => j < i
    BY <1>2
  <2>2. BacFirst(r)
    BY <1>2, <1>6, <2>1 DEF BacFirst
  <2>3. x[1] \in Late => ~ Has(r, {"BAC"})
    <3> SUFFICES ASSUME x[1] \in Late, NEW i \in DOMAIN r, r[i][1] = "BAC"
                 PROVE  FALSE
      BY DEF Has
    <3>1. i + 1 < 1 /\ i \in Nat
      BY <1>2, <1>6 DEF BacFirst
    <3> QED BY <3>1
  <2> QED BY <2>2, <2>3
<1> QED BY <1>1, <1>3, <1>4, <1>5, <1>6 DEF x, r
(* A suggestion is to be confirmed, or to be answered with the codecs. *)
Confirms(c)  == "hf_send_codec_confirm" \in c.flags
Declines(c)  == "hf_send_supported_codecs" \in c.flags
Answering(c) == Confirms(c) \/ Declines(c)
Fresh(c)     == c.negotiated_codec # MSBC /\ ~ Answering(c)

(* What a handler does to the context that keeps what both sides know of   *)
(* the codec.                                                              *)
Mild(c, d) ==
  /\ Confirms(d) => Confirms(c)
  /\ Declines(d) => Declines(c)
  /\ d.state \in Early => c.state \in Early
  /\ d.negotiated_codec = MSBC =>
       /\ c.negotiated_codec = MSBC /\ d.codec_confirmed = c.codec_confirmed
       /\ Confirms(c) => Confirms(d)
  /\ ~ d.cid => ~ c.cid \/ Fresh(d)

LEMMA MildNothing == \A c : Mild(c, c)
BY DEF Mild

LEMMA MildThen == \A c, d, x : Mild(c, d) /\ Mild(d, x) => Mild(c, x)
BY DEF Mild, Fresh, Answering

LEMMA MildFresh == \A c, d : Mild(c, d) /\ Fresh(c) => Fresh(d)
BY DEF Mild, Fresh, Answering

LEMMA NotEarly ==
  /\ FromDisconnectSco \cap Early = {}
  /\ Searching \cap Early = {}
  /\ {SLC, AUDIO, "W4_SCO_CONNECTED", "W4_RFCOMM_CONNECTED", "NONE"} \cap Early = {}
BY DEF FromDisconnectSco, Searching, SLC, AUDIO, Early

LEMMA MildNoContext == \A c : Mild(c, NoContext)
<1>1. /\ NoContext.flags = {} /\ NoContext.negotiated_codec = NoCodec
      /\ NoContext.state = "NONE" /\ ~ NoContext.cid
  BY NoContextFacts DEF NoContext, NewContext
<1> QED BY <1>1 DEF Mild, Fresh, Answering, Confirms, Declines, Early, NoCodec, MSBC

(* The parts a handler is made of. *)
CodecReplies == {"hf_send_codec_confirm", "hf_send_supported_codecs"}

LEMMA MildInState ==
  \A e \in Outcomes, s \in States \ Early : Mild(e.c, InState(e, s).c)
BY DEF Outcomes, Context, InState, Mild, Confirms, Declines

LEMMA MildRaise ==
  \A e \in Outcomes, fs \in SUBSET (Flags \ CodecReplies) : Mild(e.c, Raise(e, fs).c)
BY DEF Outcomes, Context, Raise, Mild, Confirms, Declines, CodecReplies

LEMMA MildLower ==
  \A e \in Outcomes, fs \in SUBSET (Flags \ CodecReplies) : Mild(e.c, Lower(e, fs).c)
BY DEF Outcomes, Context, Lower, Mild, Confirms, Declines, CodecReplies

(* Contexts that agree on all that Mild looks at. *)
LEMMA MildSame ==
  \A c, d : /\ d.flags = c.flags /\ d.state = c.state /\ d.cid = c.cid
            /\ \/ d.negotiated_codec # MSBC
               \/ /\ d.negotiated_codec = c.negotiated_codec
                  /\ d.codec_confirmed = c.codec_confirmed
            => Mild(c, d)
BY DEF Mild, Confirms, Declines

LEMMA MildClosed == \A e \in Outcomes : Mild(e.c, ChannelClosed(e).c)
<1> SUFFICES ASSUME NEW e \in Outcomes PROVE Mild(e.c, ChannelClosed(e).c)
  OBVIOUS
<1>1. CASE e.c.state = AUDIO
  <2> DEFINE a == InState(e, "W4_SCO_DISCONNECTED_TO_SHUTDOWN")
             b == Lower(a, {"release_audio_connection"})
             d == [b EXCEPT !.c.acl = FALSE]
  <2>1. a \in Outcomes /\ Mild(e.c, a.c)
    <3>1. "W4_SCO_DISCONNECTED_TO_SHUTDOWN" \in States \ Early
      BY StateFacts DEF FromDisconnectSco, Early
    <3> QED BY <3>1, InStateFacts, MildInState
  <2> HIDE DEF a
  <2>2. b \in Outcomes /\ Mild(a.c, b.c)
    <3>1. {"release_audio_connection"} \in SUBSET (Flags \ CodecReplies)
      BY DEF Flags, CodecReplies
    <3> QED BY <2>1, <3>1, LowerFacts, MildLower
  <2> HIDE DEF b
  <2>3. /\ d \in Outcomes /\ d.c.flags = b.c.flags /\ d.c.state = b.c.state
        /\ d.c.cid = b.c.cid /\ d.c.negotiated_codec = b.c.negotiated_codec
        /\ d.c.codec_confirmed = b.c.codec_confirmed
    BY <2>2 DEF Outcomes, Context
  <2> HIDE DEF d
  <2>4. Mild(b.c, d.c)
    BY <2>3, MildSame
  <2>5. ChannelClosed(e).c = d.c
    <3>1. ChannelClosed(e) = Ask(d, "disconnect sco")
      BY <1>1 DEF ChannelClosed, d, b, a
    <3> QED BY <2>3, <3>1, AskFacts DEF Asked
  <2> QED BY <2>1, <2>2, <2>4, <2>5, MildThen
<1>2. CASE e.c.state # AUDIO
  <2>1. ChannelClosed(e) = HandleSlcSetupError(e)
    BY <1>2 DEF ChannelClosed, HandleSlcSetupError
  <2> QED BY <2>1, QuietSetupError, MildNoContext
<1> QED BY <1>1, <1>2

LEMMA MildScoDisconnected ==
  \A e \in Outcomes : Mild(e.c, ScoDisconnected(e).c)
<1> SUFFICES ASSUME NEW e \in Outcomes PROVE Mild(e.c, ScoDisconnected(e).c)
  OBVIOUS
<1> DEFINE a == InState(e, SLC)
           b == Lower(a, {"release_audio_connection"})
           d == [b EXCEPT !.c.sco = FALSE, !.app.audio = NoAudio]
           f == InState(d, "W2_DISCONNECT_RFCOMM")
           g == Lower(f, {"release_slc_connection"})
<1>1. a \in Outcomes /\ Mild(e.c, a.c)
  <2>1. SLC \in States \ Early
    BY StateFacts, NotEarly
  <2> QED BY <2>1, InStateFacts, MildInState
<1>2. b \in Outcomes /\ Mild(a.c, b.c)
  <2>1. {"release_audio_connection"} \in SUBSET (Flags \ CodecReplies)
    BY DEF Flags, CodecReplies
  <2> HIDE DEF a
  <2> QED BY <1>1, <2>1, LowerFacts, MildLower
<1>3. /\ d \in Outcomes /\ Mild(b.c, d.c)
  <2> HIDE DEF b
  <2>1. /\ d \in Outcomes /\ d.c.flags = b.c.flags /\ d.c.state = b.c.state
        /\ d.c.cid = b.c.cid /\ d.c.negotiated_codec = b.c.negotiated_codec
        /\ d.c.codec_confirmed = b.c.codec_confirmed
    BY <1>2 DEF Outcomes, Context, Told
  <2> HIDE DEF d
  <2> QED BY <2>1, MildSame
<1>4. /\ f \in Outcomes /\ Mild(d.c, f.c)
  <2>1. "W2_DISCONNECT_RFCOMM" \in States \ Early
    BY StateFacts DEF FromDisconnectSco, Early
  <2> HIDE DEF d
  <2> QED BY <1>3, <2>1, InStateFacts, MildInState
<1>5. /\ g \in Outcomes /\ Mild(f.c, g.c)
  <2>1. {"release_slc_connection"} \in SUBSET (Flags \ CodecReplies)
    BY DEF Flags, CodecReplies
  <2> HIDE DEF f
  <2> QED BY <1>4, <2>1, LowerFacts, MildLower
<1>6. ScoDisconnected(e) = IF ~ e.c.acl THEN [Finalize(d) EXCEPT !.app.slc = FALSE]
      ELSE IF Raised(e, "release_slc_connection") THEN g ELSE d
  BY DEF ScoDisconnected
<1> HIDE DEF a, b, d, f, g
<1>7. [Finalize(d) EXCEPT !.app.slc = FALSE].c = NoContext
  BY <1>3, QuietSetupError DEF HandleSlcSetupError
<1> QED BY <1>1, <1>2, <1>3, <1>4, <1>5, <1>6, <1>7, MildThen, MildNoContext

LEMMA MildRetry == \A e \in Outcomes : Mild(e.c, TryNextSetting(e).c)
<1> SUFFICES ASSUME NEW e \in Outcomes PROVE Mild(e.c, TryNextSetting(e).c)
  OBVIOUS
<1> DEFINE a == Raise(e, {"establish_audio_connection"})
           next == NextSetting(e)
           codec == IF next = NoSetting THEN CVSD ELSE a.c.negotiated_codec
           d == [a EXCEPT !.c.link_setting = next, !.c.negotiated_codec = codec]
<1>1. a \in Outcomes /\ Mild(e.c, a.c)
  <2>1. {"establish_audio_connection"} \in SUBSET (Flags \ CodecReplies)
    BY DEF Flags, CodecReplies
  <2> QED BY <2>1, RaiseFacts, MildRaise
<1>2. TryNextSetting(e) = d
  BY DEF TryNextSetting
<1> HIDE DEF a, next
<1>3. codec = a.c.negotiated_codec \/ codec # MSBC
  BY DEF CVSD, MSBC
<1> HIDE DEF codec
<1>4. /\ d.c.flags = a.c.flags /\ d.c.state = a.c.state /\ d.c.cid = a.c.cid
      /\ d.c.negotiated_codec = codec /\ d.c.codec_confirmed = a.c.codec_confirmed
  BY <1>1 DEF Outcomes, Context
<1> HIDE DEF d
<1>5. Mild(a.c, d.c)
  BY <1>3, <1>4, MildSame
<1> QED BY <1>1, <1>2, <1>5, MildThen

LEMMA MildAudioFailed == \A e \in Outcomes : Mild(e.c, AudioFailed(e).c)
<1> SUFFICES ASSUME NEW e \in Outcomes PROVE Mild(e.c, AudioFailed(e).c)
  OBVIOUS
<1> DEFINE a == InState(e, SLC)
<1>1. a \in Outcomes /\ Mild(e.c, a.c)
  <2>1. SLC \in States \ Early
    BY StateFacts, NotEarly
  <2> QED BY <2>1, InStateFacts, MildInState
<1>2. AudioFailed(e) = Lower(a, {"establish_audio_connection"})
  BY DEF AudioFailed
<1> HIDE DEF a
<1>3. {"establish_audio_connection"} \in SUBSET (Flags \ CodecReplies)
  BY DEF Flags, CodecReplies
<1> QED BY <1>1, <1>2, <1>3, MildLower, MildThen

LEMMA MildSyncConnected == \A e \in Outcomes : Mild(e.c, SyncConnected(e).c)
<1> SUFFICES ASSUME NEW e \in Outcomes PROVE Mild(e.c, SyncConnected(e).c)
  OBVIOUS
<1> DEFINE a == InState(e, AUDIO)
           b == Lower(a, {"establish_audio_connection"})
           d == [b EXCEPT !.c.sco = TRUE, !.app.audio = e.c.negotiated_codec]
<1>1. {AUDIO, "W2_DISCONNECT_SCO"} \subseteq States \ Early
  BY StateFacts, NotEarly DEF FromDisconnectSco
<1>2. a \in Outcomes /\ Mild(e.c, a.c)
  BY <1>1, InStateFacts, MildInState
<1>3. b \in Outcomes /\ Mild(a.c, b.c)
  <2>1. {"establish_audio_connection"} \in SUBSET (Flags \ CodecReplies)
    BY DEF Flags, CodecReplies
  <2> HIDE DEF a
  <2> QED BY <1>2, <2>1, LowerFacts, MildLower
<1>4. SyncConnected(e) \in {InState(e, "W2_DISCONNECT_SCO"), d}
  BY DEF SyncConnected
<1> HIDE DEF a, b
<1>5. /\ d.c.flags = b.c.flags /\ d.c.state = b.c.state
      /\ d.c.cid = b.c.cid /\ d.c.negotiated_codec = b.c.negotiated_codec
      /\ d.c.codec_confirmed = b.c.codec_confirmed
  BY <1>3 DEF Outcomes, Context
<1> HIDE DEF d
<1>6. Mild(b.c, d.c)
  BY <1>5, MildSame
<1>7. Mild(e.c, InState(e, "W2_DISCONNECT_SCO").c)
  BY <1>1, MildInState
<1> QED BY <1>2, <1>3, <1>4, <1>6, <1>7, MildThen

LEMMA MildReset ==
  \A e \in Outcomes : /\ Mild(e.c, ResetContextFlags(e).c)
                      /\ ResetContextFlags(e).c.negotiated_codec # MSBC
<1> SUFFICES ASSUME NEW e \in Outcomes
             PROVE  /\ Mild(e.c, ResetContextFlags(e).c)
                    /\ ResetContextFlags(e).c.negotiated_codec # MSBC
  OBVIOUS
<1> DEFINE fs == {"establish_audio_connection", "enable_status_update"}
           a == Lower(e, fs)
           d == [a EXCEPT !.c.ok_pending = FALSE, !.c.negotiated_codec = NoCodec,
                          !.c.codec_confirmed = NoCodec]
<1>1. a \in Outcomes /\ Mild(e.c, a.c)
  <2>1. fs \in SUBSET (Flags \ CodecReplies) /\ fs \in SUBSET Flags
    BY DEF Flags, CodecReplies
  <2> HIDE DEF fs
  <2> QED BY <2>1, LowerFacts, MildLower
<1>2. ResetContextFlags(e) = d
  BY DEF ResetContextFlags
<1> HIDE DEF a
<1>3. /\ d.c.flags = a.c.flags /\ d.c.state = a.c.state /\ d.c.cid = a.c.cid
      /\ d.c.negotiated_codec = NoCodec
  BY <1>1 DEF Outcomes, Context
<1> HIDE DEF d
<1>4. NoCodec # MSBC
  BY DEF NoCodec, MSBC
<1>5. Mild(a.c, d.c)
  BY <1>3, <1>4, MildSame
<1> QED BY <1>1, <1>2, <1>3, <1>4, <1>5, MildThen

(* Answers move the setup on, and never back to the exchange of features.  *)
LEMMA MildSlcEstablished == \A e \in Outcomes : Mild(e.c, SlcEstablished(e).c)
<1> SUFFICES ASSUME NEW e \in Outcomes PROVE Mild(e.c, SlcEstablished(e).c)
  OBVIOUS
<1> DEFINE a == InState(e, SLC)
           b == Raise(a, {"send_speaker_gain", "send_microphone_gain"})
<1>1. a \in Outcomes /\ Mild(e.c, a.c)
  <2>1. SLC \in States \ Early
    BY StateFacts, NotEarly
  <2> QED BY <2>1, InStateFacts, MildInState
<1>2. b \in Outcomes /\ Mild(a.c, b.c)
  <2>1. {"send_speaker_gain", "send_microphone_gain"}
          \in SUBSET (Flags \ CodecReplies)
    BY DEF Flags, CodecReplies
  <2> HIDE DEF a
  <2> QED BY <1>1, <2>1, RaiseFacts, MildRaise
<1>3. SlcEstablished(e) = [b EXCEPT !.app.slc = TRUE]
  BY DEF SlcEstablished
<1> HIDE DEF a, b
<1>4. SlcEstablished(e).c = b.c
  BY <1>2, <1>3 DEF Outcomes
<1> QED BY <1>1, <1>2, <1>4, MildThen

LEMMA MildAnswerAtSlc == \A e \in Outcomes : Mild(e.c, AnswerAtSlc(e).c)
<1> SUFFICES ASSUME NEW e \in Outcomes PROVE Mild(e.c, AnswerAtSlc(e).c)
  OBVIOUS
<1>1. Mild(e.c, Lower(e, {"enable_status_update"}).c)
  <2>1. {"enable_status_update"} \in SUBSET (Flags \ CodecReplies)
    BY DEF Flags, CodecReplies
  <2> QED BY <2>1, MildLower
<1>2. ASSUME NEW s PROVE Mild(e.c, [e EXCEPT !.c.codecs_state = s].c)
  <2> DEFINE d == [e EXCEPT !.c.codecs_state = s]
  <2>1. /\ d.c.flags = e.c.flags /\ d.c.state = e.c.state /\ d.c.cid = e.c.cid
        /\ d.c.negotiated_codec = e.c.negotiated_codec
        /\ d.c.codec_confirmed = e.c.codec_confirmed
    BY DEF Outcomes, Context
  <2> HIDE DEF d
  <2>2. Mild(e.c, d.c)
    BY <2>1, MildSame
  <2> QED BY <2>2 DEF d
<1> QED BY <1>1, <1>2, MildNothing DEF AnswerAtSlc

LEMMA AfterAnswerEarly ==
  \A s \in ToBeAnswered, f \in SUBSET FeatureNames :
    AfterAnswer(s, f) \in Early => s \in Early
<1> SUFFICES ASSUME NEW s \in ToBeAnswered, NEW f \in SUBSET FeatureNames,
                    s \notin Early
             PROVE  AfterAnswer(s, f) \notin Early
  OBVIOUS
<1> QED BY Intervals DEF AfterAnswer, Early, SLC

LEMMA MildOk ==
  \A e \in Outcomes : Mild(e.c, SwitchOnOkPending(e).c)
                        /\ SwitchOnOkPending(e) \in Outcomes
<1> SUFFICES ASSUME NEW e \in Outcomes PROVE Mild(e.c, SwitchOnOkPending(e).c)
  BY QuietOk DEF Quiet
<1> DEFINE a == [e EXCEPT !.c.ok_pending = FALSE]
           next == AfterAnswer(e.c.state, e.c.features)
<1>1. /\ a \in Outcomes /\ a.c.flags = e.c.flags /\ a.c.state = e.c.state
      /\ a.c.cid = e.c.cid /\ a.c.negotiated_codec = e.c.negotiated_codec
      /\ a.c.codec_confirmed = e.c.codec_confirmed
  BY DEF Outcomes, Context
<1>2. \/ SwitchOnOkPending(e) = SlcEstablished(a)
      \/ /\ e.c.state \in ToBeAnswered /\ next # SLC
         /\ SwitchOnOkPending(e) = InState(a, next)
      \/ SwitchOnOkPending(e) = AnswerAtSlc(a)
      \/ SwitchOnOkPending(e) = a
  BY DEF SwitchOnOkPending
<1>3. e.c.features \in SUBSET FeatureNames
  BY DEF Outcomes, Context
<1> HIDE DEF a, next
<1>4. Mild(e.c, a.c)
  BY <1>1, MildSame
<1>5. CASE /\ e.c.state \in ToBeAnswered /\ next # SLC
           /\ SwitchOnOkPending(e) = InState(a, next)
  <2>1. next \in States /\ (next \in Early => a.c.state \in Early)
    <3>1. next \in ToSend
      BY <1>3, <1>5, AfterAnswerFacts DEF next
    <3> QED BY <1>1, <1>3, <1>5, <3>1, AfterAnswerEarly, StateFacts DEF next
  <2>2. Mild(a.c, InState(a, next).c)
    BY <1>1, <2>1 DEF Outcomes, Context, InState, Mild, Confirms, Declines
  <2> QED BY <1>4, <1>5, <2>2, MildThen
<1> QED BY <1>1, <1>2, <1>4, <1>5, MildSlcEstablished, MildAnswerAtSlc, MildThen

(* An error also makes the unit forget the codec. *)
LEMMA MildError ==
  \A e \in Outcomes : /\ Mild(e.c, HandleError(e).c)
                      /\ HandleError(e).c.negotiated_codec # MSBC
BY MildReset, MildOk, MildThen DEF HandleError

LEMMA MildFeatures ==
  \A e \in Outcomes : \A f : Mild(e.c, [e EXCEPT !.c.features = f].c)
<1> SUFFICES ASSUME NEW e \in Outcomes, NEW f
             PROVE  Mild(e.c, [e EXCEPT !.c.features = f].c)
  OBVIOUS
<1> DEFINE d == [e EXCEPT !.c.features = f]
<1>1. /\ d.c.flags = e.c.flags /\ d.c.state = e.c.state /\ d.c.cid = e.c.cid
      /\ d.c.negotiated_codec = e.c.negotiated_codec
      /\ d.c.codec_confirmed = e.c.codec_confirmed
  BY DEF Outcomes, Context
<1> HIDE DEF d
<1>2. Mild(e.c, d.c)
  BY <1>1, MildSame
<1> QED BY <1>2 DEF d

(* Calls of the application. *)
LEMMA MildEstablish == \A e \in Outcomes : Mild(e.c, EstablishAudio(e).c)
<1> SUFFICES ASSUME NEW e \in Outcomes PROVE Mild(e.c, EstablishAudio(e).c)
  OBVIOUS
<1> DEFINE d == Raise(e, {"trigger_codec_exchange"})
           a == InState(e, "W4_SCO_CONNECTED")
           b == Raise(a, {"establish_audio_connection"})
           setting == NextLinkSetting(NoSetting, CVSD, "s4" \in e.c.features)
           fresh == [d EXCEPT !.c.codec_confirmed = NoCodec,
                              !.c.negotiated_codec = NoCodec,
                              !.c.codecs_state = "RECEIVED_TRIGGER_CODEC_EXCHANGE"]
           direct == [b EXCEPT !.c.codecs_state = "EXCHANGED",
                               !.c.codec_confirmed = CVSD,
                               !.c.negotiated_codec = CVSD,
                               !.c.link_setting = setting]
<1>1. EstablishAudio(e) \in {e, d, fresh, direct}
  BY DEF EstablishAudio
<1>2. d \in Outcomes /\ Mild(e.c, d.c)
  <2>1. {"trigger_codec_exchange"} \in SUBSET (Flags \ CodecReplies)
    BY DEF Flags, CodecReplies
  <2> QED BY <2>1, RaiseFacts, MildRaise
<1>3. a \in Outcomes /\ Mild(e.c, a.c)
  <2>1. "W4_SCO_CONNECTED" \in States \ Early
    BY StateFacts, NotEarly
  <2> QED BY <2>1, InStateFacts, MildInState
<1>4. b \in Outcomes /\ Mild(a.c, b.c)
  <2>1. {"establish_audio_connection"} \in SUBSET (Flags \ CodecReplies)
    BY DEF Flags, CodecReplies
  <2> HIDE DEF a
  <2> QED BY <1>3, <2>1, RaiseFacts, MildRaise
<1> HIDE DEF a, b, d, setting
<1>5. Mild(d.c, fresh.c)
  <2>1. /\ fresh.c.flags = d.c.flags /\ fresh.c.state = d.c.state
        /\ fresh.c.cid = d.c.cid /\ fresh.c.negotiated_codec = NoCodec
    BY <1>2 DEF Outcomes, Context
  <2>2. NoCodec # MSBC
    BY DEF NoCodec, MSBC
  <2> HIDE DEF fresh
  <2> QED BY <2>1, <2>2, MildSame
<1>6. Mild(b.c, direct.c)
  <2>1. /\ direct.c.flags = b.c.flags /\ direct.c.state = b.c.state
        /\ direct.c.cid = b.c.cid /\ direct.c.negotiated_codec = CVSD
    BY <1>4 DEF Outcomes, Context
  <2>2. CVSD # MSBC
    BY DEF CVSD, MSBC
  <2> HIDE DEF direct
  <2> QED BY <2>1, <2>2, MildSame
<1> HIDE DEF fresh, direct
<1> QED BY <1>1, <1>2, <1>3, <1>4, <1>5, <1>6, MildThen, MildNothing

LEMMA MildReleaseAudio ==
  \A e \in Outcomes : Mild(e.c, TriggerReleaseAudio(e).c)
<1> SUFFICES ASSUME NEW e \in Outcomes PROVE Mild(e.c, TriggerReleaseAudio(e).c)
  OBVIOUS
<1>1. {"release_audio_connection"} \in SUBSET (Flags \ CodecReplies)
  BY DEF Flags, CodecReplies
<1> QED BY <1>1, MildRaise, MildNothing DEF TriggerReleaseAudio

LEMMA MildReleaseSlc == \A e \in Outcomes : Mild(e.c, TriggerReleaseSlc(e).c)
<1> SUFFICES ASSUME NEW e \in Outcomes PROVE Mild(e.c, TriggerReleaseSlc(e).c)
  OBVIOUS
<1> DEFINE r == TriggerReleaseAudio(e)
           s == Raise(r, {"release_slc_connection"})
           t == InState(s, "W2_DISCONNECT_SCO")
<1>1. r \in Outcomes /\ Mild(e.c, r.c)
  BY QuietReleaseAudio, MildReleaseAudio DEF Quiet
<1>2. s \in Outcomes /\ Mild(r.c, s.c)
  <2>1. {"release_slc_connection"} \in SUBSET (Flags \ CodecReplies)
    BY DEF Flags, CodecReplies
  <2> HIDE DEF r
  <2> QED BY <1>1, <2>1, RaiseFacts, MildRaise
<1>3. \/ TriggerReleaseSlc(e) = InState(r, "IDLE")
      \/ TriggerReleaseSlc(e) = InState(r, "W4_CONNECTION_ESTABLISHED_TO_SHUTDOWN")
      \/ TriggerReleaseSlc(e) = InState(s, "W2_DISCONNECT_RFCOMM")
      \/ TriggerReleaseSlc(e) = Raise(t, {"release_audio_connection"})
      \/ TriggerReleaseSlc(e) = s
  BY DEF TriggerReleaseSlc
<1>4. /\ "IDLE" \in States \ Early
      /\ "W4_CONNECTION_ESTABLISHED_TO_SHUTDOWN" \in States \ Early
      /\ "W2_DISCONNECT_RFCOMM" \in States \ Early
      /\ "W2_DISCONNECT_SCO" \in States \ Early
  BY StateFacts DEF FromDisconnectSco, Searching, Early
<1> HIDE DEF r, s
<1>5. t \in Outcomes /\ Mild(s.c, t.c)
  BY <1>2, <1>4, InStateFacts, MildInState
<1> HIDE DEF t
<1>6. Mild(t.c, Raise(t, {"release_audio_connection"}).c)
  <2>1. {"release_audio_connection"} \in SUBSET (Flags \ CodecReplies)
    BY DEF Flags, CodecReplies
  <2> QED BY <1>5, <2>1, MildRaise
<1>7. Mild(r.c, InState(r, "IDLE").c)
      /\ Mild(r.c, InState(r, "W4_CONNECTION_ESTABLISHED_TO_SHUTDOWN").c)
      /\ Mild(s.c, InState(s, "W2_DISCONNECT_RFCOMM").c)
  BY <1>1, <1>2, <1>4, MildInState
<1> QED BY <1>1, <1>2, <1>3, <1>5, <1>6, <1>7, MildThen

-----------------------------------------------------------------------------
(* What context and gateway know of the codec while the channel is open.   *)
(* Of a suggestion there is one at a time: on its way, to be answered, or  *)
(* answered by a command on its way; without one the gateway asks for      *)
(* nothing.  With mSBC agreed by the unit the gateway agreed too, or its   *)
(* refusal or the confirmation is still to come.  Before the service level *)
(* connection there is no suggestion, and the codecs that are sent then    *)
(* come before the command that completes it.                              *)
Agreed(c, q, h, g) ==
  IF g.slc
    THEN /\ c.state \notin Early
         /\ One(h, {"+BCS"}) /\ One(q, Replies)
         /\ Has(h, {"+BCS"}) => ~ Answering(c) /\ ~ Has(q, Replies)
         /\ Has(q, Replies) => ~ Answering(c)
         /\ ~ (Confirms(c) /\ Declines(c))
         /\ g.asked = NoCodec =>
              ~ Has(h, {"+BCS"}) /\ ~ Answering(c) /\ ~ Has(q, Replies)
         /\ All(h, "+BCS", g.asked)
         /\ c.negotiated_codec = MSBC =>
              /\ Confirms(c) => c.codec_confirmed = MSBC /\ g.asked = MSBC
              /\ Has(q, {"BCS"}) => All(q, "BCS", MSBC) /\ g.asked = MSBC
              /\ \/ g.codec = MSBC \/ Has(h, {"ERROR"})
                 \/ Confirms(c) \/ Has(q, {"BCS"})
    ELSE /\ g.asked = NoCodec /\ ~ Has(h, {"+BCS"}) /\ ~ Has(q, {"BCS"})
         /\ Fresh(c)
         /\ c.state \in Early => ~ Has(q, Late)
         /\ BacFirst(q)

LEMMA MildAgreed ==
  \A c, d, q, h, g : Mild(c, d) /\ Agreed(c, q, h, g) => Agreed(d, q, h, g)
BY DEF Mild, Agreed, Fresh, Answering

(* A run of the context sends commands after those on their way, keeps     *)
(* what is agreed, and frees the context at most.                          *)
Kept(e, r) ==
  /\ \A base \in Seq(ToGateway) : \A h, g :
       Agreed(e.c, base \o e.cmds, h, g) => Agreed(r.c, base \o r.cmds, h, g)
  /\ r.c.negotiated_codec = MSBC => e.c.negotiated_codec = MSBC
  /\ Answering(r.c) => Answering(e.c)
  /\ ~ r.c.cid => ~ e.c.cid \/ Fresh(r.c)

LEMMA KeptMild == \A e, r : Mild(e.c, r.c) /\ r.cmds = e.cmds => Kept(e, r)
BY MildAgreed DEF Kept, Mild, Answering

LEMMA KeptThen == \A e, d, r : Kept(e, d) /\ Kept(d, r) => Kept(e, r)
BY DEF Kept, Fresh

(* A command that has nothing to do with codecs. *)
LEMMA AgreedSending ==
  ASSUME NEW c, NEW q \in Seq(ToGateway), NEW h, NEW g, Agreed(c, q, h, g),
         NEW x \in ToGateway, x[1] \notin Replies,
         x[1] \in Late => c.state \notin Early
  PROVE  Agreed(c, Append(q, x), h, g)
<1> DEFINE r == Append(q, x)
<1>1. /\ Has(r, Replies) <=> Has(q, Replies)
      /\ Has(r, {"BCS"}) <=> Has(q, {"BCS"})
      /\ Has(r, Late) => Has(q, Late) \/ c.state \notin Early
      /\ One(q, Replies) => One(r, Replies)
      /\ All(r, "BCS", MSBC) <=> All(q, "BCS", MSBC)
      /\ BacFirst(q) => BacFirst(r)
  BY AppendHas DEF Replies
<1> HIDE DEF r
<1> QED BY <1>1 DEF Agreed, r

LEMMA SentAfter ==
  \A base, cmds \in Seq(ToGateway), x \in ToGateway :
    /\ base \o cmds \in Seq(ToGateway)
    /\ base \o Append(cmds, x) = Append(base \o cmds, x)
<1> TAKE base, cmds \in Seq(ToGateway), x \in ToGateway
<1>1. base \o cmds \in Seq(ToGateway)
  BY ConcatProperties
<1>2. /\ Append(cmds, x) = cmds \o <<x>>
      /\ Append(base \o cmds, x) = (base \o cmds) \o <<x>>
  BY <1>1, AppendIsConcat
<1>3. <<x>> \in Seq(ToGateway)
  OBVIOUS
<1>4. (base \o cmds) \o <<x>> = base \o (cmds \o <<x>>)
  BY <1>3, ConcatAssociative
<1> QED BY <1>1, <1>2, <1>4

LEMMA KeptSending ==
  ASSUME NEW e \in Outcomes, NEW r, NEW x \in ToGateway,
         r.cmds = Append(e.cmds, x), Mild(e.c, r.c),
         x[1] \notin Replies, x[1] \in Late => e.c.state \notin Early
  PROVE  Kept(e, r)
<1>1. ASSUME NEW base \in Seq(ToGateway), NEW h, NEW g,
             Agreed(e.c, base \o e.cmds, h, g)
      PROVE  Agreed(r.c, base \o r.cmds, h, g)
  <2>1. e.cmds \in Seq(ToGateway)
    BY DEF Outcomes
  <2> DEFINE q == base \o e.cmds
  <2>2. q \in Seq(ToGateway) /\ base \o r.cmds = Append(q, x)
    BY <2>1, SentAfter
  <2>3. Agreed(e.c, q, h, g)
    BY <1>1
  <2> HIDE DEF q
  <2>4. Agreed(e.c, Append(q, x), h, g)
    BY <2>2, <2>3, AgreedSending
  <2> QED BY <2>2, <2>4, MildAgreed
<1> QED BY <1>1 DEF Kept, Mild, Answering

(* What sending does to the outcome. *)
LEMMA SendFields ==
  ASSUME NEW e \in Outcomes, NEW command \in CommandNames, NEW codec \in Codecs
  PROVE  /\ <<command, codec>> \in ToGateway
         /\ Send(e, command, codec).cmds = Append(e.cmds, <<command, codec>>)
         /\ Send(e, command, codec).c = e.c
         /\ SendAndWait(e, command, codec).cmds = Append(e.cmds, <<command, codec>>)
         /\ Mild(e.c, SendAndWait(e, command, codec).c)
<1> DEFINE more == Append(e.cmds, <<command, codec>>)
           d == [e EXCEPT !.cmds = more]
           r == [d EXCEPT !.c.ok_pending = TRUE]
<1>1. <<command, codec>> \in ToGateway
  BY DEF ToGateway
<1>2. Send(e, command, codec) = d /\ SendAndWait(e, command, codec) = r
  BY DEF Send, SendAndWait
<1> HIDE DEF more
<1>3. d.cmds = more /\ d.c = e.c
  BY DEF Outcomes
<1>4. r.cmds = more
  BY DEF Outcomes
<1>5. /\ r.c.flags = e.c.flags /\ r.c.state = e.c.state /\ r.c.cid = e.c.cid
      /\ r.c.negotiated_codec = e.c.negotiated_codec
      /\ r.c.codec_confirmed = e.c.codec_confirmed
  BY DEF Outcomes, Context
<1> HIDE DEF d, r
<1>6. Mild(e.c, r.c)
  BY <1>5, MildSame
<1> QED BY <1>1, <1>2, <1>3, <1>4, <1>6 DEF more

LEMMA KeptPlainSending ==
  ASSUME NEW e \in Outcomes, NEW command \in CommandNames, NEW codec \in Codecs,
         command \notin Replies, command \in Late => e.c.state \notin Early
  PROVE  Kept(e, Send(e, command, codec)) /\ Kept(e, SendAndWait(e, command, codec))
<1> DEFINE x == <<command, codec>>
<1>1. /\ x \in ToGateway /\ x[1] = command
      /\ Send(e, command, codec).cmds = Append(e.cmds, x)
      /\ SendAndWait(e, command, codec).cmds = Append(e.cmds, x)
  BY SendFields
<1>2. /\ Mild(e.c, Send(e, command, codec).c)
      /\ Mild(e.c, SendAndWait(e, command, codec).c)
  BY SendFields, MildNothing
<1> HIDE DEF x
<1> QED BY <1>1, <1>2, KeptSending

-----------------------------------------------------------------------------
(* The machines of hfp_hf_run_for_context. *)
LEMMA KeptService ==
  \A e \in Outcomes : SlcHasWork(e) => Kept(e, RunServiceLevelConnection(e))
<1> SUFFICES ASSUME NEW e \in Outcomes, SlcHasWork(e)
             PROVE  Kept(e, RunServiceLevelConnection(e))
  OBVIOUS
<1> DEFINE s == e.c.state
           w == SlcWait[s]
           x == SlcCommand[s]
           a == InState(e, w)
           r == Send(a, x, NoCodec)
<1>1. /\ s \in ToSend /\ w \in States /\ x \in CommandNames /\ NoCodec \in Codecs
  BY StateFacts DEF SlcHasWork, Codecs
<1>2. /\ w \in Early => s \in Early
      /\ x \in Late => s \notin Early /\ w \notin Early
      /\ x \in Replies => s \in Early /\ w \notin Early /\ x = "BAC"
  BY <1>1, Intervals DEF SlcWait, SlcCommand, Early, Late, Replies
<1>3. RunServiceLevelConnection(e) = r
  BY DEF RunServiceLevelConnection
<1> HIDE DEF w, x
<1>4. /\ a \in Outcomes /\ a.cmds = e.cmds /\ a.c.state = w
      /\ a.c.flags = e.c.flags /\ a.c.cid = e.c.cid
      /\ a.c.negotiated_codec = e.c.negotiated_codec
      /\ a.c.codec_confirmed = e.c.codec_confirmed
  BY <1>1 DEF InState, Outcomes, Context
<1>5. Mild(e.c, a.c)
  BY <1>2, <1>4 DEF Mild, Confirms, Declines
<1> HIDE DEF a
<1> DEFINE y == <<x, NoCodec>>
<1>6. y \in ToGateway /\ r.cmds = Append(e.cmds, y) /\ r.c = a.c /\ y[1] = x
  BY <1>1, <1>4, SendFields
<1> HIDE DEF r, y
<1>7. CASE x \notin Replies
  BY <1>2, <1>3, <1>5, <1>6, <1>7, KeptSending
<1>8. CASE x \in Replies
  <2>1. s \in Early /\ w \notin Early /\ x = "BAC"
    BY <1>2, <1>8
  <2>2. ASSUME NEW base \in Seq(ToGateway), NEW h, NEW g,
               Agreed(e.c, base \o e.cmds, h, g)
        PROVE  Agreed(r.c, base \o r.cmds, h, g)
    <3> DEFINE q == base \o e.cmds
               more == Append(q, y)
    <3>1. q \in Seq(ToGateway) /\ base \o r.cmds = more
      <4>1. e.cmds \in Seq(ToGateway)
        BY DEF Outcomes
      <4> QED BY <1>6, <4>1, SentAfter
    <3>2. Agreed(e.c, q, h, g)
      BY <2>2
    <3> HIDE DEF q
    <3>3. /\ ~ g.slc /\ g.asked = NoCodec /\ ~ Has(h, {"+BCS"})
          /\ ~ Has(q, {"BCS"}) /\ Fresh(e.c) /\ ~ Has(q, Late) /\ BacFirst(q)
      BY <2>1, <3>2 DEF Agreed
    <3>4. ~ Has(more, {"BCS"}) /\ BacFirst(more)
      BY <1>6, <2>1, <3>1, <3>3, AppendHas
    <3> HIDE DEF more
    <3>5. Fresh(r.c) /\ r.c.state \notin Early
      BY <1>4, <1>5, <1>6, <2>1, <3>3, MildFresh
    <3> QED BY <3>1, <3>3, <3>4, <3>5 DEF Agreed
  <2> QED BY <1>3, <1>5, <1>6, <2>2 DEF Kept, Mild, Answering
<1> QED BY <1>7, <1>8

LEMMA KeptCodecs ==
  \A e \in Outcomes :
    e.c.flags \cap CodecFlags # {} => Kept(e, RunCodecs(e))
<1> SUFFICES ASSUME NEW e \in Outcomes, e.c.flags \cap CodecFlags # {}
             PROVE  Kept(e, RunCodecs(e))
  OBVIOUS
<1>1. CASE Raised(e, "trigger_codec_exchange")
  <2> DEFINE a == Lower(e, {"trigger_codec_exchange"})
  <2>1. {"trigger_codec_exchange"} \in SUBSET (Flags \ CodecReplies)
    BY DEF Flags, CodecReplies
  <2>2. a \in Outcomes /\ Mild(e.c, a.c) /\ a.cmds = e.cmds
    BY <2>1, LowerFacts, MildLower DEF SameLinks
  <2>3. RunCodecs(e) = SendAndWait(a, "BCC", NoCodec)
    BY <1>1 DEF RunCodecs
  <2> HIDE DEF a
  <2>4. /\ "BCC" \in CommandNames /\ "BCC" \notin Replies /\ "BCC" \notin Late
        /\ NoCodec \in Codecs
    BY DEF CommandNames, Replies, Late, Codecs
  <2>5. Kept(e, a) /\ Kept(a, RunCodecs(e))
    BY <2>2, <2>3, <2>4, KeptMild, KeptPlainSending
  <2> QED BY <2>5, KeptThen
<1>2. CASE ~ Raised(e, "trigger_codec_exchange")
  <2> DEFINE confirm == Raised(e, "hf_send_codec_confirm")
             f == IF confirm THEN "hf_send_codec_confirm"
                  ELSE "hf_send_supported_codecs"
             name == IF confirm THEN "BCS" ELSE "BAC"
             codec == IF confirm THEN e.c.codec_confirmed ELSE NoCodec
             a == Lower(e, {f})
             x == <<name, codec>>
             r == SendAndWait(a, name, codec)
  <2>1. RunCodecs(e) = r
    BY <1>2 DEF RunCodecs
  <2>2. /\ confirm => Confirms(e.c) /\ name = "BCS" /\ codec = e.c.codec_confirmed
        /\ ~ confirm => Declines(e.c) /\ ~ Confirms(e.c) /\ name = "BAC"
    BY <1>2 DEF Raised, CodecFlags, Confirms, Declines
  <2>3. name \in CommandNames /\ codec \in Codecs /\ {f} \in SUBSET Flags
    BY DEF CommandNames, Codecs, Outcomes, Context, Flags
  <2>4. /\ a \in Outcomes /\ a.cmds = e.cmds
        /\ a.c.state = e.c.state /\ a.c.cid = e.c.cid
        /\ a.c.negotiated_codec = e.c.negotiated_codec
        /\ a.c.codec_confirmed = e.c.codec_confirmed
        /\ a.c.flags = e.c.flags \ {f}
    <3> HIDE DEF f
    <3> QED BY <2>3 DEF Lower, Outcomes, Context
  <2>5. /\ Confirms(a.c) => Confirms(e.c) /\ ~ confirm
        /\ Declines(a.c) => Declines(e.c) /\ confirm
    BY <2>4 DEF Confirms, Declines
  <2> HIDE DEF f, a, name, codec, confirm
  <2>6. /\ x \in ToGateway /\ r.cmds = Append(e.cmds, x) /\ Mild(a.c, r.c)
        /\ x[1] = name /\ x[2] = codec
    BY <2>3, <2>4, SendFields
  <2> HIDE DEF x, r
  <2>7. ASSUME NEW base \in Seq(ToGateway), NEW h, NEW g,
               Agreed(e.c, base \o e.cmds, h, g)
        PROVE  Agreed(r.c, base \o r.cmds, h, g)
    <3> DEFINE q == base \o e.cmds
               more == Append(q, x)
    <3>1. q \in Seq(ToGateway) /\ base \o r.cmds = more
      <4>1. e.cmds \in Seq(ToGateway)
        BY DEF Outcomes
      <4> QED BY <2>6, <4>1, SentAfter
    <3>2. Agreed(e.c, q, h, g)
      BY <2>7
    <3> HIDE DEF q
    <3>3. /\ g.slc /\ e.c.state \notin Early
          /\ One(h, {"+BCS"}) /\ One(q, Replies)
          /\ ~ Has(h, {"+BCS"}) /\ ~ Has(q, Replies)
          /\ ~ (Confirms(e.c) /\ Declines(e.c))
          /\ g.asked # NoCodec
          /\ All(h, "+BCS", g.asked)
          /\ e.c.negotiated_codec = MSBC =>
               /\ Confirms(e.c) => e.c.codec_confirmed = MSBC /\ g.asked = MSBC
               /\ \/ g.codec = MSBC \/ Has(h, {"ERROR"})
                  \/ Confirms(e.c) \/ Has(q, {"BCS"})
      BY <2>2, <3>2 DEF Agreed, Fresh, Answering
    <3>4. ~ Has(q, {"BCS"}) /\ (\A codec1 : All(q, "BCS", codec1))
      BY <3>3 DEF Has, All, Replies
    <3>5. /\ One(more, Replies)
          /\ Has(more, {"BCS"}) <=> name = "BCS"
          /\ All(more, "BCS", MSBC) <=> (name = "BCS" => codec = MSBC)
      BY <2>6, <3>1, <3>3, <3>4, AppendHas
    <3> HIDE DEF more
    <3>6. ~ Answering(a.c)
      BY <2>2, <2>5, <3>3 DEF Answering
    <3>7. Agreed(a.c, more, h, g)
      BY <2>2, <2>4, <3>3, <3>4, <3>5, <3>6 DEF Agreed, Answering
    <3> QED BY <2>6, <3>1, <3>7, MildAgreed
  <2>8. /\ r.c.negotiated_codec = MSBC => e.c.negotiated_codec = MSBC
        /\ Answering(r.c) => Answering(e.c)
        /\ ~ r.c.cid => ~ e.c.cid \/ Fresh(r.c)
    BY <2>4, <2>5, <2>6 DEF Mild, Answering
  <2> QED BY <2>1, <2>7, <2>8 DEF Kept
<1> QED BY <1>1, <1>2

LEMMA KeptRelease == \A e \in Outcomes : Kept(e, ReleaseAudio(e))
<1> SUFFICES ASSUME NEW e \in Outcomes PROVE Kept(e, ReleaseAudio(e))
  OBVIOUS
<1> DEFINE a == InState(e, "W4_SCO_DISCONNECTED")
           r == Lower(a, {"release_audio_connection"})
           d == ScoDisconnected(r)
<1>1. a \in Outcomes /\ Mild(e.c, a.c) /\ a.cmds = e.cmds
  <2>1. "W4_SCO_DISCONNECTED" \in States \ Early
    BY StateFacts DEF FromDisconnectSco, Early
  <2> QED BY <2>1, InStateFacts, MildInState DEF SameLinks
<1>2. r \in Outcomes /\ Mild(a.c, r.c) /\ r.cmds = a.cmds
  <2>1. {"release_audio_connection"} \in SUBSET (Flags \ CodecReplies)
    BY DEF Flags, CodecReplies
  <2> HIDE DEF a
  <2> QED BY <1>1, <2>1, LowerFacts, MildLower DEF SameLinks
<1>3. ReleaseAudio(e) = IF e.c.sco THEN Ask(r, "disconnect sco") ELSE Ask(d, "run")
  BY DEF ReleaseAudio
<1> HIDE DEF r, a
<1>4. d \in Outcomes /\ Mild(r.c, d.c) /\ d.cmds = r.cmds
  BY <1>2, QuietScoDisconnected, MildScoDisconnected DEF Quiet
<1> HIDE DEF d
<1>5. \/ ReleaseAudio(e).c = r.c /\ ReleaseAudio(e).cmds = r.cmds
      \/ ReleaseAudio(e).c = d.c /\ ReleaseAudio(e).cmds = d.cmds
  <2>1. "disconnect sco" \in Asked /\ "run" \in Asked
    BY DEF Asked
  <2>2. /\ Ask(r, "disconnect sco").c = r.c /\ Ask(r, "disconnect sco").cmds = r.cmds
        /\ Ask(d, "run").c = d.c /\ Ask(d, "run").cmds = d.cmds
    BY <1>2, <1>4, <2>1, AskFacts
  <2> QED BY <1>3, <2>2
<1>6. Mild(e.c, ReleaseAudio(e).c) /\ ReleaseAudio(e).cmds = e.cmds
  BY <1>1, <1>2, <1>4, <1>5, MildThen
<1> QED BY <1>6, KeptMild

LEMMA KeptAudio ==
  \A e \in Outcomes : AudioHasWork(e) => Kept(e, RunAudio(e))
<1> SUFFICES ASSUME NEW e \in Outcomes, AudioHasWork(e)
             PROVE  Kept(e, RunAudio(e))
  OBVIOUS
<1> DEFINE a == InState(e, "W4_SCO_CONNECTED")
           r == Lower(a, {"establish_audio_connection"})
<1>1. a \in Outcomes /\ Mild(e.c, a.c) /\ a.cmds = e.cmds
  <2>1. "W4_SCO_CONNECTED" \in States \ Early
    BY StateFacts, NotEarly
  <2> QED BY <2>1, InStateFacts, MildInState DEF SameLinks
<1>2. r \in Outcomes /\ Mild(a.c, r.c) /\ r.cmds = a.cmds
  <2>1. {"establish_audio_connection"} \in SUBSET (Flags \ CodecReplies)
    BY DEF Flags, CodecReplies
  <2> HIDE DEF a
  <2> QED BY <1>1, <2>1, LowerFacts, MildLower DEF SameLinks
<1>3. \/ RunAudio(e) = ReleaseAudio(e)
      \/ CodecsHaveWork(e) /\ RunAudio(e) = RunCodecs(e)
      \/ RunAudio(e) = Ask(r, "setup")
  BY DEF RunAudio
<1> HIDE DEF r, a
<1>4. Kept(e, Ask(r, "setup"))
  <2>1. Ask(r, "setup").c = r.c /\ Ask(r, "setup").cmds = r.cmds
    BY <1>2, AskFacts DEF Asked
  <2> QED BY <1>1, <1>2, <2>1, MildThen, KeptMild
<1> QED BY <1>3, <1>4, KeptRelease, KeptCodecs DEF CodecsHaveWork

LEMMA KeptMachines == \A e \in Outcomes : Kept(e, RunMachines(e))
<1> SUFFICES ASSUME NEW e \in Outcomes PROVE Kept(e, RunMachines(e))
  OBVIOUS
<1>1. /\ {"CMER", "ATA"} \subseteq CommandNames \ Replies
      /\ "ATA" \notin Late /\ NoCodec \in Codecs
  BY DEF CommandNames, Replies, Late, Codecs
<1>2. CASE QueriesHaveWork(e)
  <2>1. e.c.state \notin Early
    BY <1>2, NotEarly DEF QueriesHaveWork
  <2> QED BY <1>1, <1>2, <2>1, KeptPlainSending, KeptService DEF RunMachines, RunQueries
<1>3. Kept(e, RunCallSetup(e))
  <2> DEFINE d == Lower(e, {"hf_answer_incoming_call"})
  <2>1. {"hf_answer_incoming_call"} \in SUBSET (Flags \ CodecReplies)
    BY DEF Flags, CodecReplies
  <2>2. d \in Outcomes /\ Mild(e.c, d.c) /\ d.cmds = e.cmds
    BY <2>1, LowerFacts, MildLower DEF SameLinks
  <2>3. RunCallSetup(e) = Send(d, "ATA", NoCodec)
    BY DEF RunCallSetup
  <2> HIDE DEF d
  <2>4. Kept(e, d) /\ Kept(d, Send(d, "ATA", NoCodec))
    BY <1>1, <2>2, KeptMild, KeptPlainSending
  <2> QED BY <2>3, <2>4, KeptThen
<1>4. Kept(e, e)
  BY KeptMild, MildNothing
<1> QED BY <1>2, <1>3, <1>4, KeptService, KeptAudio DEF RunMachines

LEMMA KeptCommands ==
  \A e \in Outcomes : CommandsAsked(e) # {} => Kept(e, RunCommands(e))
<1> SUFFICES ASSUME NEW e \in Outcomes, CommandsAsked(e) # {}
             PROVE  Kept(e, RunCommands(e))
  OBVIOUS
<1> DEFINE flag == Commands[Min(CommandsAsked(e))]
           d == Lower(e, {flag})
<1>1. flag \in {"send_microphone_gain", "send_speaker_gain", "hf_send_chup",
                "hf_send_cnum"}
  BY FirstAsked
<1>2. RunCommands(e) = IF flag = "hf_send_cnum" THEN Send(d, "CNUM", NoCodec)
                       ELSE SendAndWait(d, CommandOf[flag], NoCodec)
  BY DEF RunCommands
<1> HIDE DEF flag
<1>3. d \in Outcomes /\ Mild(e.c, d.c) /\ d.cmds = e.cmds
  <2>1. {flag} \in SUBSET (Flags \ CodecReplies)
    BY <1>1 DEF Flags, CodecReplies
  <2> QED BY <2>1, LowerFacts, MildLower DEF SameLinks
<1> HIDE DEF d
<1>4. flag # "hf_send_cnum" => CommandOf[flag] \in {"VGM", "VGS", "CHUP"}
  BY <1>1 DEF CommandOf
<1>5. /\ {"VGM", "VGS", "CHUP", "CNUM"} \subseteq CommandNames \ (Replies \cup Late)
      /\ NoCodec \in Codecs
  BY DEF CommandNames, Replies, Late, Codecs
<1>6. Kept(d, RunCommands(e))
  BY <1>2, <1>3, <1>4, <1>5, KeptPlainSending
<1> QED BY <1>3, <1>6, KeptMild, KeptThen

LEMMA KeptAfterMachines ==
  \A e, done \in Outcomes : Kept(e, done) => Kept(e, RunAfterMachines(e, done))
<1> SUFFICES ASSUME NEW e \in Outcomes, NEW done \in Outcomes, Kept(e, done)
             PROVE  Kept(e, RunAfterMachines(e, done))
  OBVIOUS
<1> DEFINE a == InState(e, "W4_RFCOMM_DISCONNECTED")
           b == Ask(a, "disconnect rfcomm")
<1>1. a \in Outcomes /\ Mild(e.c, a.c) /\ a.cmds = e.cmds
  <2>1. "W4_RFCOMM_DISCONNECTED" \in States \ Early
    BY StateFacts DEF FromDisconnectSco, Early
  <2> QED BY <2>1, InStateFacts, MildInState DEF SameLinks
<1>2. \/ RunAfterMachines(e, done) = done
      \/ CommandsAsked(done) # {} /\ RunAfterMachines(e, done) = RunCommands(done)
      \/ RunAfterMachines(e, done) = b
  BY DEF RunAfterMachines
<1> HIDE DEF a
<1>3. b.c = a.c /\ b.cmds = a.cmds
  BY <1>1, AskFacts DEF Asked
<1> HIDE DEF b
<1>4. Kept(e, b)
  BY <1>1, <1>3, KeptMild
<1> QED BY <1>2, <1>4, KeptCommands, KeptThen

LEMMA KeptOnce == \A e \in Open : Kept(e, RunOnce(e))
<1> SUFFICES ASSUME NEW e \in Open PROVE Kept(e, RunOnce(e))
  OBVIOUS
<1> DEFINE done == RunMachines(e)
           inside == [done EXCEPT !.asks = @ \ {"run"}]
           second == RunMachines(inside)
           nested == RunAfterMachines(inside, second)
<1>1. e \in Outcomes /\ done \in Outcomes /\ Ran(e, done) /\ Kept(e, done)
  BY RanMachines, KeptMachines DEF Ran, Open
<1>2. RunOnce(e) = RunAfterMachines(e, IF "run" \in done.asks THEN nested ELSE done)
  BY DEF RunOnce
<1> HIDE DEF done
<1>3. inside \in Outcomes /\ inside.c = done.c /\ inside.cmds = done.cmds
  BY <1>1 DEF Outcomes
<1>4. Kept(done, inside) /\ (inside \in Open \/ inside.c = NoContext)
  BY <1>1, <1>3, KeptMild, MildNothing DEF Ran, Open
<1> HIDE DEF inside
<1>5. nested \in Outcomes /\ Kept(inside, nested)
  <2>1. CASE inside \in Open
    <3>1. second \in Outcomes /\ Ran(inside, second) /\ Kept(inside, second)
      BY <1>3, <2>1, RanMachines, KeptMachines DEF Ran
    <3> HIDE DEF second
    <3>2. Ran(inside, nested) /\ Kept(inside, nested)
      BY <1>3, <2>1, <3>1, RanAfterMachines, KeptAfterMachines
    <3> HIDE DEF nested
    <3> QED BY <3>2 DEF Ran
  <2>2. CASE inside.c = NoContext
    <3>1. nested = inside
      BY <1>3, <2>2, FreedIsNotRun
    <3> HIDE DEF nested, second
    <3> QED BY <1>3, <3>1, KeptMild, MildNothing
  <2> QED BY <1>4, <2>1, <2>2
<1> HIDE DEF nested, second
<1>6. Kept(e, nested)
  BY <1>1, <1>4, <1>5, KeptThen
<1> QED BY <1>1, <1>2, <1>5, <1>6, KeptAfterMachines

LEMMA RunKeeps ==
  \A e \in Outcomes : \A room :
    /\ Kept(e, Run(e, room)) /\ Run(e, room) \in Outcomes
    /\ room \in {"none", "hci"} =>
         Mild(e.c, Run(e, room).c) /\ Run(e, room).cmds = e.cmds
<1> SUFFICES ASSUME NEW e \in Outcomes, NEW room
             PROVE  /\ Kept(e, Run(e, room)) /\ Run(e, room) \in Outcomes
                    /\ room \in {"none", "hci"} =>
                         Mild(e.c, Run(e, room).c) /\ Run(e, room).cmds = e.cmds
  OBVIOUS
<1> DEFINE a == Lower(e, {"accept_sco"})
           codec == IF a.c.negotiated_codec = NoCodec THEN CVSD
                                                     ELSE a.c.negotiated_codec
           b == [a EXCEPT !.c.negotiated_codec = codec]
           r == Ask(b, "accept")
<1>1. a \in Outcomes /\ Mild(e.c, a.c) /\ a.cmds = e.cmds
  <2>1. {"accept_sco"} \in SUBSET (Flags \ CodecReplies)
    BY DEF Flags, CodecReplies
  <2> QED BY <2>1, LowerFacts, MildLower DEF SameLinks
<1>2. Run(e, room) =
        IF e.c.state = "NONE" \/ ~ e.c.cid \/ room = "none" THEN e
        ELSE IF Raised(e, "accept_sco") THEN r
        ELSE IF room = "hci" THEN e ELSE RunOnce(e)
  BY DEF Run
<1> HIDE DEF a
<1>3. codec \in {NoCodec, CVSD, MSBC} /\ (codec = a.c.negotiated_codec \/ codec # MSBC)
  BY <1>1 DEF Outcomes, Context, CVSD, MSBC
<1> HIDE DEF codec
<1>4. /\ b \in Outcomes /\ b.c.flags = a.c.flags /\ b.c.state = a.c.state
      /\ b.c.cid = a.c.cid /\ b.c.negotiated_codec = codec /\ b.cmds = a.cmds
      /\ b.c.codec_confirmed = a.c.codec_confirmed
  BY <1>1, <1>3 DEF Outcomes, Context
<1> HIDE DEF b
<1>5. Mild(a.c, b.c)
  BY <1>3, <1>4, MildSame
<1>6. r.c = b.c /\ r.cmds = b.cmds
  BY <1>4, AskFacts DEF Asked
<1> HIDE DEF r
<1>7. Mild(e.c, r.c) /\ r.cmds = e.cmds /\ Kept(e, r)
  BY <1>1, <1>4, <1>5, <1>6, MildThen, KeptMild
<1>8. Mild(e.c, e.c) /\ Kept(e, e)
  BY MildNothing, KeptMild
<1>9. Run(e, room) \in Outcomes
  BY RunFacts DEF Ran
<1>10. e.c.cid => Kept(e, RunOnce(e))
  BY KeptOnce DEF Open
<1> QED BY <1>2, <1>7, <1>8, <1>9, <1>10

-----------------------------------------------------------------------------
(* The channel: what is agreed while it is open, nothing before; a context *)
(* without one knows no codec.  When the gateway asks for a link there is  *)
(* no suggestion on its way, and the context takes it for an mSBC link     *)
(* only if the gateway does.                                               *)
Pending == {"requested", "offered"}

Fit(c, ch, l, g) ==
  /\ ch.st = "open" => Agreed(c, ch.toAG, ch.toHF, g)
  /\ ch.st \in {"closed", "opening"} =>
       ch.toAG = <<>> /\ ch.toHF = <<>> /\ ~ g.slc /\ g.asked = NoCodec
  /\ ~ c.cid \/ ch.st = "opening" => Fresh(c)
  /\ l.st \in Pending =>
       ~ Has(ch.toHF, {"+BCS"}) /\ (c.negotiated_codec = MSBC => l.ag = MSBC)

CodecInv == Fit(hfp, channel, link, ag)

(* A link the gateway opens is taken for mSBC only if it agreed. *)
AcceptsAgreed ==
  link.st \in Pending /\ link'.st = "connecting" /\ link'.hf = MSBC
    => link'.ag = MSBC

LEMMA MildFits ==
  \A c, d, ch, l, g : Mild(c, d) /\ Fit(c, ch, l, g) => Fit(d, ch, l, g)
<1> SUFFICES ASSUME NEW c, NEW d, NEW ch, NEW l, NEW g, Mild(c, d), Fit(c, ch, l, g)
             PROVE  Fit(d, ch, l, g)
  OBVIOUS
<1>1. ch.st = "open" => Agreed(d, ch.toAG, ch.toHF, g)
  BY MildAgreed DEF Fit
<1>2. ~ d.cid \/ ch.st = "opening" => Fresh(d)
  BY MildFresh DEF Fit, Mild
<1>3. d.negotiated_codec = MSBC => c.negotiated_codec = MSBC
  BY DEF Mild
<1> QED BY <1>1, <1>2, <1>3 DEF Fit

LEMMA LinkFits ==
  \A c, ch, l, m, g :
    Fit(c, ch, l, g) /\ (m.st \in Pending => l.st \in Pending /\ m.ag = l.ag)
      => Fit(c, ch, m, g)
BY DEF Fit

(* A handler that leaves what fits, and the run after it. *)
LEMMA HandleFits ==
  ASSUME NEW e \in Outcomes, e.cmds = <<>>, NEW s \in Around, Handle(e, s),
         Fit(e.c, s.channel, s.link, ag'),
         s.link.st = "connecting" => link.st = "connecting"
  PROVE  CodecInv' /\ AcceptsAgreed
<1>1. PICK room \in {"none", IF s.channel.st = "open" THEN "all" ELSE "hci"} :
        \E r \in {Run(e, room)} :
          /\ hfp' = r.c /\ app' = r.app
          /\ channel' = [s.channel EXCEPT
               !.toAG = @ \o r.cmds,
               !.st = IF "disconnect rfcomm" \in r.asks THEN "closing" ELSE @]
          /\ link' = LinkAfter(s.link, r)
          /\ setup' = IF "setup" \in r.asks THEN AirCodec(r.c) ELSE s.setup
          /\ scoActive' = IF "setup" \in r.asks THEN "live"
                          ELSE IF r.c.state = "NONE" /\ s.active = "live"
                            THEN "dangling" ELSE s.active
  BY DEF Handle
<1> DEFINE r == Run(e, room)
           ch == s.channel
           st == IF "disconnect rfcomm" \in r.asks THEN "closing" ELSE ch.st
           sent == ch.toAG \o r.cmds
<1>2. /\ hfp' = r.c /\ link' = LinkAfter(s.link, r)
      /\ channel' = [ch EXCEPT !.toAG = sent, !.st = st]
  BY <1>1
<1>3. /\ Kept(e, r) /\ r \in Outcomes
      /\ ch.st # "open" => Mild(e.c, r.c) /\ r.cmds = <<>>
  BY <1>1, RunKeeps
<1> HIDE DEF r
<1>4. ch \in Channels /\ s.link \in Links /\ ch.toAG \in Seq(ToGateway)
      /\ r.cmds \in Seq(ToGateway)
  BY <1>3 DEF Around, Channels, Outcomes
<1>5. ch.toAG \o e.cmds = ch.toAG /\ (ch.st # "open" => sent = ch.toAG)
  BY <1>3, <1>4, ConcatEmptySeq
<1>6. /\ channel'.st = st /\ channel'.toAG = sent /\ channel'.toHF = ch.toHF
      /\ st \in {"closing", ch.st}
  <2> DEFINE after == [ch EXCEPT !.toAG = sent, !.st = st]
  <2>1. st \in {"closing", ch.st}
    OBVIOUS
  <2> HIDE DEF sent, st, ch
  <2>2. after.st = st /\ after.toAG = sent /\ after.toHF = ch.toHF
    BY <1>4 DEF Channels
  <2> QED BY <1>2, <2>1, <2>2
<1>7. Fit(e.c, ch, s.link, ag')
  OBVIOUS
<1>8. ch.st = "open" => Agreed(r.c, sent, ch.toHF, ag')
  <2> SUFFICES ASSUME ch.st = "open" PROVE Agreed(r.c, sent, ch.toHF, ag')
    OBVIOUS
  <2> HIDE DEF ch
  <2>1. Agreed(e.c, ch.toAG \o e.cmds, ch.toHF, ag')
    BY <1>5, <1>7 DEF Fit
  <2> QED BY <1>3, <1>4, <2>1 DEF Kept
<1> HIDE DEF st, sent, ch
<1>9. /\ ~ r.c.cid \/ st = "opening" => Fresh(r.c)
      /\ r.c.negotiated_codec = MSBC => e.c.negotiated_codec = MSBC
  <2>1. /\ r.c.negotiated_codec = MSBC => e.c.negotiated_codec = MSBC
        /\ Answering(r.c) => Answering(e.c)
        /\ ~ r.c.cid => ~ e.c.cid \/ Fresh(r.c)
    BY <1>3 DEF Kept
  <2>2. ~ e.c.cid \/ ch.st = "opening" => Fresh(e.c)
    BY <1>7 DEF Fit
  <2> QED BY <1>6, <2>1, <2>2 DEF Fresh
<1>10. \/ /\ s.link.st = "offered"
          /\ LinkAfter(s.link, r)
               = [s.link EXCEPT !.st = "connecting", !.hf = AirCodec(r.c)]
       \/ LinkAfter(s.link, r) = [s.link EXCEPT !.st = "closing"]
       \/ LinkAfter(s.link, r) = s.link
  BY DEF LinkAfter
<1> DEFINE m == LinkAfter(s.link, r)
<1>11. /\ m.st \in Pending => s.link.st \in Pending /\ m.ag = s.link.ag
       /\ m.st = "connecting" =>
            \/ s.link.st = "connecting"
            \/ s.link.st = "offered" /\ m.hf = AirCodec(r.c) /\ m.ag = s.link.ag
  BY <1>4, <1>10 DEF Links, Pending
<1> HIDE DEF m
<1>12. m.st \in Pending =>
         ~ Has(ch.toHF, {"+BCS"}) /\ (r.c.negotiated_codec = MSBC => m.ag = MSBC)
  BY <1>7, <1>9, <1>11 DEF Fit
<1>13. ch.st \in {"closed", "opening"} =>
         sent = <<>> /\ ch.toHF = <<>> /\ ~ ag'.slc /\ ag'.asked = NoCodec
  BY <1>5, <1>7 DEF Fit
<1>14. CodecInv'
  <2>1. /\ channel'.st = "open" => Agreed(r.c, channel'.toAG, channel'.toHF, ag')
        /\ channel'.st \in {"closed", "opening"} =>
             /\ channel'.toAG = <<>> /\ channel'.toHF = <<>>
             /\ ~ ag'.slc /\ ag'.asked = NoCodec
        /\ ~ r.c.cid \/ channel'.st = "opening" => Fresh(r.c)
        /\ m.st \in Pending => ~ Has(channel'.toHF, {"+BCS"})
                                 /\ (r.c.negotiated_codec = MSBC => m.ag = MSBC)
    BY <1>6, <1>8, <1>9, <1>12, <1>13
  <2>2. Fit(r.c, channel', m, ag')
    BY <2>1 DEF Fit
  <2> QED BY <1>2, <2>2 DEF CodecInv, m
<1>15. AcceptsAgreed
  <2> SUFFICES ASSUME link.st \in Pending, m.st = "connecting", m.hf = MSBC
               PROVE  m.ag = MSBC
    BY <1>2 DEF AcceptsAgreed, m
  <2>1. s.link.st = "offered" /\ m.hf = AirCodec(r.c) /\ m.ag = s.link.ag
    BY <1>11 DEF Pending
  <2>2. r.c.negotiated_codec = MSBC
    BY <2>1 DEF AirCodec, CVSD, MSBC
  <2> QED BY <1>7, <1>9, <2>1, <2>2 DEF Fit, Pending
<1> QED BY <1>14, <1>15

(* A mild handler of an event that leaves the channel as it is. *)
LEMMA MildHandleFits ==
  ASSUME Inv, CodecInv, NEW e \in Outcomes, e.cmds = <<>>, Mild(hfp, e.c),
         NEW s \in Around, s.channel = channel, Handle(e, s), ag' = ag,
         s.link.st \in Pending => link.st \in Pending /\ s.link.ag = link.ag,
         s.link.st = "connecting" => link.st = "connecting"
  PROVE  CodecInv' /\ AcceptsAgreed
<1>1. Fit(hfp, channel, link, ag)
  BY DEF CodecInv
<1>2. Fit(e.c, channel, s.link, ag)
  BY <1>1, MildFits, LinkFits
<1> QED BY <1>2, HandleFits

LEMMA QuietHandleFits ==
  ASSUME Inv, CodecInv, NEW e, Quiet(Here, e), Mild(Here.c, e.c),
         NEW s \in Around, s.channel = channel, Handle(e, s), ag' = ag,
         s.link.st \in Pending => link.st \in Pending /\ s.link.ag = link.ag,
         s.link.st = "connecting" => link.st = "connecting"
  PROVE  CodecInv' /\ AcceptsAgreed
<1>1. e \in Outcomes /\ e.cmds = <<>> /\ Mild(hfp, e.c)
  BY HereFacts DEF Quiet
<1> QED BY <1>1, MildHandleFits

(* Steps that run no handler and leave the link, or do not let it connect. *)
LEMMA StillFits ==
  ASSUME CodecInv, Mild(hfp, hfp'), channel' = channel, ag' = ag,
         link'.st \in Pending => link.st \in Pending /\ link'.ag = link.ag
  PROVE  CodecInv'
<1>1. Fit(hfp, channel, link, ag)
  BY DEF CodecInv
<1>2. Fit(hfp', channel, link', ag)
  BY <1>1, MildFits, LinkFits
<1>3. CodecInv' <=> Fit(hfp', channel', link', ag')
  BY DEF CodecInv
<1> QED BY <1>2, <1>3

LEMMA NewContextFacts ==
  Fresh(NewContext) /\ NewContext \in Context /\ ~ NewContext.cid
<1>1. NewContext.negotiated_codec = NoCodec /\ NewContext.flags = {}
  BY DEF NewContext
<1> QED BY <1>1, NoContextFacts DEF Fresh, Answering, Confirms, Declines, NoCodec, MSBC

(* A context that knows no codec. *)
LEMMA FreshState ==
  \A c, d : Fresh(d) /\ d.state \notin Early => Mild(c, d)
BY DEF Mild, Fresh, Answering

LEMMA CallFits ==
  ASSUME Inv, CodecInv, NEW what, NEW e, Quiet(Here, e), Mild(Here.c, e.c),
         Call(what, e)
  PROVE  CodecInv' /\ AcceptsAgreed
<1>1. Handle(e, Surroundings) /\ ag' = ag
  BY DEF Call
<1> QED BY <1>1, HereFacts, QuietHandleFits

LEMMA ApplicationFits ==
  ASSUME Inv, CodecInv, Application PROVE CodecInv' /\ AcceptsAgreed
<1>1. CASE EstablishSlc
  <2>1. /\ hfp' = [NewContext EXCEPT !.state = "W2_SEND_SDP_QUERY"]
        /\ UNCHANGED <<channel, ag, link>>
    BY <1>1 DEF EstablishSlc
  <2>2. /\ hfp'.state = "W2_SEND_SDP_QUERY" /\ hfp'.flags = NewContext.flags
        /\ hfp'.negotiated_codec = NewContext.negotiated_codec
    BY <2>1, NewContextFacts DEF Context
  <2>3. Fresh(hfp') /\ hfp'.state \notin Early
    BY <2>2, NewContextFacts DEF Fresh, Answering, Confirms, Declines, Early
  <2> QED BY <2>1, <2>3, FreshState, StillFits DEF AcceptsAgreed, Pending
<1>2. CASE CallReleaseSlc
  BY <1>2, HereFacts, QuietReleaseSlc, MildReleaseSlc, CallFits DEF CallReleaseSlc
<1>3. CASE CallEstablishAudio
  BY <1>3, HereFacts, QuietEstablish, MildEstablish, CallFits DEF CallEstablishAudio
<1>4. CASE CallReleaseAudio
  BY <1>4, HereFacts, QuietReleaseAudio, MildReleaseAudio, CallFits DEF CallReleaseAudio
<1>5. CASE CallCommand
  <2>1. PICK f \in Flags \ CodecReplies : Call(f, Raise(Here, {f}))
    BY <1>5 DEF CallCommand, Flags, CodecReplies
  <2>2. Quiet(Here, Raise(Here, {f})) /\ Mild(Here.c, Raise(Here, {f}).c)
    BY HereFacts, QuietRaise, MildRaise
  <2> QED BY <2>1, <2>2, CallFits
<1> QED BY <1>1, <1>2, <1>3, <1>4, <1>5 DEF Application

LEMMA StartSdpQueryFits ==
  ASSUME Inv, CodecInv, StartSdpQuery PROVE CodecInv' /\ AcceptsAgreed
<1>1. UNCHANGED <<channel, ag, link>>
  BY DEF StartSdpQuery
<1>2. Mild(hfp, hfp')
  <2>1. CASE hfp' = [hfp EXCEPT !.state = "W4_SDP_QUERY_COMPLETE"]
    <3>1. /\ hfp'.state = "W4_SDP_QUERY_COMPLETE" /\ hfp'.flags = hfp.flags
          /\ hfp'.negotiated_codec = hfp.negotiated_codec /\ hfp'.cid = hfp.cid
          /\ hfp'.codec_confirmed = hfp.codec_confirmed
      BY <2>1 DEF Inv, Typed, Context
    <3> QED BY <3>1 DEF Mild, Confirms, Declines, Early
  <2>2. CASE hfp' = hfp
    BY <2>2, MildNothing
  <2> QED BY <2>1, <2>2 DEF StartSdpQuery
<1> QED BY <1>1, <1>2, StillFits DEF AcceptsAgreed, Pending

(* A channel that opens: nothing is agreed, by a context that knows none.  *)
LEMMA OpeningFits ==
  \A c, ch, l, g :
    /\ Fresh(c) /\ ch.st = "opening" /\ ch.toAG = <<>> /\ ch.toHF = <<>>
    /\ ~ g.slc /\ g.asked = NoCodec
    => Fit(c, ch, l, g)
BY EmptyHas DEF Fit, Fresh

LEMMA SdpQueryCompleteFits ==
  ASSUME Inv, CodecInv, SdpQueryComplete PROVE CodecInv' /\ AcceptsAgreed
<1>1. /\ ~ hfp.cid /\ hfp \in Context /\ link' = link
  BY HereFacts DEF SdpQueryComplete, Querying, Inv, Typed
<1>2. AcceptsAgreed
  BY <1>1 DEF AcceptsAgreed, Pending
<1>3. CASE /\ hfp' = [hfp EXCEPT !.state = "W4_RFCOMM_CONNECTED"]
           /\ channel' = [NoChannel EXCEPT !.st = "opening"] /\ ag' = AgAnew
  <2>1. Fresh(hfp)
    BY <1>1 DEF CodecInv, Fit
  <2>2. hfp'.flags = hfp.flags /\ hfp'.negotiated_codec = hfp.negotiated_codec
    BY <1>1, <1>3 DEF Context
  <2>3. Fresh(hfp')
    BY <2>1, <2>2 DEF Fresh, Answering, Confirms, Declines
  <2>4. channel'.st = "opening" /\ channel'.toAG = <<>> /\ channel'.toHF = <<>>
    BY <1>3 DEF NoChannel
  <2>5. ~ ag'.slc /\ ag'.asked = NoCodec
    BY <1>3 DEF AgAnew, Inv, Typed, Gateways
  <2>6. Fit(hfp', channel', link', ag')
    BY <2>3, <2>4, <2>5, OpeningFits
  <2> QED BY <1>2, <2>6 DEF CodecInv
<1>4. CASE hfp' = HandleSlcSetupError(Here).c /\ UNCHANGED <<channel, ag>>
  <2>1. hfp' = NoContext
    BY <1>4, HereFacts, QuietSetupError
  <2> QED BY <1>1, <1>2, <1>4, <2>1, MildNoContext, StillFits
<1>5. CASE UNCHANGED <<hfp, channel, ag>>
  BY <1>1, <1>2, <1>5, MildNothing, StillFits
<1> QED BY <1>3, <1>4, <1>5 DEF SdpQueryComplete

LEMMA IncomingConnectionFits ==
  ASSUME Inv, CodecInv, IncomingConnection PROVE CodecInv' /\ AcceptsAgreed
<1> DEFINE base == IF hfp.state = "NONE" THEN NewContext ELSE hfp
           accepted == [base EXCEPT !.state = "W4_RFCOMM_CONNECTED", !.cid = TRUE]
           opening == [Surroundings EXCEPT !.channel.st = "opening"]
           e == Outcome(accepted, app)
<1>1. ag' = ag /\ channel.st = "closed"
  BY DEF IncomingConnection
<1>2. CASE hfp.state \in {"NONE", "IDLE"}
  <2>1. base \in Context /\ Fresh(base)
    <3>1. CASE hfp.state = "NONE"
      BY <3>1, NewContextFacts
    <3>2. CASE hfp.state = "IDLE"
      <4>1. ~ hfp.cid /\ hfp \in Context
        BY <3>2, HereFacts DEF Searching, Inv, Typed
      <4> QED BY <3>2, <4>1 DEF CodecInv, Fit
    <3> QED BY <1>2, <3>1, <3>2
  <2>2. \/ \E active \in ActiveForNewContext :
             Handle(e, [opening EXCEPT !.active = active])
        \/ Handle(e, opening)
    BY <1>2 DEF IncomingConnection
  <2> HIDE DEF base
  <2>3. /\ accepted \in Context /\ accepted.flags = base.flags
        /\ accepted.negotiated_codec = base.negotiated_codec
    BY <2>1, StateFacts DEF Context
  <2> HIDE DEF accepted
  <2>4. e \in Outcomes /\ e.c = accepted /\ e.cmds = <<>>
    BY <2>3, OutcomeFacts DEF Inv, Typed
  <2> HIDE DEF e
  <2>5. Fresh(e.c)
    BY <2>1, <2>3, <2>4 DEF Fresh, Answering, Confirms, Declines
  <2>6. /\ opening \in Around /\ opening.link = link
        /\ opening.channel.st = "opening"
        /\ opening.channel.toAG = channel.toAG /\ opening.channel.toHF = channel.toHF
    <3>1. Surroundings \in Around /\ Surroundings.channel = channel
          /\ Surroundings.link = link
      BY HereFacts
    <3> HIDE DEF Surroundings
    <3> QED BY <3>1 DEF Around, Channels
  <2> HIDE DEF opening
  <2>7. /\ channel.toAG = <<>> /\ channel.toHF = <<>> /\ ~ ag.slc
        /\ ag.asked = NoCodec
    BY <1>1 DEF CodecInv, Fit
  <2>8. ASSUME NEW s \in Around, s.link = link, s.channel = opening.channel,
               Handle(e, s)
        PROVE  CodecInv' /\ AcceptsAgreed
    <3>1. Fit(e.c, s.channel, s.link, ag')
      BY <1>1, <2>5, <2>6, <2>7, <2>8, OpeningFits
    <3> QED BY <2>4, <2>8, <3>1, HandleFits
  <2>9. CASE Handle(e, opening)
    BY <2>6, <2>8, <2>9
  <2>10. ASSUME NEW active \in ActiveForNewContext,
                Handle(e, [opening EXCEPT !.active = active])
         PROVE  CodecInv' /\ AcceptsAgreed
    <3> DEFINE s == [opening EXCEPT !.active = active]
    <3>1. active \in Attempts
      BY DEF ActiveForNewContext, Inv, Typed, Attempts
    <3>2. s \in Around /\ s.link = link /\ s.channel = opening.channel
      BY <2>6, <3>1 DEF Around
    <3>3. Handle(e, s)
      BY <2>10
    <3> HIDE DEF s
    <3> QED BY <2>8, <3>2, <3>3
  <2> QED BY <2>2, <2>9, <2>10
<1>3. CASE hfp.state \notin {"NONE", "IDLE"}
  <2>1. Handle(Here, Surroundings)
    BY <1>3 DEF IncomingConnection
  <2> QED BY <1>1, <2>1, HereFacts, MildNothing, QuietHandleFits
<1> QED BY <1>2, <1>3

LEMMA ChannelOpenedFits ==
  ASSUME Inv, CodecInv, NEW ok \in BOOLEAN, ChannelOpenedEvent(ok)
  PROVE  CodecInv' /\ AcceptsAgreed
<1> DEFINE st == IF ok THEN "open" ELSE "closed"
           s == [Surroundings EXCEPT !.channel.st = st]
           found == hfp.state = "W4_RFCOMM_CONNECTED"
           e == IF ~ found THEN Here
                ELSE IF ok THEN ChannelOpened(Here) ELSE HandleSlcSetupError(Here)
<1>1. channel.st = "opening" /\ ag' = ag /\ Handle(e, s)
  BY DEF ChannelOpenedEvent
<1>2. st \in {"open", "closed"}
  OBVIOUS
<1> HIDE DEF st
<1>3. /\ s \in Around /\ s.link = link /\ s.channel.st = st
      /\ s.channel.toAG = channel.toAG /\ s.channel.toHF = channel.toHF
  <2>1. Surroundings \in Around /\ Surroundings.channel = channel
        /\ Surroundings.link = link
    BY HereFacts
  <2> HIDE DEF Surroundings
  <2> QED BY <1>2, <2>1 DEF Around, Channels
<1> HIDE DEF s
<1>4. /\ channel.toAG = <<>> /\ channel.toHF = <<>> /\ ~ ag.slc
      /\ ag.asked = NoCodec /\ Fresh(hfp)
  BY <1>1 DEF CodecInv, Fit
<1>5. e \in Outcomes /\ e.cmds = <<>> /\ Fresh(e.c)
  <2>1. Here \in Outcomes /\ Here.c = hfp /\ Here.cmds = <<>>
    BY HereFacts
  <2>2. CASE e = Here
    <3> HIDE DEF e, Here
    <3> QED BY <1>4, <2>1, <2>2
  <2>3. CASE e = ChannelOpened(Here)
    <3> DEFINE a == InState(Here, "EXCHANGE_SUPPORTED_FEATURES")
               d == [a EXCEPT !.c.acl = TRUE, !.c.cid = TRUE]
    <3> HIDE DEF Here
    <3>1. "EXCHANGE_SUPPORTED_FEATURES" \in States
      BY StateFacts, Intervals
    <3>2. /\ a \in Outcomes /\ a.cmds = <<>> /\ a.c.flags = hfp.flags
          /\ a.c.negotiated_codec = hfp.negotiated_codec
      BY <2>1, <3>1 DEF InState, Outcomes, Context
    <3> HIDE DEF a
    <3>3. /\ d \in Outcomes /\ d.cmds = <<>> /\ d.c.flags = a.c.flags
          /\ d.c.negotiated_codec = a.c.negotiated_codec
      BY <3>2 DEF Outcomes, Context
    <3>4. e = d
      BY <2>3 DEF ChannelOpened, d, a
    <3> HIDE DEF d, e
    <3> QED BY <1>4, <3>2, <3>3, <3>4 DEF Fresh, Answering, Confirms, Declines
  <2>4. CASE e = HandleSlcSetupError(Here)
    <3> HIDE DEF Here, e
    <3>1. Quiet(Here, e) /\ e.c = NoContext
      BY <2>1, <2>4, QuietSetupError
    <3>2. Fresh(NoContext)
      BY <1>4, MildNoContext, MildFresh
    <3> QED BY <2>1, <3>1, <3>2 DEF Quiet
  <2> QED BY <2>2, <2>3, <2>4
<1> HIDE DEF e
<1>6. Fit(e.c, s.channel, s.link, ag')
  BY <1>1, <1>2, <1>3, <1>4, <1>5, EmptyHas DEF Fit, Agreed, Fresh
<1> QED BY <1>1, <1>3, <1>5, <1>6, HandleFits

LEMMA ChannelClosedFits ==
  ASSUME Inv, CodecInv, ChannelClosedEvent PROVE CodecInv' /\ AcceptsAgreed
<1> DEFINE e == IF hfp.cid THEN ChannelClosed(Here) ELSE Here
           s == [Surroundings EXCEPT !.channel = NoChannel]
<1>1. Handle(e, s) /\ ag' = AgAnew
  BY DEF ChannelClosedEvent
<1>2. e \in Outcomes /\ e.cmds = <<>> /\ Mild(hfp, e.c)
  BY HereFacts, QuietClosed, MildClosed, MildNothing DEF Quiet
<1>3. s \in Around /\ s.link = link /\ s.channel = NoChannel
  <2>1. Surroundings \in Around /\ Surroundings.link = link
    BY HereFacts
  <2> HIDE DEF Surroundings
  <2> QED BY <2>1, NoChannelFacts DEF Around
<1> HIDE DEF e, s
<1>4. ~ ag'.slc /\ ag'.asked = NoCodec
  BY <1>1 DEF AgAnew, Inv, Typed, Gateways
<1>5. Fit(hfp, NoChannel, link, ag')
  BY <1>4, EmptyHas DEF CodecInv, Fit, NoChannel
<1>6. Fit(e.c, s.channel, s.link, ag')
  BY <1>2, <1>3, <1>5, MildFits
<1> QED BY <1>1, <1>2, <1>3, <1>6, HandleFits

(* The gateway. *)
LEMMA HasFacts ==
  /\ \A q, name, codec : ~ Has(q, {name}) => All(q, name, codec)
  /\ \A q, names : ~ Has(q, names) => One(q, names)
  /\ \A q : Has(q, Replies) <=> Has(q, {"BCS"}) \/ Has(q, {"BAC"})
BY DEF Has, All, One, Replies

LEMMA LastIsLate == LastCommand \in Late
BY DEF LastCommand, Late

LEMMA AgAnswersFits ==
  ASSUME Inv, CodecInv, AgAnswers PROVE CodecInv' /\ AcceptsAgreed
<1> DEFINE x == Head(channel.toAG)
           q == channel.toAG
           t == Tail(channel.toAG)
           h == channel.toHF
           lines == IF x[1] = "BRSF" THEN <<<<"+BRSF", NoCodec>>>> ELSE <<>>
<1>1. PICK ok \in BOOLEAN :
        /\ channel' = [channel EXCEPT
             !.toAG = Tail(@),
             !.toHF = @ \o lines \o <<<<IF ok THEN "OK" ELSE "ERROR", NoCodec>>>>]
        /\ ag' = [ag EXCEPT
             !.slc = @ \/ (ok /\ x[1] = LastCommand),
             !.asked = IF x[1] \in {"BCS", "BAC"} THEN NoCodec ELSE @,
             !.codec = IF ok /\ x[1] = "BCS" /\ x[2] \in {ag.asked} \ {NoCodec}
                         THEN x[2] ELSE @]
  BY DEF AgAnswers
<1>2. channel.st = "open" /\ q # <<>> /\ hfp' = hfp /\ link' = link
  BY DEF AgAnswers
<1>3. /\ channel \in Channels /\ q \in Seq(ToGateway) /\ h \in Seq(ToUnit)
      /\ ag \in Gateways
  BY DEF Inv, Typed, Channels
<1>4. AcceptsAgreed
  BY <1>2 DEF AcceptsAgreed, Pending
<1> DEFINE answer == <<IF ok THEN "OK" ELSE "ERROR", NoCodec>>
           before == h \o lines
           after == before \o <<answer>>
<1>5. channel' = [channel EXCEPT !.toAG = t, !.toHF = after]
  BY <1>1
<1>6. /\ \A names : x[1] \in names \/ Has(t, names) <=> Has(q, names)
      /\ \A names : One(q, names)
           => One(t, names) /\ (x[1] \in names => ~ Has(t, names))
      /\ \A name, codec : All(q, name, codec)
           <=> All(t, name, codec) /\ (x[1] = name => x[2] = codec)
      /\ BacFirst(q) => BacFirst(t) /\ (x[1] \in Late => ~ Has(t, {"BAC"}))
  BY <1>2, <1>3, TailHas, Zenon
<1>7. /\ before \in Seq(ToUnit)
      /\ Has(before, {"+BCS"}) <=> Has(h, {"+BCS"})
      /\ Has(h, {"ERROR"}) => Has(before, {"ERROR"})
      /\ One(h, {"+BCS"}) => One(before, {"+BCS"})
      /\ \A codec : All(h, "+BCS", codec) => All(before, "+BCS", codec)
  <2>1. CASE lines = <<>>
    <3>1. before = h
      BY <1>3, <2>1, ConcatEmptySeq
    <3> HIDE DEF before
    <3> QED BY <1>3, <3>1
  <2>2. CASE lines = <<<<"+BRSF", NoCodec>>>>
    <3> DEFINE y == <<"+BRSF", NoCodec>>
    <3>1. y \in ToUnit /\ y[1] = "+BRSF"
      BY DEF ToUnit, Codecs
    <3> HIDE DEF y, h
    <3>2. before = Append(h, y)
      BY <1>3, <2>2, <3>1, AppendIsConcat DEF y
    <3> HIDE DEF before
    <3> QED BY <1>3, <3>1, <3>2, AppendHas, Appended
  <2> QED BY <2>1, <2>2
<1>8. /\ Has(after, {"+BCS"}) <=> Has(h, {"+BCS"})
      /\ Has(h, {"ERROR"}) \/ ~ ok => Has(after, {"ERROR"})
      /\ One(h, {"+BCS"}) => One(after, {"+BCS"})
      /\ \A codec : All(h, "+BCS", codec) => All(after, "+BCS", codec)
  <2>1. /\ answer \in ToUnit /\ answer[1] # "+BCS"
        /\ ~ ok => answer[1] = "ERROR"
    BY DEF ToUnit, Codecs
  <2> HIDE DEF before, answer, h
  <2>2. after = Append(before, answer)
    BY <1>7, <2>1, AppendIsConcat
  <2> HIDE DEF after
  <2> QED BY <1>7, <2>1, <2>2, AppendHas
<1> HIDE DEF t, after
<1>9. channel'.st = "open" /\ channel'.toAG = t /\ channel'.toHF = after
  BY <1>2, <1>3, <1>5 DEF Channels
<1>10. /\ ag'.slc <=> ag.slc \/ (ok /\ x[1] = LastCommand)
       /\ ag'.asked = IF x[1] \in Replies THEN NoCodec ELSE ag.asked
       /\ ag'.codec = IF ok /\ x[1] = "BCS" /\ x[2] \in {ag.asked} \ {NoCodec}
                        THEN x[2] ELSE ag.codec
  BY <1>1, <1>3 DEF Gateways, Replies
<1>11. Agreed(hfp, q, h, ag)
  BY <1>2 DEF CodecInv, Fit
<1> HIDE DEF q, h, x
<1> DEFINE g == ag'
<1> HIDE DEF g
<1>12. Agreed(hfp, t, after, g)
  <2>1. /\ g.slc <=> ag.slc \/ (ok /\ x[1] = LastCommand)
        /\ g.asked = IF x[1] \in Replies THEN NoCodec ELSE ag.asked
        /\ g.codec = IF ok /\ x[1] = "BCS" /\ x[2] \in {ag.asked} \ {NoCodec}
                       THEN x[2] ELSE ag.codec
    BY <1>10 DEF g
  <2>2. CASE ag.slc
    <3>1. /\ hfp.state \notin Early
          /\ One(h, {"+BCS"}) /\ One(q, Replies)
          /\ Has(h, {"+BCS"}) => ~ Answering(hfp) /\ ~ Has(q, Replies)
          /\ Has(q, Replies) => ~ Answering(hfp)
          /\ ~ (Confirms(hfp) /\ Declines(hfp))
          /\ ag.asked = NoCodec =>
               ~ Has(h, {"+BCS"}) /\ ~ Answering(hfp) /\ ~ Has(q, Replies)
          /\ All(h, "+BCS", ag.asked)
          /\ hfp.negotiated_codec = MSBC =>
               /\ Confirms(hfp) => hfp.codec_confirmed = MSBC /\ ag.asked = MSBC
               /\ Has(q, {"BCS"}) => All(q, "BCS", MSBC) /\ ag.asked = MSBC
               /\ \/ ag.codec = MSBC \/ Has(h, {"ERROR"})
                  \/ Confirms(hfp) \/ Has(q, {"BCS"})
      BY <1>11, <2>2 DEF Agreed
    <3>2. /\ One(t, Replies) /\ One(after, {"+BCS"})
          /\ x[1] \in Replies => ~ Has(t, Replies) /\ Has(q, Replies)
          /\ Has(t, Replies) => Has(q, Replies)
      BY <1>6, <1>8, <3>1
    <3>3. All(after, "+BCS", g.asked)
      BY <1>8, <2>1, <3>1, <3>2, HasFacts
    <3>4. ASSUME hfp.negotiated_codec = MSBC
          PROVE  /\ Confirms(hfp) => hfp.codec_confirmed = MSBC /\ g.asked = MSBC
                 /\ Has(t, {"BCS"}) => All(t, "BCS", MSBC) /\ g.asked = MSBC
                 /\ \/ g.codec = MSBC \/ Has(after, {"ERROR"})
                    \/ Confirms(hfp) \/ Has(t, {"BCS"})
      <4>1. Confirms(hfp) => g.asked = MSBC
        BY <2>1, <3>1, <3>2, <3>4 DEF Answering
      <4>2. Has(t, {"BCS"}) => All(t, "BCS", MSBC) /\ g.asked = MSBC
        BY <1>6, <2>1, <3>1, <3>2, <3>4, HasFacts
      <4>3. x[1] = "BCS" => x[2] = MSBC /\ ag.asked = MSBC
        BY <1>6, <3>1, <3>4
      <4>4. MSBC # NoCodec
        BY DEF MSBC, NoCodec
      <4>5. x[1] = "BCS" => g.codec = MSBC \/ Has(after, {"ERROR"})
        BY <1>8, <2>1, <4>3, <4>4
      <4>6. x[1] # "BCS" => g.codec = ag.codec /\ (Has(q, {"BCS"}) => Has(t, {"BCS"}))
        BY <1>6, <2>1
      <4> QED BY <1>8, <3>1, <3>4, <4>1, <4>2, <4>5, <4>6
    <3>5. g.asked = NoCodec =>
            ~ Has(after, {"+BCS"}) /\ ~ Answering(hfp) /\ ~ Has(t, Replies)
      BY <1>8, <2>1, <3>1, <3>2
    <3> QED BY <1>8, <2>1, <2>2, <3>1, <3>2, <3>3, <3>4, <3>5 DEF Agreed
  <2>3. CASE ~ ag.slc
    <3>1. /\ ag.asked = NoCodec /\ ~ Has(h, {"+BCS"}) /\ ~ Has(q, {"BCS"})
          /\ Fresh(hfp)
          /\ hfp.state \in Early => ~ Has(q, Late)
          /\ BacFirst(q)
      BY <1>11, <2>3 DEF Agreed
    <3>2. /\ g.asked = NoCodec /\ ~ Has(after, {"+BCS"}) /\ ~ Has(t, {"BCS"})
          /\ hfp.state \in Early => ~ Has(t, Late)
          /\ BacFirst(t)
      BY <1>6, <1>8, <2>1, <3>1
    <3>3. CASE ~ g.slc
      BY <3>1, <3>2, <3>3 DEF Agreed
    <3>4. CASE g.slc
      <4>1. x[1] \in Late
        BY <2>1, <2>3, <3>4, LastIsLate
      <4>2. hfp.state \notin Early /\ ~ Has(t, Replies)
        BY <1>6, <3>1, <3>2, <4>1, HasFacts
      <4>3. One(after, {"+BCS"}) /\ One(t, Replies) /\ All(after, "+BCS", g.asked)
        BY <3>2, <4>2, HasFacts
      <4> QED BY <3>1, <3>2, <3>4, <4>2, <4>3 DEF Agreed, Fresh, Answering
    <3> QED BY <3>3, <3>4
  <2> QED BY <2>2, <2>3
<1>13. link.st \in Pending =>
         ~ Has(after, {"+BCS"}) /\ (hfp.negotiated_codec = MSBC => link.ag = MSBC)
  BY <1>8 DEF CodecInv, Fit, h
<1>14. ~ hfp.cid => Fresh(hfp)
  BY DEF CodecInv, Fit
<1>15. Fit(hfp, channel', link, g)
  BY <1>9, <1>12, <1>13, <1>14 DEF Fit
<1> QED BY <1>2, <1>4, <1>15 DEF CodecInv, g

LEMMA AgSuggestsFits ==
  ASSUME Inv, CodecInv, AgSuggests PROVE CodecInv' /\ AcceptsAgreed
<1> DEFINE q == channel.toAG
           h == channel.toHF
<1>1. PICK codec \in AgCodecs :
        /\ ag' = [ag EXCEPT !.asked = codec]
        /\ channel' = [channel EXCEPT !.toHF = Append(@, <<"+BCS", codec>>)]
  BY DEF AgSuggests
<1>2. /\ channel.st = "open" /\ ag.slc /\ ag.asked = NoCodec /\ link.st = "none"
      /\ hfp' = hfp /\ link' = link
  BY DEF AgSuggests
<1>3. channel \in Channels /\ h \in Seq(ToUnit) /\ ag \in Gateways
  BY DEF Inv, Typed, Channels
<1>4. codec \in Codecs /\ codec # NoCodec
  BY HfpHandsFreeAssumption DEF Codecs, CVSD, MSBC, NoCodec
<1> DEFINE y == <<"+BCS", codec>>
           after == Append(h, y)
<1>5. y \in ToUnit /\ y[1] = "+BCS" /\ y[2] = codec
  BY <1>4 DEF ToUnit
<1>6. channel' = [channel EXCEPT !.toHF = after]
  BY <1>1
<1> HIDE DEF y
<1>7. Agreed(hfp, q, h, ag)
  BY <1>2 DEF CodecInv, Fit
<1>8. /\ hfp.state \notin Early /\ One(h, {"+BCS"}) /\ One(q, Replies)
      /\ ~ Has(h, {"+BCS"}) /\ ~ Answering(hfp) /\ ~ Has(q, Replies)
      /\ ~ Has(q, {"BCS"})
      /\ hfp.negotiated_codec = MSBC => ag.codec = MSBC \/ Has(h, {"ERROR"})
  BY <1>2, <1>7, HasFacts DEF Agreed, Answering
<1>9. /\ One(after, {"+BCS"}) /\ All(after, "+BCS", codec)
      /\ Has(h, {"ERROR"}) => Has(after, {"ERROR"})
  <2> HIDE DEF h
  <2>1. All(h, "+BCS", codec)
    BY <1>8, HasFacts
  <2> QED BY <1>3, <1>5, <1>8, <2>1, AppendHas
<1> HIDE DEF after
<1>10. channel'.st = "open" /\ channel'.toAG = q /\ channel'.toHF = after
  BY <1>2, <1>3, <1>6 DEF Channels
<1> HIDE DEF q, h
<1> DEFINE g == ag'
<1>11. g.slc /\ g.asked = codec /\ g.codec = ag.codec
  BY <1>1, <1>2, <1>3 DEF Gateways
<1> HIDE DEF g
<1>12. Agreed(hfp, q, after, g)
  BY <1>4, <1>8, <1>9, <1>11 DEF Agreed, Answering
<1>13. ~ hfp.cid => Fresh(hfp)
  BY DEF CodecInv, Fit
<1>14. Fit(hfp, channel', link, g)
  BY <1>2, <1>10, <1>12, <1>13 DEF Fit, Pending
<1>15. AcceptsAgreed
  BY <1>2 DEF AcceptsAgreed, Pending
<1> QED BY <1>2, <1>14, <1>15 DEF CodecInv, g

(* With nothing on its way to the unit, mSBC is agreed by both or by none. *)
LEMMA AgOpensAudioFits ==
  ASSUME Inv, CodecInv, AgOpensAudio PROVE CodecInv' /\ AcceptsAgreed
<1>1. /\ channel.st = "open" /\ channel.toHF = <<>> /\ ag.slc /\ ag.asked = NoCodec
      /\ link.st = "none"
      /\ link' = [st |-> "requested", ag |-> ag.codec, hf |-> NoCodec]
      /\ UNCHANGED <<hfp, channel, ag>>
  BY DEF AgOpensAudio
<1>2. Fit(hfp, channel, link, ag)
  BY DEF CodecInv
<1>3. Agreed(hfp, channel.toAG, <<>>, ag)
  BY <1>1, <1>2 DEF Fit
<1>4. hfp.negotiated_codec = MSBC => ag.codec = MSBC
  BY <1>1, <1>3, EmptyHas, HasFacts DEF Agreed, Answering
<1> DEFINE m == link'
<1>5. m.st = "requested" /\ m.ag = ag.codec
  BY <1>1
<1> HIDE DEF m
<1>6. Fit(hfp, channel, m, ag)
  BY <1>1, <1>2, <1>4, <1>5, EmptyHas DEF Fit
<1>7. AcceptsAgreed
  BY <1>1 DEF AcceptsAgreed, Pending
<1> QED BY <1>1, <1>6, <1>7 DEF CodecInv, m

(* A line of the gateway is taken. *)
LEMMA TakenAgreed ==
  ASSUME NEW c, NEW d, NEW q, NEW h \in Seq(ToUnit), h # <<>>, NEW g,
         Agreed(c, q, h, g), Mild(c, d),
         Head(h)[1] = "ERROR" => d.negotiated_codec # MSBC
  PROVE  Agreed(d, q, Tail(h), g)
<1> DEFINE x == Head(h)
           t == Tail(h)
<1>1. /\ Has(t, {"+BCS"}) => Has(h, {"+BCS"})
      /\ One(h, {"+BCS"}) => One(t, {"+BCS"})
      /\ All(h, "+BCS", g.asked) => All(t, "+BCS", g.asked)
      /\ Has(h, {"ERROR"}) => Has(t, {"ERROR"}) \/ d.negotiated_codec # MSBC
  BY TailHas
<1> HIDE DEF x, t
<1>2. Agreed(d, q, h, g)
  BY MildAgreed
<1> QED BY <1>1, <1>2 DEF Agreed, t

(* The gateway suggests a codec: the unit is to confirm it or to decline.  *)
LEMMA SuggestedAgreed ==
  ASSUME NEW e \in Outcomes, NEW q, NEW h \in Seq(ToUnit), h # <<>>, NEW g,
         Agreed(e.c, q, h, g), Head(h)[1] = "+BCS", Head(h)[2] \in Codecs
  PROVE  /\ Agreed(HandleSuggestedCodec(e, Head(h)[2]).c, q, Tail(h), g)
         /\ HandleSuggestedCodec(e, Head(h)[2]).c.cid = e.c.cid
<1> DEFINE codec == Head(h)[2]
           t == Tail(h)
           r == HandleSuggestedCodec(e, codec)
           f == IF codec \in HfCodecs THEN "hf_send_codec_confirm"
                ELSE "hf_send_supported_codecs"
           n == IF codec \in HfCodecs THEN codec ELSE NoCodec
           s == IF codec \in HfCodecs THEN "HF_CONFIRMED_CODEC"
                ELSE "W4_AG_COMMON_CODEC"
           a == Raise(e, {f})
           d == [a EXCEPT !.c.negotiated_codec = n, !.c.codec_confirmed = n,
                          !.c.codecs_state = s]
<1>1. /\ Has(h, {"+BCS"})
      /\ One(h, {"+BCS"}) => ~ Has(t, {"+BCS"})
      /\ All(h, "+BCS", g.asked) => codec = g.asked
  BY TailHas
<1>2. /\ g.slc /\ e.c.state \notin Early /\ ~ Has(t, {"+BCS"}) /\ One(q, Replies)
      /\ ~ Answering(e.c) /\ ~ Has(q, Replies) /\ ~ Has(q, {"BCS"})
      /\ codec = g.asked /\ g.asked # NoCodec
  BY <1>1, HasFacts DEF Agreed
<1>3. r = d
  BY DEF HandleSuggestedCodec
<1>4. /\ f \in CodecReplies /\ n \in Codecs
      /\ n = MSBC => n = codec /\ f = "hf_send_codec_confirm"
  BY DEF CodecReplies, NoCodec, MSBC, Codecs
<1> HIDE DEF f, n, codec, r, t, s
<1>5. /\ a.c.flags = e.c.flags \cup {f} /\ a.c.state = e.c.state
      /\ a.c.cid = e.c.cid /\ a \in Outcomes
  <2>1. f \in Flags
    BY <1>4 DEF CodecReplies, Flags
  <2>2. a \in Outcomes /\ a.c.cid = e.c.cid /\ a.c.state = e.c.state
    BY <2>1, RaiseFacts DEF SameLinks
  <2> QED BY <2>2 DEF Raise, Outcomes, Context
<1> HIDE DEF a
<1>6. /\ d.c.flags = a.c.flags /\ d.c.state = a.c.state /\ d.c.cid = a.c.cid
      /\ d.c.negotiated_codec = n /\ d.c.codec_confirmed = n
  BY <1>5 DEF Outcomes, Context
<1> HIDE DEF d
<1>7. /\ ~ (Confirms(d.c) /\ Declines(d.c))
      /\ f = "hf_send_codec_confirm" => Confirms(d.c)
  BY <1>2, <1>4, <1>5, <1>6 DEF Answering, Confirms, Declines, CodecReplies
<1>8. One(t, {"+BCS"}) /\ All(t, "+BCS", g.asked)
  BY <1>2, HasFacts
<1>9. Agreed(d.c, q, t, g)
  BY <1>2, <1>4, <1>5, <1>6, <1>7, <1>8 DEF Agreed
<1> QED BY <1>3, <1>5, <1>6, <1>9 DEF codec, t, r

LEMMA ReceiveLineFits ==
  ASSUME Inv, CodecInv, ReceiveLine PROVE CodecInv' /\ AcceptsAgreed
<1> DEFINE h == channel.toHF
           line == Head(h)
           rest == Tail(h)
           e == IF hfp.cid THEN LineOutcome(line) ELSE Here
           s == [Surroundings EXCEPT !.channel.toHF = rest]
<1>1. /\ channel.st = "open" /\ h # <<>> /\ Handle(e, s) /\ ag' = ag
      /\ ag \in Gateways
  <2>1. Surroundings.channel = channel
    BY HereFacts
  <2>2. ag \in Gateways
    BY DEF Inv, Typed
  <2> QED BY <2>1, <2>2 DEF ReceiveLine
<1>2. channel \in Channels /\ h \in Seq(ToUnit)
  BY DEF Inv, Typed, Channels
<1>3. /\ line \in ToUnit /\ rest \in Seq(ToUnit)
      /\ Has(rest, {"+BCS"}) => Has(h, {"+BCS"})
      /\ line[1] = "+BCS" => Has(h, {"+BCS"})
  BY <1>1, <1>2, TailHas
<1>4. line[1] \in {"OK", "ERROR", "+BCS", "+BRSF"} /\ line[2] \in Codecs
  BY <1>3 DEF ToUnit
<1>5. /\ s \in Around /\ s.link = link /\ s.channel.st = "open"
      /\ s.channel.toHF = rest /\ s.channel.toAG = channel.toAG
  <2>1. Surroundings \in Around /\ Surroundings.channel = channel
        /\ Surroundings.link = link
    BY HereFacts
  <2> HIDE DEF Surroundings, rest
  <2> QED BY <1>1, <1>2, <1>3, <2>1 DEF Around, Channels
<1> HIDE DEF s
<1>6. Here \in Outcomes /\ Here.c = hfp /\ Here.cmds = <<>>
  BY HereFacts
<1>7. /\ Agreed(hfp, channel.toAG, h, ag)
      /\ ~ hfp.cid => Fresh(hfp)
      /\ link.st \in Pending =>
           ~ Has(h, {"+BCS"}) /\ (hfp.negotiated_codec = MSBC => link.ag = MSBC)
  BY <1>1 DEF CodecInv, Fit
<1>8. /\ e \in Outcomes /\ e.cmds = <<>>
      /\ Agreed(e.c, channel.toAG, rest, ag)
      /\ ~ e.c.cid => Fresh(e.c)
      /\ Mild(hfp, e.c) \/ Has(h, {"+BCS"})
  <2> HIDE DEF Here
  <2>1. ASSUME NEW r, e = r, r \in Outcomes, r.cmds = Here.cmds, Mild(hfp, r.c),
               line[1] = "ERROR" => r.c.negotiated_codec # MSBC
        PROVE  /\ e \in Outcomes /\ e.cmds = <<>>
               /\ Agreed(e.c, channel.toAG, rest, ag)
               /\ ~ e.c.cid => Fresh(e.c)
               /\ Mild(hfp, e.c)
    <3> HIDE DEF e, h
    <3>1. Agreed(r.c, channel.toAG, rest, ag)
      BY <1>1, <1>2, <1>7, <2>1, TakenAgreed
    <3>2. ~ r.c.cid => Fresh(r.c)
      BY <1>7, <2>1, MildFresh DEF Mild
    <3> QED BY <1>6, <2>1, <3>1, <3>2
  <2>2. CASE ~ hfp.cid
    <3>1. e = Here /\ Mild(hfp, Here.c) /\ hfp.negotiated_codec # MSBC
      BY <1>6, <1>7, <2>2, MildNothing DEF Fresh
    <3> QED BY <1>6, <2>1, <3>1
  <2>3. CASE hfp.cid /\ line[1] \in {"OK", "ERROR", "+BRSF"}
    <3>1. e = LineOutcome(line)
      BY <2>3
    <3> HIDE DEF e, line
    <3>2. CASE line[1] = "OK"
      <4>1. /\ SwitchOnOkPending(Here) \in Outcomes
            /\ SwitchOnOkPending(Here).cmds = Here.cmds
            /\ Mild(hfp, SwitchOnOkPending(Here).c)
        BY <1>6, QuietOk, MildOk DEF Quiet
      <4> QED BY <2>1, <3>1, <3>2, <4>1 DEF LineOutcome
    <3>3. CASE line[1] = "ERROR"
      <4>1. /\ HandleError(Here) \in Outcomes
            /\ HandleError(Here).cmds = Here.cmds
            /\ Mild(hfp, HandleError(Here).c)
            /\ HandleError(Here).c.negotiated_codec # MSBC
        BY <1>6, QuietError, MildError DEF Quiet
      <4> QED BY <2>1, <3>1, <3>3, <4>1 DEF LineOutcome
    <3>4. CASE line[1] = "+BRSF"
      <4> DEFINE f == HfFeatures \cap ag.features
                 r == [Here EXCEPT !.c.features = f]
      <4>1. f \in SUBSET FeatureNames
        BY <1>1 DEF Gateways
      <4>2. e = r
        BY <3>1, <3>4 DEF LineOutcome
      <4> HIDE DEF f
      <4>3. r \in Outcomes /\ r.cmds = Here.cmds /\ Mild(hfp, r.c)
        BY <1>6, <4>1, QuietFeatures, MildFeatures DEF Quiet
      <4> HIDE DEF r
      <4> QED BY <2>1, <3>4, <4>2, <4>3
    <3> QED BY <2>3, <3>2, <3>3, <3>4
  <2>4. CASE hfp.cid /\ line[1] = "+BCS"
    <3>1. e = HandleSuggestedCodec(Here, line[2])
      BY <2>4 DEF LineOutcome
    <3> HIDE DEF e
    <3>2. e \in Outcomes /\ e.cmds = <<>>
      BY <1>4, <1>6, <3>1, QuietSuggested DEF Quiet
    <3>3. Agreed(e.c, channel.toAG, rest, ag) /\ e.c.cid = hfp.cid
      <4> HIDE DEF h
      <4>1. Agreed(Here.c, channel.toAG, h, ag)
        BY <1>6, <1>7
      <4> QED BY <1>1, <1>2, <1>4, <1>6, <2>4, <3>1, <4>1, SuggestedAgreed
    <3> QED BY <1>3, <2>4, <3>2, <3>3
  <2> QED BY <1>4, <2>2, <2>3, <2>4
<1> HIDE DEF e, h, rest, line
<1>9. link.st \in Pending =>
        ~ Has(rest, {"+BCS"}) /\ (e.c.negotiated_codec = MSBC => link.ag = MSBC)
  BY <1>3, <1>7, <1>8 DEF Mild
<1>10. Fit(e.c, s.channel, s.link, ag')
  BY <1>1, <1>5, <1>8, <1>9 DEF Fit
<1> QED BY <1>1, <1>5, <1>8, <1>10, HandleFits

-----------------------------------------------------------------------------
(* HCI events. *)
LEMMA ConnectionRequestFits ==
  ASSUME Inv, CodecInv, ConnectionRequest PROVE CodecInv' /\ AcceptsAgreed
<1>1. link.st = "requested" /\ ag' = ag
  BY DEF ConnectionRequest
<1>2. ASSUME NEW e, Quiet(Here, e), Mild(Here.c, e.c), NEW s \in Around,
             s.channel = channel, s.link.st = "offered", s.link.ag = link.ag,
             Handle(e, s)
      PROVE  CodecInv' /\ AcceptsAgreed
  BY <1>1, <1>2, QuietHandleFits DEF Pending
<1>3. CASE Handle(Here, [Surroundings EXCEPT !.link.st = "offered"])
  <2> DEFINE s == [Surroundings EXCEPT !.link.st = "offered"]
  <2>1. /\ s \in Around /\ s.channel = channel /\ s.link.st = "offered"
        /\ s.link.ag = link.ag /\ Handle(Here, s)
    <3>1. Surroundings \in Around /\ Surroundings.channel = channel
          /\ Surroundings.link = link
      BY HereFacts
    <3> HIDE DEF Surroundings
    <3> QED BY <1>3, <3>1 DEF Around, Links
  <2> HIDE DEF s
  <2> QED BY <1>2, <2>1, HereFacts, MildNothing
<1>4. CASE Handle(Raise(Here, {"accept_sco"}),
                  [Surroundings EXCEPT !.link.st = "offered", !.active = "live"])
  <2> DEFINE s == [Surroundings EXCEPT !.link.st = "offered", !.active = "live"]
             e == Raise(Here, {"accept_sco"})
  <2>1. /\ s \in Around /\ s.channel = channel /\ s.link.st = "offered"
        /\ s.link.ag = link.ag /\ Handle(e, s)
    <3>1. Surroundings \in Around /\ Surroundings.channel = channel
          /\ Surroundings.link = link
      BY HereFacts
    <3> HIDE DEF Surroundings
    <3> QED BY <1>4, <3>1 DEF Around, Links, Attempts
  <2>2. {"accept_sco"} \in SUBSET (Flags \ CodecReplies)
    BY DEF Flags, CodecReplies
  <2>3. Quiet(Here, e) /\ Mild(Here.c, e.c)
    BY <2>2, HereFacts, QuietRaise, MildRaise
  <2> HIDE DEF s, e
  <2> QED BY <1>2, <2>1, <2>3
<1> QED BY <1>3, <1>4 DEF ConnectionRequest

LEMMA SyncConnectedTyped ==
  \A e \in Outcomes :
    SyncConnected(e) \in Outcomes /\ SyncConnected(e).cmds = e.cmds
<1> SUFFICES ASSUME NEW e \in Outcomes
             PROVE  SyncConnected(e) \in Outcomes /\ SyncConnected(e).cmds = e.cmds
  OBVIOUS
<1> DEFINE a == InState(e, AUDIO)
           b == Lower(a, {"establish_audio_connection"})
           codec == e.c.negotiated_codec
           d == [b EXCEPT !.c.sco = TRUE, !.app.audio = codec]
<1>1. {AUDIO, "W2_DISCONNECT_SCO"} \subseteq States
  BY StateFacts DEF FromDisconnectSco
<1>2. a \in Outcomes /\ a.cmds = e.cmds
  BY <1>1, InStateFacts DEF SameLinks
<1>3. b \in Outcomes /\ b.cmds = e.cmds
  <2>1. {"establish_audio_connection"} \in SUBSET Flags
    BY DEF Flags
  <2> HIDE DEF a
  <2> QED BY <1>2, <2>1, LowerFacts DEF SameLinks
<1>4. codec \in {NoCodec, CVSD, MSBC}
  BY DEF Outcomes, Context
<1>5. SyncConnected(e) \in {InState(e, "W2_DISCONNECT_SCO"), d}
  BY DEF SyncConnected
<1> HIDE DEF a, b, codec
<1>6. d \in Outcomes /\ d.cmds = b.cmds
  BY <1>3, <1>4 DEF Outcomes, Context, Told
<1> HIDE DEF d
<1> QED BY <1>1, <1>3, <1>5, <1>6, InStateFacts DEF SameLinks

LEMMA SyncConnectionCompleteFits ==
  ASSUME Inv, CodecInv, SyncConnectionComplete PROVE CodecInv' /\ AcceptsAgreed
<1> DEFINE e == IF scoActive = "none" \/ hfp.state = "NONE"
                  THEN Here ELSE SyncConnected(Here)
           s == [Surroundings EXCEPT !.link.st = "up"]
<1>1. Handle(e, s) /\ ag' = ag
  BY DEF SyncConnectionComplete
<1>2. s \in Around /\ s.channel = channel /\ s.link.st = "up"
  BY SurroundingsAfter
<1>3. Mild(hfp, e.c) /\ e \in Outcomes /\ e.cmds = <<>>
  BY HereFacts, MildNothing, MildSyncConnected, SyncConnectedTyped
<1> HIDE DEF e, s
<1> QED BY <1>1, <1>2, <1>3, MildHandleFits DEF Pending

(* A link that is not there leaves the codec as it is. *)
LEMMA AttemptFailedFits ==
  ASSUME Inv, CodecInv, NEW e, Quiet(Here, e), Mild(Here.c, e.c),
         NEW hasContext \in BOOLEAN, NEW retryable \in BOOLEAN,
         NEW s \in Around, s.channel = channel,
         AttemptFailed(e, hasContext, retryable, s), ag' = ag,
         s.link \in {link, NoLink}
  PROVE  CodecInv' /\ AcceptsAgreed
<1> DEFINE t == [s EXCEPT !.active = "none"]
<1>1. t \in Around /\ t.channel = channel /\ t.link = s.link
  BY SurroundingsAfter DEF Attempts
<1>2. e \in Outcomes
  BY DEF Quiet
<1>3. \/ Handle(TryNextSetting(e), t)
      \/ Handle(e, t)
      \/ Handle(AudioFailed(e), s)
      \/ Handle(e, s)
  BY DEF AttemptFailed
<1> HIDE DEF t
<1>4. ASSUME NEW r, Quiet(e, r), Mild(e.c, r.c), NEW around \in {s, t},
             Handle(r, around)
      PROVE  CodecInv' /\ AcceptsAgreed
  <2>1. Quiet(Here, r) /\ Mild(Here.c, r.c)
    BY <1>4, QuietThen, MildThen
  <2>2. /\ around \in Around /\ around.channel = channel
        /\ around.link \in {link, NoLink}
    BY <1>1
  <2>3. /\ around.link.st \in Pending =>
             link.st \in Pending /\ around.link.ag = link.ag
        /\ around.link.st = "connecting" => link.st = "connecting"
    BY <2>2 DEF NoLink, Pending
  <2> QED BY <1>4, <2>1, <2>2, <2>3, QuietHandleFits
<1> QED BY <1>2, <1>3, <1>4, QuietRetry, QuietAudioFailed, QuietNothing, MildRetry,
           MildAudioFailed, MildNothing

LEMMA NoLinkFits ==
  ASSUME Inv, CodecInv, NEW e, Quiet(Here, e), Mild(Here.c, e.c), ag' = ag,
         Handle(e, [Surroundings EXCEPT !.link = NoLink])
  PROVE  CodecInv' /\ AcceptsAgreed
<1> DEFINE s == [Surroundings EXCEPT !.link = NoLink]
<1>1. s \in Around /\ s.channel = channel /\ s.link = NoLink
  BY SurroundingsAfter, HereFacts DEF Around
<1>2. Handle(e, s)
  OBVIOUS
<1> HIDE DEF s
<1> QED BY <1>1, <1>2, QuietHandleFits DEF NoLink, Pending

LEMMA SyncConnectionFailedFits ==
  ASSUME Inv, CodecInv, NEW retryable \in BOOLEAN, SyncConnectionFailed(retryable)
  PROVE  CodecInv' /\ AcceptsAgreed
<1> DEFINE s == [Surroundings EXCEPT !.link = NoLink]
           e == Lower(Here, {"accept_sco"})
<1>1. ag' = ag
  BY DEF SyncConnectionFailed
<1>2. s \in Around /\ s.channel = channel /\ s.link = NoLink
  BY SurroundingsAfter, HereFacts DEF Around
<1>3. {"accept_sco"} \in SUBSET (Flags \ CodecReplies)
  BY DEF Flags, CodecReplies
<1>4. Quiet(Here, e) /\ Mild(Here.c, e.c)
  BY <1>3, HereFacts, QuietLower, MildLower
<1>5. Handle(Here, s) \/ AttemptFailed(e, TRUE, retryable, s)
  BY DEF SyncConnectionFailed
<1>6. CASE Handle(Here, s)
  BY <1>1, <1>6, HereFacts, MildNothing, NoLinkFits
<1>7. CASE AttemptFailed(e, TRUE, retryable, s)
  <2> HIDE DEF s, e
  <2> QED BY <1>1, <1>2, <1>4, <1>7, AttemptFailedFits
<1> QED BY <1>5, <1>6, <1>7

LEMMA SetupStartedFits ==
  ASSUME Inv, CodecInv, SetupStarted PROVE CodecInv' /\ AcceptsAgreed
<1>1. /\ link.st = "none" /\ link'.st = "connecting"
      /\ UNCHANGED <<hfp, channel, ag>>
  BY DEF SetupStarted
<1> QED BY <1>1, MildNothing, StillFits DEF AcceptsAgreed, Pending

LEMMA SetupRefusedFits ==
  ASSUME Inv, CodecInv, NEW retryable \in BOOLEAN, SetupRefused(retryable)
  PROVE  CodecInv' /\ AcceptsAgreed
<1> DEFINE s == [Surroundings EXCEPT !.setup = NoCodec]
           hasContext == scoActive = "live"
<1>1. ag' = ag
  BY DEF SetupRefused
<1>2. s \in Around /\ s.channel = channel /\ s.link = link
  BY SurroundingsAfter
<1>3. Handle(Here, s) \/ AttemptFailed(Here, hasContext, retryable, s)
  BY DEF SetupRefused
<1>4. hasContext \in BOOLEAN
  OBVIOUS
<1>5. Quiet(Here, Here) /\ Mild(Here.c, Here.c)
  BY HereFacts, MildNothing
<1> HIDE DEF s, hasContext
<1>6. CASE Handle(Here, s)
  BY <1>1, <1>2, <1>5, <1>6, QuietHandleFits
<1>7. CASE AttemptFailed(Here, hasContext, retryable, s)
  BY <1>1, <1>2, <1>4, <1>5, <1>7, AttemptFailedFits
<1> QED BY <1>3, <1>6, <1>7

LEMMA DisconnectionCompleteFits ==
  ASSUME Inv, CodecInv, DisconnectionComplete PROVE CodecInv' /\ AcceptsAgreed
<1> DEFINE e == IF hfp.sco THEN ScoDisconnected(Here) ELSE Here
<1>1. Handle(e, [Surroundings EXCEPT !.link = NoLink]) /\ ag' = ag
  BY DEF DisconnectionComplete
<1>2. Quiet(Here, e) /\ Mild(Here.c, e.c)
  BY HereFacts, QuietScoDisconnected, MildScoDisconnected, MildNothing
<1> HIDE DEF e
<1> QED BY <1>1, <1>2, NoLinkFits

LEMMA RunAgainFits ==
  ASSUME Inv, CodecInv, RunAgain PROVE CodecInv' /\ AcceptsAgreed
<1>1. Handle(Here, Surroundings) /\ ag' = ag
  BY DEF RunAgain
<1> QED BY <1>1, HereFacts, MildNothing, QuietHandleFits

-----------------------------------------------------------------------------
LEMMA CodecInit == Init => CodecInv
<1> SUFFICES ASSUME Init PROVE CodecInv
  OBVIOUS
<1>1. /\ hfp = NoContext /\ channel = NoChannel /\ link = NoLink
      /\ ~ ag.slc /\ ag.asked = NoCodec
  BY DEF Init
<1>2. Fresh(NoContext)
  BY NewContextFacts, MildNoContext, MildFresh
<1> QED BY <1>1, <1>2 DEF CodecInv, Fit, NoChannel, NoLink, Pending

LEMMA CodecNext ==
  Inv /\ CodecInv /\ [Next]_vars => CodecInv' /\ [AcceptsAgreed]_vars
<1> SUFFICES ASSUME Inv, CodecInv, [Next]_vars PROVE CodecInv' /\ [AcceptsAgreed]_vars
  OBVIOUS
<1>1. CASE Application
  BY <1>1, ApplicationFits
<1>2. CASE UnderWay
  <2>1. CASE StartSdpQuery
    BY <2>1, StartSdpQueryFits
  <2>2. CASE SdpQueryComplete
    BY <2>2, SdpQueryCompleteFits
  <2>3. CASE SetupStarted
    BY <2>3, SetupStartedFits
  <2>4. CASE AgAnswers
    BY <2>4, AgAnswersFits
  <2>5. CASE ReceiveLine
    BY <2>5, ReceiveLineFits
  <2>6. CASE \E ok \in BOOLEAN : ChannelOpenedEvent(ok)
    BY <2>6, ChannelOpenedFits
  <2>7. CASE DisconnectDone
    BY <2>7, ChannelClosedFits DEF DisconnectDone
  <2>8. CASE ConnectionRequest
    BY <2>8, ConnectionRequestFits
  <2>9. CASE SyncConnectionComplete
    BY <2>9, SyncConnectionCompleteFits
  <2>10. CASE \E retryable \in BOOLEAN :
                SyncConnectionFailed(retryable) \/ SetupRefused(retryable)
    BY <2>10, SyncConnectionFailedFits, SetupRefusedFits
  <2>11. CASE AudioClosed
    BY <2>11, DisconnectionCompleteFits DEF AudioClosed
  <2>12. CASE RunAgain
    BY <2>12, RunAgainFits
  <2> QED BY <1>2, <2>1, <2>2, <2>3, <2>4, <2>5, <2>6, <2>7, <2>8, <2>9, <2>10,
             <2>11, <2>12 DEF UnderWay
<1>3. CASE Peer
  <2>1. CASE IncomingConnection
    BY <2>1, IncomingConnectionFits
  <2>2. CASE ChannelLost
    BY <2>2, ChannelClosedFits DEF ChannelLost
  <2>3. CASE AgSuggests
    BY <2>3, AgSuggestsFits
  <2>4. CASE AgOpensAudio
    BY <2>4, AgOpensAudioFits
  <2>5. CASE AudioLost
    BY <2>5, DisconnectionCompleteFits DEF AudioLost
  <2> QED BY <1>3, <2>1, <2>2, <2>3, <2>4, <2>5 DEF Peer
<1>4. CASE UNCHANGED vars
  <2>1. UNCHANGED <<hfp, channel, ag, link>>
    BY <1>4 DEF vars
  <2> QED BY <1>4, <2>1, MildNothing, StillFits
<1> QED BY <1>1, <1>2, <1>3, <1>4 DEF Next

(* A link the gateway opens is accepted with the voice setting of mSBC     *)
(* (hfp_accept_synchronous_connection takes negotiated_codec) only when    *)
(* the gateway agreed to mSBC, however suggestions, refusals and calls of  *)
(* the application fall together with its request.                         *)
THEOREM CodecAgreed == Spec => MsbcOnlyIfAgreed
<1>1. Inv /\ CodecInv /\ [Next]_vars => CodecInv'
  BY CodecNext
<1>2. Inv /\ CodecInv /\ [Next]_vars =>
        [link.st \in {"requested", "offered"} /\ link'.st = "connecting"
           /\ link'.hf = MSBC => link'.ag = MSBC]_vars
  BY CodecNext DEF AcceptsAgreed, Pending
<1> QED BY <1>1, <1>2, CodecInit, Invariant, PTL DEF Spec, MsbcOnlyIfAgreed

=============================================================================
