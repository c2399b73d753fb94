-------------------------- MODULE HciSendingProofs --------------------------
(***************************************************************************)
(* Packets reach the controller whole, and no credit is lost or made up    *)
(* between host and controller, in either direction: for any number of     *)
(* connections, channels, buffers and fragments, however often links are   *)
(* lost and raised again and the controller fails.                         *)
(***************************************************************************)
EXTENDS HciSending, FiniteSetTheorems, SequenceTheorems, TLAPS

AclPackets == [type : {"acl"}, handle : Handles, channel : Channels,
               first : BOOLEAN, last : BOOLEAN]

ConnectionStates == {"none", "open", "send_disconnect", "sent_disconnect"}
EventTypes == {"completed", "command", "command_busy", "command_credit", "acl",
               "connected", "disconnected", "hardware_error"}

TransportTyped ==
  transport = <<>> \/ \E p : transport = <<p>> /\ (p.type = "acl" => p \in AclPackets)

ControlTyped == pc \in {"idle", "notify", "more", "run"} /\ after \in {"idle", "run"}

(* As much of the types as the proof needs.                                *)
Typed ==
  /\ conn \in [Handles -> ConnectionStates]
  /\ waiting \subseteq Channels
  /\ total \in Nat /\ pos \in Nat
  /\ reserved \in BOOLEAN
  /\ TransportTyped /\ ControlTyped
  /\ events \in Seq([type : EventTypes, handle : Handles \cup {None}])
  /\ link \subseteq Handles
  /\ partial \in [Handles -> Channels \cup {None}]

Sent(h) ==
  transport # <<>> /\ transport[1].type = "acl" /\ transport[1].handle = h

(* A packet that has more to send keeps the buffer, is that of a known     *)
(* connection, and its first fragment is away.                             *)
BufferKept ==
  total > 0 => /\ reserved /\ pos > 0
               /\ buffer \in [handle : Handles, channel : Channels]
               /\ Known(buffer.handle)

LoopHasMore == pc = "more" => total > 0

(* The fragment in the transport is that of the packet in the buffer, or   *)
(* the last of one that is not there any more, or for a link that is gone. *)
FragmentOfBuffer ==
  \A h \in link : Sent(h) =>
    /\ Known(h)
    /\ transport[1].last => total = 0
    /\ ~ transport[1].last => /\ total > 0
                              /\ buffer = [handle |-> h,
                                           channel |-> transport[1].channel]

(* A link that ended is not raised again before the host knows.            *)
EndedLinks ==
  \A i \in DOMAIN events : events[i].type = "disconnected" => events[i].handle \notin link

(* The packet of which the controller has the beginning only.              *)
Begun(h) ==
  IF Sent(h) THEN IF transport[1].first THEN None ELSE transport[1].channel
  ELSE IF total > 0 /\ buffer.handle = h THEN buffer.channel ELSE None

ControllerAgrees ==
  \A h \in Handles : partial[h] = IF h \in link THEN Begun(h) ELSE None

Whole ==
  /\ Typed /\ BufferKept /\ LoopHasMore /\ FragmentOfBuffer /\ EndedLinks
  /\ ControllerAgrees

LEMMA WholeInitially == Init => Whole
<1> SUFFICES ASSUME Init PROVE Whole
  OBVIOUS
<1>1. Typed
  <2>1. events \in Seq([type : EventTypes, handle : Handles \cup {None}])
    BY EmptySeq DEF Init
  <2>2. TransportTyped /\ ControlTyped
    BY DEF Init, TransportTyped, ControlTyped
  <2>3. conn \in [Handles -> ConnectionStates] /\ partial \in [Handles -> Channels \cup {None}]
    BY DEF Init, ConnectionStates
  <2> QED
    BY <2>1, <2>2, <2>3 DEF Init, Typed
<1>2. FragmentOfBuffer /\ EndedLinks
  BY DEF Init, FragmentOfBuffer, EndedLinks
<1>3. ControllerAgrees
  BY DEF Init, ControllerAgrees
<1>4. BufferKept /\ LoopHasMore
  BY DEF Init, BufferKept, LoopHasMore
<1> QED
  BY <1>1, <1>2, <1>3, <1>4 DEF Whole

(* A fragment that is sent starts a packet when there is none in the       *)
(* buffer, and otherwise continues the one that is.                        *)
LEMMA FragmentKeepsWhole ==
  ASSUME Whole,
         NEW h \in Handles, NEW c \in Channels, NEW n \in Nat, NEW of \in Nat,
         NEW return \in {"idle", "run"},
         of > 0, transport = <<>>, Known(h),
         \/ n = 0 /\ total = 0
         \/ n = pos /\ total > 0 /\ buffer = [handle |-> h, channel |-> c],
         SendFragment(h, c, n, of, return),
         reserved', reserved' \in BOOLEAN, waiting' \subseteq Channels,
         UNCHANGED <<conn, events, link, partial>>
  PROVE  Whole'
<1> DEFINE p == [type |-> "acl", handle |-> h, channel |-> c,
                 first |-> n = 0, last |-> n + 1 = of]
<1>1. /\ transport' = <<p>> /\ p \in AclPackets /\ p.first = (n = 0)
      /\ p.last = (n + 1 = of) /\ p.handle = h /\ p.channel = c /\ p.type = "acl"
  BY DEF SendFragment, AclPackets
<1> HIDE DEF p
<1>2. /\ p.last => total' = 0 /\ pos' = 0 /\ pc' = return
      /\ ~ p.last => /\ total' = of /\ pos' = n + 1 /\ pc' = "more"
                     /\ buffer' = [handle |-> h, channel |-> c]
      /\ after' = return
  BY <1>1 DEF SendFragment
<1>3. transport' # <<>> /\ transport'[1] = p
  BY <1>1
<1>4. Typed'
  <2>1. TransportTyped'
    BY <1>1 DEF TransportTyped
  <2>2. ControlTyped' /\ total' \in Nat /\ pos' \in Nat
    BY <1>2 DEF ControlTyped
  <2> QED
    BY <2>1, <2>2 DEF Whole, Typed
<1>5. BufferKept' /\ LoopHasMore'
  BY <1>2 DEF BufferKept, LoopHasMore, Known
<1>6. \A g : Sent(g)' <=> g = h
  BY <1>1, <1>3 DEF Sent
<1>7. FragmentOfBuffer'
  BY <1>1, <1>2, <1>3, <1>6 DEF FragmentOfBuffer, Known
<1>8. EndedLinks'
  BY DEF Whole, EndedLinks
<1>9. ControllerAgrees'
  <2>1. SUFFICES ASSUME NEW g \in Handles, g \in link
                 PROVE  partial[g] = Begun(g)'
    BY DEF Whole, ControllerAgrees
  <2>2. partial[g] = IF total > 0 /\ buffer.handle = g THEN buffer.channel ELSE None
    BY <2>1 DEF Whole, ControllerAgrees, Begun, Sent
  <2>3. CASE g = h
    <3>1. Begun(g)' = IF n = 0 THEN None ELSE c
      BY <1>1, <1>3, <1>6, <2>3 DEF Begun
    <3>2. total > 0 => pos > 0
      BY DEF Whole, BufferKept
    <3>3. pos \in Nat /\ total \in Nat
      BY DEF Whole, Typed
    <3> QED
      BY <2>2, <2>3, <3>1, <3>2, <3>3
  <2>4. CASE g # h
    <3>1. Begun(g)' = None
      BY <1>2, <1>6, <2>4 DEF Begun
    <3>2. total \in Nat
      BY DEF Whole, Typed
    <3> QED
      BY <2>2, <2>4, <3>1, <3>2
  <2> QED
    BY <2>3, <2>4
<1> QED
  BY <1>4, <1>5, <1>7, <1>8, <1>9 DEF Whole

(* A command finds the buffer free, so that no packet has more to send.    *)
LEMMA CommandKeepsWhole ==
  ASSUME Whole, NEW packet, packet.type # "acl",
         CanSendCommandTransport, SendCommand(packet),
         total' = total, pos' = pos,
         conn' \in [Handles -> ConnectionStates],
         pc' = "idle", after' = "idle",
         UNCHANGED <<waiting, events, link, partial>>
  PROVE  Whole'
<1>1. total = 0 /\ transport = <<>>
  BY DEF Whole, Typed, BufferKept, CanSendCommandTransport
<1>2. transport' = <<packet>> /\ transport' # <<>> /\ transport'[1] = packet
  BY DEF SendCommand
<1>3. \A h : ~ Sent(h)'
  BY <1>2 DEF Sent
<1>4. Typed'
  <2>1. TransportTyped' /\ ControlTyped'
    BY <1>2 DEF TransportTyped, ControlTyped
  <2>2. reserved' \in BOOLEAN
    BY DEF SendCommand
  <2> QED
    BY <2>1, <2>2 DEF Whole, Typed
<1>5. BufferKept' /\ LoopHasMore'
  BY <1>1 DEF BufferKept, LoopHasMore
<1>6. FragmentOfBuffer' /\ EndedLinks'
  BY <1>3 DEF Whole, FragmentOfBuffer, EndedLinks
<1>7. ControllerAgrees'
  <2>1. \A h : Begun(h) = None /\ Begun(h)' = None
    BY <1>1, <1>3 DEF Begun, Sent
  <2> QED
    BY <2>1 DEF Whole, ControllerAgrees
<1> QED
  BY <1>4, <1>5, <1>6, <1>7 DEF Whole

(* Steps that neither send nor take a packet, nor end a connection.        *)
LEMMA QuietKeepsWhole ==
  ASSUME Whole,
         UNCHANGED <<transport, buffer, total, pos, link, partial>>,
         reserved' \in BOOLEAN, total > 0 => reserved',
         conn' \in [Handles -> ConnectionStates],
         \A h \in Handles : Known(h) => Known(h)',
         events' \in Seq([type : EventTypes, handle : Handles \cup {None}]),
         EndedLinks',
         ControlTyped', LoopHasMore', waiting' \subseteq Channels
  PROVE  Whole'
<1>1. Typed'
  BY DEF Whole, Typed, TransportTyped
<1>2. BufferKept'
  BY DEF Whole, BufferKept
<1>3. \A h : (Sent(h)' <=> Sent(h)) /\ Begun(h)' = Begun(h)
  BY DEF Sent, Begun
<1>4. FragmentOfBuffer'
  BY <1>3 DEF Whole, Typed, FragmentOfBuffer
<1>5. ControllerAgrees'
  BY <1>3 DEF Whole, ControllerAgrees
<1> QED
  BY <1>1, <1>2, <1>4, <1>5 DEF Whole

(* An event that is handled, and one that is sent.                         *)
LEMMA HandledEvent ==
  ASSUME Whole, events # <<>>
  PROVE  /\ Head(events) \in [type : EventTypes, handle : Handles \cup {None}]
         /\ Head(events).type = "disconnected" => Head(events).handle \notin link
         /\ Tail(events) \in Seq([type : EventTypes, handle : Handles \cup {None}])
         /\ \A i \in DOMAIN Tail(events) : Tail(events)[i].type = "disconnected"
                => Tail(events)[i].handle \notin link
<1> DEFINE E == [type : EventTypes, handle : Handles \cup {None}]
<1>1. events \in Seq(E) /\ EndedLinks
  BY DEF Whole, Typed
<1> HIDE DEF E
<1>2. /\ Head(events) \in E /\ Tail(events) \in Seq(E) /\ Len(events) > 0
      /\ Head(events) = events[1] /\ Len(Tail(events)) = Len(events) - 1
      /\ DOMAIN events = 1 .. Len(events)
      /\ DOMAIN Tail(events) = 1 .. Len(Tail(events))
      /\ \A i \in 1 .. Len(Tail(events)) : Tail(events)[i] = events[i + 1]
  BY <1>1
<1>3. \A i \in DOMAIN Tail(events) : i + 1 \in DOMAIN events
  BY <1>2
<1>4. 1 \in DOMAIN events
  BY <1>2
<1> QED
  BY <1>1, <1>2, <1>3, <1>4 DEF EndedLinks, E

LEMMA SentEvent ==
  ASSUME Whole, NEW type \in EventTypes, NEW h \in Handles \cup {None},
         events' = Append(events, Event(type, h)),
         link' \subseteq link \/ \E g : link' = link \cup {g} /\ ~ Mentions(g),
         type = "disconnected" => h \notin link'
  PROVE  /\ events' \in Seq([type : EventTypes, handle : Handles \cup {None}])
         /\ EndedLinks'
<1> DEFINE E == [type : EventTypes, handle : Handles \cup {None}]
<1>1. events \in Seq(E) /\ EndedLinks /\ Event(type, h) \in E
  BY DEF Whole, Typed, Event
<1>2. Event(type, h).type = type /\ Event(type, h).handle = h
  BY DEF Event
<1> HIDE DEF E
<1>3. /\ events' \in Seq(E) /\ DOMAIN events' = 1 .. Len(events) + 1
      /\ DOMAIN events = 1 .. Len(events) /\ Len(events) \in Nat
      /\ \A i \in 1 .. Len(events) : events'[i] = events[i]
      /\ events'[Len(events) + 1] = Event(type, h)
  BY <1>1, AppendProperties
<1>4. \A i \in DOMAIN events : \A g : ~ Mentions(g) => events[i].handle # g
  BY <1>3 DEF Mentions, Range
<1>5. EndedLinks'
  <2>1. SUFFICES ASSUME NEW i \in DOMAIN events', events'[i].type = "disconnected"
                 PROVE  events'[i].handle \notin link'
    BY DEF EndedLinks
  <2>2. CASE i \in DOMAIN events
    <3>1. events'[i] = events[i] /\ events[i].handle \notin link
      BY <1>1, <1>3, <2>1, <2>2 DEF EndedLinks
    <3> QED
      BY <1>4, <2>2, <3>1
  <2>3. CASE i = Len(events) + 1
    BY <1>2, <1>3, <2>1, <2>3
  <2> QED
    BY <1>3, <2>2, <2>3
<1> QED
  BY <1>3, <1>5 DEF E

-----------------------------------------------------------------------------
(* Each action.                                                            *)

LEMMA SendingKeepsWhole == Whole /\ Sending => Whole'
<1> SUFFICES ASSUME Whole, Sending PROVE Whole'
  OBVIOUS
<1> USE DEF Whole
<1>1. CASE AskChannel
  <2>1. PICK i \in ReadyIndices :
          LET c == l2cap_channels[i]
          IN  /\ waiting' = waiting \ {c}
              /\ \/ /\ reserved' = TRUE
                    /\ \E n \in 1 .. MaxFragments :
                         SendFragment(HandleOf[c], c, 0, n, after)
                 \/ NothingSent /\ UNCHANGED control
    BY <1>1 DEF AskChannel
  <2> DEFINE c == l2cap_channels[i]
  <2>2. /\ c \in Channels /\ HandleOf[c] \in Handles
        /\ ~ reserved /\ transport = <<>> /\ Known(HandleOf[c])
    BY <2>1, ConstantsAssumption
    DEF ReadyIndices, Ready, CanSendAcl, CanSendPrepared, Typed
  <2>3. UNCHANGED <<conn, events, link, partial>> /\ waiting' \subseteq Channels
    BY <1>1, <2>1 DEF AskChannel, world, remote, Typed
  <2>4. total = 0 /\ after \in {"idle", "run"} /\ pc = "notify"
    <3>1. pc = "notify"
      BY <1>1 DEF AskChannel
    <3> QED
      BY <2>2, <3>1 DEF BufferKept, Typed, ControlTyped, LoopHasMore
  <2>5. CASE /\ reserved' = TRUE
             /\ \E n \in 1 .. MaxFragments : SendFragment(HandleOf[c], c, 0, n, after)
    <3>1. PICK n \in 1 .. MaxFragments : SendFragment(HandleOf[c], c, 0, n, after)
      BY <2>5
    <3>2. n \in Nat /\ n > 0
      BY <3>1, ConstantsAssumption
    <3> HIDE DEF c, Whole
    <3> QED
      BY <2>2, <2>3, <2>4, <2>5, <3>1, <3>2, FragmentKeepsWhole
  <2>6. CASE NothingSent /\ UNCHANGED control
    <3>1. UNCHANGED <<transport, buffer, total, pos, reserved, pc, after>>
      BY <2>6 DEF NothingSent, out, control
    <3> QED
      BY <2>3, <3>1, QuietKeepsWhole
      DEF Typed, ControlTyped, LoopHasMore, Known, EndedLinks, BufferKept
  <2> QED
    BY <2>1, <2>5, <2>6
<1>2. CASE NotifyEnds
  <2>1. UNCHANGED <<transport, buffer, total, pos, reserved, conn, waiting,
                    events, link, partial>>
    BY <1>2 DEF NotifyEnds, NothingSent, out, l2cap, world, remote
  <2>2. ControlTyped' /\ LoopHasMore'
    BY <1>2 DEF NotifyEnds, Return, Then, Typed, ControlTyped, LoopHasMore
  <2> QED
    BY <2>1, <2>2, QuietKeepsWhole DEF Typed, Known, EndedLinks, BufferKept
<1>3. CASE SendMore
  <2>1. /\ total > 0 /\ transport = <<>> /\ Known(buffer.handle)
        /\ SendFragment(buffer.handle, buffer.channel, pos, total, after)
        /\ UNCHANGED <<conn, reserved, waiting, events, link, partial>>
    BY <1>3 DEF SendMore, CanSendPrepared, LoopHasMore, l2cap, world, remote
  <2>2. /\ buffer.handle \in Handles /\ buffer.channel \in Channels
        /\ buffer = [handle |-> buffer.handle, channel |-> buffer.channel]
        /\ reserved
    BY <2>1 DEF BufferKept
  <2>3. pos \in Nat /\ total \in Nat /\ after \in {"idle", "run"}
        /\ waiting' \subseteq Channels /\ reserved' /\ reserved' \in BOOLEAN
    BY <2>1, <2>2 DEF Typed, ControlTyped
  <2> HIDE DEF Whole
  <2> QED
    BY <2>1, <2>2, <2>3, FragmentKeepsWhole
<1>4. CASE SendNoMore
  <2>1. UNCHANGED <<transport, buffer, total, pos, reserved, conn, waiting,
                    events, link, partial>>
    BY <1>4 DEF SendNoMore, NothingSent, out, l2cap, world, remote
  <2>2. ControlTyped' /\ LoopHasMore'
    BY <1>4 DEF SendNoMore, Return, Then, Typed, ControlTyped, LoopHasMore
  <2> QED
    BY <2>1, <2>2, QuietKeepsWhole DEF Typed, Known, EndedLinks, BufferKept
<1> QED
  BY <1>1, <1>2, <1>3, <1>4 DEF Sending

LEMMA HciRunKeepsWhole == Whole /\ HciRun => Whole'
<1> SUFFICES ASSUME Whole, HciRun PROVE Whole'
  OBVIOUS
<1> USE DEF Whole
<1>0. UNCHANGED <<waiting, events, link, partial>> /\ waiting' \subseteq Channels
      /\ pc = "run"
  BY DEF HciRun, RunInit, RunInitDone, RunFragments, RunHostCompleted,
         RunDisconnect, RunNothing, Running, l2cap, world, remote, Typed
<1>1. ~ Orphaned
  BY DEF Orphaned, BufferKept
<1>2. CASE RunInit
  <2>1. /\ SendCommand([type |-> "init"]) /\ CanSendCommandTransport
        /\ total' = total /\ pos' = pos /\ conn' = conn
        /\ pc' = "idle" /\ after' = "idle"
    BY <1>2 DEF RunInit, CanSendCommand, Then
  <2> QED
    BY <1>0, <2>1, CommandKeepsWhole DEF Typed
<1>3. CASE RunInitDone
  <2>1. UNCHANGED <<transport, buffer, total, pos, reserved, conn, pc, after>>
    BY <1>3 DEF RunInitDone, NothingSent, out, control
  <2> QED
    BY <1>0, <2>1, QuietKeepsWhole
    DEF Typed, ControlTyped, LoopHasMore, Known, EndedLinks, BufferKept
<1>4. CASE RunFragments
  <2>1. /\ total > 0 /\ transport = <<>> /\ Known(buffer.handle)
        /\ SendFragment(buffer.handle, buffer.channel, pos, total, "idle")
        /\ UNCHANGED <<conn, reserved>>
    BY <1>4 DEF RunFragments, FragmentsFirst, CanSendPrepared
  <2>2. /\ buffer.handle \in Handles /\ buffer.channel \in Channels
        /\ buffer = [handle |-> buffer.handle, channel |-> buffer.channel]
        /\ reserved
    BY <2>1 DEF BufferKept
  <2>3. pos \in Nat /\ total \in Nat /\ reserved' /\ reserved' \in BOOLEAN
    BY <2>1, <2>2 DEF Typed
  <2> HIDE DEF Whole
  <2> QED
    BY <1>0, <2>1, <2>2, <2>3, FragmentKeepsWhole
<1>5. CASE RunHostCompleted
  <2> DEFINE packet == [type |-> "host_completed", number |-> num_packets_completed]
  <2>1. /\ SendCommand(packet) /\ CanSendCommandTransport
        /\ total' = total /\ pos' = pos /\ conn' = conn
        /\ pc' = "idle" /\ after' = "idle"
    BY <1>1, <1>5 DEF RunHostCompleted, KeepFragments, Then
  <2>2. packet.type # "acl"
    OBVIOUS
  <2> HIDE DEF packet
  <2> QED
    BY <1>0, <2>1, <2>2, CommandKeepsWhole DEF Typed
<1>6. ASSUME NEW h \in Handles, RunDisconnect(h) PROVE Whole'
  <2> DEFINE packet == [type |-> "disconnect", handle |-> h]
  <2>1. /\ SendCommand(packet) /\ CanSendCommandTransport
        /\ total' = total /\ pos' = pos
        /\ conn' = [conn EXCEPT ![h] = "sent_disconnect"]
        /\ pc' = "idle" /\ after' = "idle"
    BY <1>1, <1>6 DEF RunDisconnect, KeepFragments, CanSendCommand, Then
  <2>2. packet.type # "acl"
    OBVIOUS
  <2>3. conn' \in [Handles -> ConnectionStates]
    BY <2>1 DEF Typed, ConnectionStates
  <2> HIDE DEF packet
  <2> QED
    BY <1>0, <2>1, <2>2, <2>3, CommandKeepsWhole
<1>7. CASE RunNothing
  <2>1. UNCHANGED <<transport, buffer, total, pos, reserved, conn>>
        /\ pc' = "idle" /\ after' = "idle"
    BY <1>1, <1>7 DEF RunNothing, KeepFragments, Then
  <2> QED
    BY <1>0, <2>1, QuietKeepsWhole
    DEF Typed, ControlTyped, LoopHasMore, Known, EndedLinks, BufferKept
<1> QED
  BY <1>2, <1>3, <1>4, <1>5, <1>6, <1>7 DEF HciRun

LEMMA PacketSentKeepsWhole == Whole /\ TransportPacketSent => Whole'
<1> SUFFICES ASSUME Whole, TransportPacketSent PROVE Whole'
  OBVIOUS
<1>1. /\ UNCHANGED <<transport, buffer, total, pos, conn, waiting, events, link, partial>>
      /\ reserved' = (reserved /\ total > 0)
      /\ pc' = "notify" /\ after' = "run"
  BY DEF TransportPacketSent, Then, l2cap, world, remote
<1>2. reserved' \in BOOLEAN /\ (total > 0 => reserved')
  BY <1>1 DEF Whole, BufferKept
<1> QED
  BY <1>1, <1>2, QuietKeepsWhole
  DEF Whole, Typed, ControlTyped, LoopHasMore, Known, EndedLinks

(* The end of a connection: its packet leaves the buffer, the other        *)
(* connections are not concerned.                                          *)
LEMMA DisconnectionKeepsWhole == Whole /\ DisconnectionComplete => Whole'
<1> SUFFICES ASSUME Whole, DisconnectionComplete PROVE Whole'
  OBVIOUS
<1> DEFINE h == Head(events).handle
<1>1. /\ events # <<>> /\ Head(events).type = "disconnected" /\ events' = Tail(events)
      /\ UNCHANGED <<transport, link, partial>> /\ DropFragments(h)
  BY DEF DisconnectionComplete, Receives, world, remote
<1>2. h \notin link /\ events' \in Seq([type : EventTypes, handle : Handles \cup {None}])
      /\ EndedLinks'
  BY <1>1, HandledEvent DEF EndedLinks
<1>3. /\ conn' \in [Handles -> ConnectionStates] /\ waiting' \subseteq Channels
      /\ \A g \in Handles : Known(g) /\ g # h => Known(g)'
      /\ pc' \in {"notify", "run"} /\ after' \in {"idle", "run"}
  <2>1. CASE Known(h)
    <3>1. ShutdownConnection(h) /\ Then("notify", "run")
      BY <2>1 DEF DisconnectionComplete
    <3>2. conn' = [conn EXCEPT ![h] = "none"] /\ waiting' \subseteq waiting
      BY <3>1 DEF ShutdownConnection
    <3> HIDE DEF h
    <3> QED
      BY <3>1, <3>2 DEF Then, Whole, Typed, Known, ConnectionStates
  <2>2. CASE ~ Known(h)
    <3>1. UNCHANGED <<conn, waiting>> /\ Then("run", "idle")
      BY <2>2 DEF DisconnectionComplete, l2cap
    <3> QED
      BY <3>1 DEF Then, Whole, Typed, Known
  <2> QED
    BY <2>1, <2>2
<1> HIDE DEF h
<1>4. CASE total > 0 /\ buffer.handle = h
  <2>1. total' = 0 /\ pos' = 0 /\ reserved' \in BOOLEAN
    BY <1>1, <1>4 DEF DropFragments
  <2>2. Typed'
    BY <1>1, <1>2, <1>3, <2>1 DEF Whole, Typed, TransportTyped, ControlTyped
  <2>3. BufferKept' /\ LoopHasMore'
    BY <1>3, <2>1 DEF BufferKept, LoopHasMore
  <2>4. \A g : Sent(g)' <=> Sent(g)
    BY <1>1 DEF Sent
  <2>5. FragmentOfBuffer'
    <3>1. SUFFICES ASSUME NEW g \in link, Sent(g) PROVE FALSE
      BY <1>1, <2>4 DEF FragmentOfBuffer
    <3>2. g # h
      BY <1>2, <3>1
    <3>3. transport[1].last \/ ~ transport[1].last
      OBVIOUS
    <3> QED
      BY <1>4, <3>1, <3>2, <3>3 DEF Whole, FragmentOfBuffer
  <2>6. ControllerAgrees'
    <3>1. \A g \in link : Begun(g)' = Begun(g)
      BY <1>1, <1>2, <1>4, <2>1, <2>4 DEF Begun
    <3> QED
      BY <1>1, <3>1 DEF Whole, ControllerAgrees
  <2> QED
    BY <1>2, <2>2, <2>3, <2>5, <2>6 DEF Whole
<1>5. CASE ~ (total > 0 /\ buffer.handle = h)
  <2>1. UNCHANGED <<total, pos, buffer, reserved>>
    BY <1>1, <1>5 DEF DropFragments
  <2>2. Typed'
    BY <1>1, <1>2, <1>3, <2>1 DEF Whole, Typed, TransportTyped, ControlTyped
  <2>3. BufferKept' /\ LoopHasMore'
    <3>1. ASSUME total > 0 PROVE Known(buffer.handle)'
      BY <1>3, <1>5, <2>1, <3>1 DEF Whole, BufferKept, Known
    <3> QED
      BY <1>3, <2>1, <3>1 DEF Whole, BufferKept, LoopHasMore
  <2>4. \A g : (Sent(g)' <=> Sent(g)) /\ Begun(g)' = Begun(g)
    BY <1>1, <2>1 DEF Sent, Begun
  <2>5. FragmentOfBuffer'
    BY <1>1, <1>2, <1>3, <2>1, <2>4 DEF Whole, Typed, FragmentOfBuffer
  <2>6. ControllerAgrees'
    BY <1>1, <2>4 DEF Whole, ControllerAgrees
  <2> QED
    BY <1>2, <2>2, <2>3, <2>5, <2>6 DEF Whole
<1> QED
  BY <1>4, <1>5

(* The controller fails: no link is left, the host keeps what it has.      *)
LEMMA ErrorKeepsWhole == Whole /\ HardwareError => Whole'
<1> SUFFICES ASSUME Whole, HardwareError PROVE Whole'
  OBVIOUS
<1>1. /\ transport' = <<>> /\ link' = {} /\ partial' = [g \in Handles |-> None]
      /\ events' = <<>> /\ pc' = "run" /\ after' = "idle"
      /\ UNCHANGED <<conn, reserved, buffer, total, pos, waiting>>
  BY DEF HardwareError, ResetController, Then, out, l2cap
<1>2. Typed'
  <2>1. events' \in Seq([type : EventTypes, handle : Handles \cup {None}])
    BY <1>1, EmptySeq
  <2>2. TransportTyped' /\ ControlTyped'
    BY <1>1 DEF TransportTyped, ControlTyped
  <2>3. partial' \in [Handles -> Channels \cup {None}]
    BY <1>1
  <2> QED
    BY <1>1, <2>1, <2>2, <2>3 DEF Whole, Typed
<1>3. BufferKept' /\ LoopHasMore'
  BY <1>1 DEF Whole, BufferKept, LoopHasMore, Known
<1>4. FragmentOfBuffer' /\ EndedLinks' /\ ControllerAgrees'
  BY <1>1 DEF FragmentOfBuffer, EndedLinks, ControllerAgrees
<1> QED
  BY <1>2, <1>3, <1>4 DEF Whole

LEMMA ReceivedKeepsWhole == Whole /\ PacketReceived => Whole'
<1> SUFFICES ASSUME Whole,
                    NumberOfCompletedPackets \/ CommandComplete \/ AclReceived
                      \/ ConnectionComplete
             PROVE  Whole'
  BY DisconnectionKeepsWhole, ErrorKeepsWhole DEF PacketReceived
<1>1. /\ events # <<>> /\ events' = Tail(events) /\ pc = "idle"
      /\ UNCHANGED <<transport, buffer, total, pos, reserved, waiting, link, partial>>
  BY DEF NumberOfCompletedPackets, CommandComplete, AclReceived,
         ConnectionComplete, Receives, world, remote, out, l2cap
<1>2. ControlTyped' /\ LoopHasMore'
  BY <1>1 DEF NumberOfCompletedPackets, CommandComplete, AclReceived,
              ConnectionComplete, Then, control, ControlTyped, LoopHasMore,
              Whole, Typed
<1>3. /\ conn' \in [Handles -> ConnectionStates]
      /\ \A g \in Handles : Known(g) => Known(g)'
  <2>1. conn' = conn \/ conn' = [conn EXCEPT ![Head(events).handle] = "open"]
    BY DEF NumberOfCompletedPackets, CommandComplete, AclReceived,
           ConnectionComplete
  <2> QED
    BY <2>1 DEF Whole, Typed, Known, ConnectionStates
<1>4. /\ events' \in Seq([type : EventTypes, handle : Handles \cup {None}])
      /\ EndedLinks'
  BY <1>1, HandledEvent DEF EndedLinks
<1>5. reserved' \in BOOLEAN /\ waiting' \subseteq Channels /\ (total > 0 => reserved')
  BY <1>1 DEF Whole, Typed, BufferKept
<1> QED
  BY <1>1, <1>2, <1>3, <1>4, <1>5, QuietKeepsWhole

LEMMA CallsKeepWhole ==
  Whole /\ (Application \/ \E h \in Handles : GapDisconnect(h)) => Whole'
<1> SUFFICES ASSUME Whole, Application \/ \E h \in Handles : GapDisconnect(h)
             PROVE  Whole'
  OBVIOUS
<1>1. /\ pc = "idle"
      /\ UNCHANGED <<transport, buffer, total, pos, reserved, events, link, partial>>
  BY DEF Application, OpenChannel, RequestCanSend, GapDisconnect, Called, out, remote
<1>2. waiting' \subseteq Channels
  BY DEF Application, OpenChannel, RequestCanSend, GapDisconnect, l2cap, Whole, Typed
<1>3. ControlTyped' /\ LoopHasMore'
  BY <1>1 DEF Application, OpenChannel, RequestCanSend, GapDisconnect, Then,
              control, ControlTyped, LoopHasMore, Whole, Typed
<1>4. /\ conn' \in [Handles -> ConnectionStates]
      /\ \A g \in Handles : Known(g) => Known(g)'
  <2>1. conn' = conn \/ \E h \in Handles : conn' = [conn EXCEPT ![h] = "send_disconnect"]
    BY DEF Application, OpenChannel, RequestCanSend, GapDisconnect
  <2> QED
    BY <2>1 DEF Whole, Typed, Known, ConnectionStates
<1>5. reserved' \in BOOLEAN /\ (total > 0 => reserved')
  BY <1>1 DEF Whole, Typed, BufferKept
<1>6. events' \in Seq([type : EventTypes, handle : Handles \cup {None}])
      /\ EndedLinks'
  BY <1>1 DEF Whole, Typed, EndedLinks
<1> QED
  BY <1>1, <1>2, <1>3, <1>4, <1>5, <1>6, QuietKeepsWhole

(* The controller takes a fragment: it has begun the packet, or all of it. *)
LEMMA TakesKeepsWhole ==
  Whole /\ (TakesAcl \/ TakesCommand \/ TakesHostCompleted) => Whole'
<1> SUFFICES ASSUME Whole, TakesAcl \/ TakesCommand \/ TakesHostCompleted
             PROVE  Whole'
  OBVIOUS
<1>1. /\ transport # <<>> /\ transport' = <<>>
      /\ UNCHANGED <<conn, reserved, buffer, total, pos, waiting, pc, after, link>>
  BY DEF TakesAcl, TakesCommand, TakesHostCompleted, Takes, Host, out, l2cap, control
<1>2. events' \in Seq([type : EventTypes, handle : Handles \cup {None}]) /\ EndedLinks'
  <2>1. CASE TakesCommand
    <3>1. PICK type \in {"command", "command_busy"} :
            events' = Append(events, Event(type, None))
      BY <2>1 DEF TakesCommand
    <3>2. type \in EventTypes /\ type # "disconnected"
      BY DEF EventTypes
    <3> QED
      BY <1>1, <3>1, <3>2, SentEvent
  <2>2. CASE TakesAcl \/ TakesHostCompleted
    <3>1. events' = events
      BY <2>2 DEF TakesAcl, TakesHostCompleted
    <3> QED
      BY <1>1, <3>1 DEF Whole, Typed, EndedLinks
  <2> QED
    BY <2>1, <2>2
<1>3. \A h \in Handles : h \in link =>
         /\ Sent(h) => partial' = [partial EXCEPT
                ![h] = IF transport[1].last THEN None ELSE transport[1].channel]
  BY <1>1 DEF TakesAcl, TakesCommand, TakesHostCompleted, Sent
<1>4. \A h \in Handles : ~ (h \in link /\ Sent(h)) => partial'[h] = partial[h]
  <2>1. CASE TakesAcl
    <3>1. transport[1].type = "acl" /\ partial \in [Handles -> Channels \cup {None}]
      BY <2>1 DEF TakesAcl, Whole, Typed
    <3>2. CASE transport[1].handle \in link
      BY <1>1, <2>1, <3>1, <3>2 DEF TakesAcl, Sent
    <3>3. CASE transport[1].handle \notin link
      BY <2>1, <3>3 DEF TakesAcl
    <3> QED
      BY <3>2, <3>3
  <2>2. CASE TakesCommand \/ TakesHostCompleted
    BY <2>2 DEF TakesCommand, TakesHostCompleted
  <2> QED
    BY <2>1, <2>2
<1>5. partial' \in [Handles -> Channels \cup {None}]
  <2>1. CASE TakesAcl
    <3>1. transport[1] \in AclPackets
      BY <1>1, <2>1 DEF TakesAcl, Whole, Typed, TransportTyped
    <3>2. transport[1].channel \in Channels
      BY <3>1 DEF AclPackets
    <3> QED
      BY <2>1, <3>2 DEF TakesAcl, Whole, Typed
  <2>2. CASE TakesCommand \/ TakesHostCompleted
    BY <2>2 DEF TakesCommand, TakesHostCompleted, Whole, Typed
  <2> QED
    BY <2>1, <2>2
<1>6. Typed'
  BY <1>1, <1>2, <1>5 DEF Whole, Typed, TransportTyped, ControlTyped
<1>7. BufferKept' /\ LoopHasMore'
  BY <1>1 DEF Whole, BufferKept, LoopHasMore, Known
<1>8. \A h : ~ Sent(h)'
  BY <1>1 DEF Sent
<1>9. FragmentOfBuffer'
  BY <1>8 DEF FragmentOfBuffer
<1>10. ControllerAgrees'
  <2>1. SUFFICES ASSUME NEW h \in Handles
                 PROVE  partial'[h] = IF h \in link THEN Begun(h)' ELSE None
    BY <1>1 DEF ControllerAgrees
  <2>2. Begun(h)' = IF total > 0 /\ buffer.handle = h THEN buffer.channel ELSE None
    BY <1>1, <1>8 DEF Begun
  <2>3. CASE h \in link /\ Sent(h)
    <3>1. partial'[h] = IF transport[1].last THEN None ELSE transport[1].channel
      BY <1>3, <2>3 DEF Whole, Typed
    <3>2. /\ transport[1].last => total = 0
          /\ ~ transport[1].last => /\ total > 0
                                    /\ buffer = [handle |-> h,
                                                 channel |-> transport[1].channel]
      BY <2>3 DEF Whole, FragmentOfBuffer
    <3> QED
      BY <2>2, <2>3, <3>1, <3>2
  <2>4. CASE h \in link /\ ~ Sent(h)
    BY <1>4, <2>2, <2>4 DEF Whole, ControllerAgrees, Begun
  <2>5. CASE h \notin link
    BY <1>4, <2>5 DEF Whole, ControllerAgrees
  <2> QED
    BY <2>3, <2>4, <2>5
<1> QED
  BY <1>2, <1>6, <1>7, <1>9, <1>10 DEF Whole

LEMMA EventKeepsWhole ==
  Whole /\ (Fails \/ GivesCredit \/ \E h \in Handles : CompletesPacket(h) \/ SendsAcl(h))
    => Whole'
<1> SUFFICES ASSUME Whole, NEW h \in Handles \cup {None}, NEW type \in EventTypes,
                    type # "disconnected", Sends(type, h),
                    UNCHANGED <<link, partial>>
             PROVE  Whole'
  BY DEF Fails, GivesCredit, CompletesPacket, SendsAcl, EventTypes, remote
<1>1. /\ events' = Append(events, Event(type, h))
      /\ UNCHANGED <<conn, reserved, buffer, total, pos, waiting, pc, after, transport>>
  BY DEF Sends, Host, out, l2cap, control
<1>2. events' \in Seq([type : EventTypes, handle : Handles \cup {None}]) /\ EndedLinks'
  BY <1>1, SentEvent
<1> QED
  BY <1>1, <1>2, QuietKeepsWhole
  DEF Whole, Typed, ControlTyped, LoopHasMore, Known, BufferKept

(* A link ends, and one comes up.                                          *)
LEMMA LinksKeepWhole ==
  Whole /\ (\E h \in Handles : Disconnects(h) \/ Connects(h)) => Whole'
<1> SUFFICES ASSUME Whole, NEW h \in Handles, Disconnects(h) \/ Connects(h)
             PROVE  Whole'
  OBVIOUS
<1>1. UNCHANGED <<conn, reserved, buffer, total, pos, waiting, pc, after, transport>>
  BY DEF Disconnects, Connects, Sends, Host, out, l2cap, control
<1>2. /\ BufferKept' /\ LoopHasMore' /\ TransportTyped' /\ ControlTyped'
      /\ \A g : (Sent(g)' <=> Sent(g)) /\ Begun(g)' = Begun(g)
  BY <1>1 DEF Whole, Typed, BufferKept, LoopHasMore, TransportTyped,
              ControlTyped, Known, Sent, Begun
<1>3. CASE Disconnects(h)
  <2>1. /\ events' = Append(events, Event("disconnected", h))
        /\ link' = link \ {h} /\ partial' = [partial EXCEPT ![h] = None]
        /\ "disconnected" \in EventTypes
    BY <1>3 DEF Disconnects, Sends, EventTypes
  <2>2. events' \in Seq([type : EventTypes, handle : Handles \cup {None}]) /\ EndedLinks'
    BY <2>1, SentEvent
  <2>3. Typed'
    BY <1>1, <1>2, <2>1, <2>2 DEF Whole, Typed
  <2>4. FragmentOfBuffer' /\ ControllerAgrees'
    BY <1>1, <1>2, <2>1 DEF Whole, Typed, FragmentOfBuffer, ControllerAgrees, Known
  <2> QED
    BY <1>2, <2>2, <2>3, <2>4 DEF Whole
<1>4. CASE Connects(h)
  <2>1. /\ events' = Append(events, Event("connected", h))
        /\ link' = link \cup {h} /\ partial' = partial /\ transport = <<>>
        /\ ~ Known(h) /\ ~ Mentions(h) /\ h \notin link
        /\ "connected" \in EventTypes
    BY <1>4 DEF Connects, Sends, EventTypes
  <2>2. events' \in Seq([type : EventTypes, handle : Handles \cup {None}]) /\ EndedLinks'
    BY <2>1, SentEvent
  <2>3. Typed'
    BY <1>1, <1>2, <2>1, <2>2 DEF Whole, Typed
  <2>4. FragmentOfBuffer'
    BY <1>2, <2>1 DEF FragmentOfBuffer, Sent
  <2>5. Begun(h) = None
    BY <2>1 DEF Whole, BufferKept, Begun, Sent
  <2>6. ControllerAgrees'
    BY <1>2, <2>1, <2>5 DEF Whole, ControllerAgrees
  <2> QED
    BY <1>2, <2>2, <2>3, <2>4, <2>6 DEF Whole
<1> QED
  BY <1>3, <1>4

LEMMA WholeInductive == Whole /\ [Next]_vars => Whole'
<1> SUFFICES ASSUME Whole, [Next]_vars PROVE Whole'
  OBVIOUS
<1>1. CASE UNCHANGED vars
  <2>1. /\ UNCHANGED <<transport, buffer, total, pos, link, partial, reserved,
                       conn, events, waiting, pc, after>>
    BY <1>1 DEF vars, out, l2cap, control, remote
  <2> QED
    BY <2>1, QuietKeepsWhole
    DEF Whole, Typed, ControlTyped, LoopHasMore, Known, BufferKept, EndedLinks
<1> QED
  BY <1>1, SendingKeepsWhole, HciRunKeepsWhole, PacketSentKeepsWhole,
     ReceivedKeepsWhole, CallsKeepWhole, TakesKeepsWhole, EventKeepsWhole,
     LinksKeepWhole
  DEF Next, Stack, Controller, Incidents

(* The next fragment of a link is the one its controller expects           *)
(* (hci_send_acl_packet_fragments, hci_run_acl_fragments and the handlers  *)
(* of HCI_EVENT_TRANSPORT_PACKET_SENT and HCI_EVENT_DISCONNECTION_COMPLETE *)
(* in hci.c).                                                              *)
THEOREM PacketsArriveWhole == Spec => []PacketsStayWhole
<1>1. Whole => PacketsStayWhole
  <2> SUFFICES ASSUME Whole, NEW p \in Range(transport), p.type = "acl", Alive(p.handle)
               PROVE  partial[p.handle] = IF p.first THEN None ELSE p.channel
    BY DEF PacketsStayWhole
  <2>1. transport = <<p>>
    BY DEF Whole, Typed, TransportTyped, Range
  <2>2. Sent(p.handle) /\ transport[1] = p
    BY <2>1 DEF Sent
  <2>3. p.handle \in link /\ p.handle \in Handles
    BY DEF Alive, Whole, Typed
  <2> QED
    BY <2>2, <2>3 DEF Whole, ControllerAgrees, Begun
<1> QED
  BY <1>1, WholeInitially, WholeInductive, PTL DEF Spec

-----------------------------------------------------------------------------
(* The credits.                                                            *)

CountersTyped ==
  /\ num_packets_sent \in [Handles -> Nat] /\ held \in [Handles -> Nat]
  /\ num_packets_completed \in [Handles -> Nat] /\ given \in [Handles -> Nat]
  /\ transport # <<>> /\ transport[1].type = "host_completed"
       => transport[1].number \in [Handles -> Nat]

(* What the host and the controller forget when a connection ends.         *)
UnknownHasNone ==
  \A h \in Handles : ~ Known(h) =>
    num_packets_sent[h] = 0 /\ num_packets_completed[h] = 0
UnlinkedHasNone ==
  \A h \in Handles : h \notin link => held[h] = 0 /\ given[h] = 0

(* What the host hears first of a new link is that it is up.               *)
Announced ==
  \A h \in link : ~ Known(h) =>
    \E i \in DOMAIN events : /\ events[i] = Event("connected", h)
                             /\ \A j \in DOMAIN events : j < i => events[j].handle # h

SentCounted ==
  \A h \in link :
    num_packets_sent[h] = held[h] + SentNow(h) + Pending("completed", h)
ReceivedCounted ==
  \A h \in link :
    given[h] = Pending("acl", h) + num_packets_completed[h] + ReportedNow(h)

Accounts ==
  /\ CountersTyped /\ UnknownHasNone /\ UnlinkedHasNone /\ Announced
  /\ SentCounted /\ ReceivedCounted

-----------------------------------------------------------------------------
(* Counting in a sequence.                                                 *)

Places(s, x) == { i \in DOMAIN s : s[i] = x }

LEMMA PlacesFinite ==
  ASSUME NEW S, NEW s \in Seq(S), NEW x
  PROVE  IsFiniteSet(Places(s, x)) /\ Cardinality(Places(s, x)) \in Nat
<1>1. DOMAIN s = 1 .. Len(s) /\ Len(s) \in Nat
  OBVIOUS
<1>2. IsFiniteSet(DOMAIN s)
  BY <1>1, FS_Interval
<1>3. Places(s, x) \in SUBSET (DOMAIN s)
  BY DEF Places
<1> QED
  BY <1>2, <1>3, FS_Subset, FS_CardinalityType

LEMMA CountAppended ==
  ASSUME NEW S, NEW s \in Seq(S), NEW y \in S, NEW x
  PROVE  Cardinality(Places(Append(s, y), x)) =
           Cardinality(Places(s, x)) + (IF y = x THEN 1 ELSE 0)
<1>1. /\ DOMAIN s = 1 .. Len(s) /\ Len(s) \in Nat
      /\ DOMAIN Append(s, y) = 1 .. Len(s) + 1
      /\ \A i \in 1 .. Len(s) : Append(s, y)[i] = s[i]
      /\ Append(s, y)[Len(s) + 1] = y
  BY AppendProperties
<1>2. Len(s) + 1 \notin Places(s, x)
  BY <1>1 DEF Places
<1>3. CASE y = x
  <2>1. Places(Append(s, y), x) = Places(s, x) \cup {Len(s) + 1}
    BY <1>1, <1>3 DEF Places
  <2> QED
    BY <1>2, <1>3, <2>1, PlacesFinite, FS_AddElement
<1>4. CASE y # x
  <2>1. Places(Append(s, y), x) = Places(s, x)
    BY <1>1, <1>4 DEF Places
  <2> QED
    BY <1>4, <2>1, PlacesFinite
<1> QED
  BY <1>3, <1>4

LEMMA CountTail ==
  ASSUME NEW S, NEW s \in Seq(S), s # <<>>, NEW x
  PROVE  Cardinality(Places(s, x)) =
           Cardinality(Places(Tail(s), x)) + (IF Head(s) = x THEN 1 ELSE 0)
<1>1. /\ DOMAIN s = 1 .. Len(s) /\ Len(s) \in Nat /\ Len(s) > 0
      /\ Tail(s) \in Seq(S) /\ DOMAIN Tail(s) = 1 .. Len(s) - 1
      /\ \A i \in 1 .. Len(s) - 1 : Tail(s)[i] = s[i + 1]
      /\ Head(s) = s[1]
  OBVIOUS
<1> DEFINE T == Places(Tail(s), x)
           U == { i \in Places(s, x) : i > 1 }
           f == [i \in T |-> i + 1]
<1>2. IsFiniteSet(T) /\ Cardinality(T) \in Nat
  BY <1>1, PlacesFinite
<1>3. f \in Bijection(T, U)
  <2>1. \A i \in T : i \in Nat /\ i + 1 \in U
    BY <1>1 DEF Places
  <2>2. f \in Injection(T, U)
    BY <2>1 DEF Injection, IsInjective
  <2>3. \A j \in U : \E i \in T : f[i] = j
    <3>1. TAKE j \in U
    <3>2. j - 1 \in T /\ (j - 1) + 1 = j
      BY <1>1 DEF Places
    <3> QED
      BY <3>2
  <2> QED
    BY <2>1, <2>2, <2>3 DEF Bijection, Surjection
<1>4. IsFiniteSet(U) /\ Cardinality(U) = Cardinality(T)
  BY <1>2, <1>3, FS_Bijection DEF ExistsBijection
<1> HIDE DEF T, f
<1>5. CASE Head(s) = x
  <2>1. Places(s, x) = U \cup {1} /\ 1 \notin U
    BY <1>1, <1>5 DEF Places
  <2> HIDE DEF U
  <2> QED
    BY <1>4, <1>5, <2>1, FS_AddElement DEF T
<1>6. CASE Head(s) # x
  <2>1. Places(s, x) = U
    BY <1>1, <1>6 DEF Places
  <2> HIDE DEF U
  <2>2. Cardinality(Places(s, x)) = Cardinality(T) /\ Cardinality(T) \in Nat
    BY <1>2, <1>4, <2>1
  <2>3. Cardinality(Places(s, x)) = Cardinality(T) + 0
    BY <2>2
  <2> QED
    BY <1>6, <2>3 DEF T
<1> QED
  BY <1>5, <1>6

-----------------------------------------------------------------------------
(* The events of a kind, when one is sent and when one is handled.         *)

Es == Seq([type : EventTypes, handle : Handles \cup {None}])

LEMMA PendingOfSent ==
  ASSUME events \in Es, NEW type \in EventTypes, NEW g \in Handles \cup {None},
         events' = Append(events, Event(type, g)), NEW t, NEW h
  PROVE  Pending(t, h)' =
           Pending(t, h) + (IF Event(type, g) = Event(t, h) THEN 1 ELSE 0)
<1> DEFINE E == [type : EventTypes, handle : Handles \cup {None}]
<1>1. Event(type, g) \in E /\ events \in Seq(E)
  BY DEF Event, Es
<1> HIDE DEF E
<1>2. Cardinality(Places(Append(events, Event(type, g)), Event(t, h))) =
        Cardinality(Places(events, Event(t, h)))
          + (IF Event(type, g) = Event(t, h) THEN 1 ELSE 0)
  BY ONLY <1>1, CountAppended
<1>3. Cardinality(Places(events', Event(t, h))) =
        Cardinality(Places(events, Event(t, h)))
          + (IF Event(type, g) = Event(t, h) THEN 1 ELSE 0)
  BY <1>2
<1> QED
  BY <1>3 DEF Pending, Quantify, Places, Event

LEMMA PendingOfHandled ==
  ASSUME events \in Es, events # <<>>, events' = Tail(events), NEW t, NEW h
  PROVE  Pending(t, h) =
           Pending(t, h)' + (IF Head(events) = Event(t, h) THEN 1 ELSE 0)
<1>1. Cardinality(Places(events, Event(t, h))) =
        Cardinality(Places(Tail(events), Event(t, h)))
          + (IF Head(events) = Event(t, h) THEN 1 ELSE 0)
  BY CountTail DEF Es
<1>2. Cardinality(Places(events, Event(t, h))) =
        Cardinality(Places(events', Event(t, h)))
          + (IF Head(events) = Event(t, h) THEN 1 ELSE 0)
  BY <1>1
<1> QED
  BY <1>2 DEF Pending, Quantify, Places, Event

LEMMA PendingTyped ==
  ASSUME events \in Es, NEW t, NEW h
  PROVE  Pending(t, h) \in Nat
<1>1. Cardinality(Places(events, Event(t, h))) \in Nat
  BY PlacesFinite DEF Es
<1> QED
  BY <1>1 DEF Pending, Quantify, Places, Event

LEMMA NonePending ==
  ASSUME events \in Es, NEW t, NEW h, ~ Mentions(h)
  PROVE  Pending(t, h) = 0
<1>1. Places(events, Event(t, h)) = {}
  BY DEF Mentions, Range, Places, Event
<1>2. Cardinality(Places(events, Event(t, h))) = 0
  BY <1>1, FS_EmptySet
<1> QED
  BY <1>2 DEF Pending, Quantify, Places, Event

(* The packet in the transport.                                            *)
AclPlaces(t, h) == { i \in DOMAIN t : t[i].type = "acl" /\ t[i].handle = h }

FirstIsAcl(t, h) == t # <<>> /\ t[1].type = "acl" /\ t[1].handle = h

LEMMA CountInTransport ==
  ASSUME NEW t, t = <<>> \/ \E p : t = <<p>>, NEW h
  PROVE  Cardinality(AclPlaces(t, h)) = IF FirstIsAcl(t, h) THEN 1 ELSE 0
<1>1. CASE FirstIsAcl(t, h)
  <2>1. AclPlaces(t, h) = {1}
    BY <1>1 DEF AclPlaces, FirstIsAcl
  <2> QED
    BY <1>1, <2>1, FS_Singleton
<1>2. CASE ~ FirstIsAcl(t, h)
  <2>1. AclPlaces(t, h) = {}
    BY <1>2 DEF AclPlaces, FirstIsAcl
  <2> QED
    BY <1>2, <2>1, FS_EmptySet
<1> QED
  BY <1>1, <1>2

LEMMA NowSent ==
  ASSUME TransportTyped, NEW h
  PROVE  SentNow(h) = IF Sent(h) THEN 1 ELSE 0
<1>1. transport = <<>> \/ \E p : transport = <<p>>
  BY DEF TransportTyped
<1>2. Cardinality(AclPlaces(transport, h)) = IF FirstIsAcl(transport, h) THEN 1 ELSE 0
  BY <1>1, CountInTransport
<1> QED
  BY ONLY <1>2 DEF SentNow, Quantify, Sent, AclPlaces, FirstIsAcl

LEMMA NextSent ==
  ASSUME TransportTyped', NEW h
  PROVE  SentNow(h)' = IF Sent(h)' THEN 1 ELSE 0
<1>1. transport' = <<>> \/ \E p : transport' = <<p>>
  BY DEF TransportTyped
<1>2. Cardinality(AclPlaces(transport', h)) = IF FirstIsAcl(transport', h) THEN 1 ELSE 0
  BY <1>1, CountInTransport
<1> QED
  BY ONLY <1>2 DEF SentNow, Quantify, Sent, AclPlaces, FirstIsAcl

-----------------------------------------------------------------------------
(* Each action.                                                            *)

LEMMA AccountsInitially == Init => Accounts
<1> SUFFICES ASSUME Init PROVE Accounts
  OBVIOUS
<1>1. CountersTyped
  BY DEF Init, Zero, CountersTyped
<1>2. UnknownHasNone /\ UnlinkedHasNone
  BY DEF Init, Zero, UnknownHasNone, UnlinkedHasNone
<1>3. Announced /\ SentCounted /\ ReceivedCounted
  BY DEF Init, Announced, SentCounted, ReceivedCounted
<1> QED
  BY <1>1, <1>2, <1>3 DEF Accounts

(* Steps that count nothing.                                               *)
LEMMA UncountedKeepsAccounts ==
  ASSUME Accounts,
         UNCHANGED <<num_packets_sent, num_packets_completed, held, given,
                     transport, events, link>>,
         \A h \in Handles : Known(h)' <=> Known(h), link \subseteq Handles
  PROVE  Accounts'
<1>1. CountersTyped' /\ UnlinkedHasNone'
  BY DEF Accounts, CountersTyped, UnlinkedHasNone
<1>2. UnknownHasNone'
  BY DEF Accounts, UnknownHasNone
<1>3. Announced'
  BY DEF Accounts, Announced, Event
<1>4. SentCounted' /\ ReceivedCounted'
  BY DEF Accounts, SentCounted, ReceivedCounted, SentNow, ReportedNow,
         Pending, Quantify, Event
<1> QED
  BY <1>1, <1>2, <1>3, <1>4 DEF Accounts

(* A packet the host sends: a fragment, or a command of another kind.      *)
LEMMA SendingKeepsAccounts ==
  ASSUME Accounts, Whole, Whole', transport = <<>>,
         NEW p, transport' = <<p>>,
         \/ /\ p.type = "acl" /\ Known(p.handle) /\ p.handle \in Handles
            /\ num_packets_sent' = [num_packets_sent EXCEPT ![p.handle] = @ + 1]
            /\ num_packets_completed' = num_packets_completed
         \/ /\ p.type \in {"init", "disconnect"}
            /\ UNCHANGED <<num_packets_sent, num_packets_completed>>
         \/ /\ p.type = "host_completed" /\ p.number = num_packets_completed
            /\ num_packets_completed' = Zero /\ num_packets_sent' = num_packets_sent,
         UNCHANGED <<held, given, events, link>>,
         \A h \in Handles : Known(h)' <=> Known(h)
  PROVE  Accounts'
<1>1. /\ transport' # <<>> /\ transport'[1] = p /\ TransportTyped /\ TransportTyped'
      /\ link \subseteq Handles
  BY DEF Whole, Typed
<1>2. \A h : ~ Sent(h) /\ (Sent(h)' <=> p.type = "acl" /\ p.handle = h)
  BY <1>1 DEF Sent
<1>3. \A h : SentNow(h) = 0 /\ SentNow(h)' = IF p.type = "acl" /\ p.handle = h
                                             THEN 1 ELSE 0
  BY <1>1, <1>2, NowSent, NextSent
<1>4. \A h : /\ ReportedNow(h) = 0
             /\ ReportedNow(h)' = IF p.type = "host_completed" THEN p.number[h] ELSE 0
  BY <1>1 DEF ReportedNow
<1>5. \A t, h : Pending(t, h)' = Pending(t, h) /\ Pending(t, h) \in Nat
  <2>1. \A t, h : Pending(t, h)' = Pending(t, h)
    BY DEF Pending, Quantify, Event
  <2> QED
    BY <2>1, PendingTyped DEF Whole, Typed, Es
<1>6. CountersTyped'
  <2>1. /\ num_packets_sent' \in [Handles -> Nat]
        /\ num_packets_completed' \in [Handles -> Nat]
    <3>1. \/ num_packets_sent' = num_packets_sent
          \/ num_packets_sent' = [num_packets_sent EXCEPT ![p.handle] = @ + 1]
      OBVIOUS
    <3>2. num_packets_completed' = num_packets_completed \/ num_packets_completed' = Zero
      OBVIOUS
    <3>3. num_packets_sent \in [Handles -> Nat] /\ num_packets_completed \in [Handles -> Nat]
      BY DEF Accounts, CountersTyped
    <3>4. num_packets_sent' \in [Handles -> Nat]
      BY ONLY <3>1, <3>3
    <3>5. num_packets_completed' \in [Handles -> Nat]
      BY ONLY <3>2, <3>3 DEF Zero
    <3> QED
      BY <3>4, <3>5
  <2>2. p.type = "host_completed" => p.number \in [Handles -> Nat]
    BY DEF Accounts, CountersTyped
  <2> QED
    BY <1>1, <2>1, <2>2 DEF Accounts, CountersTyped
<1>7. UnknownHasNone'
  BY DEF Accounts, UnknownHasNone, CountersTyped, Zero
<1>8. UnlinkedHasNone'
  BY DEF Accounts, UnlinkedHasNone
<1>9. Announced'
  BY <1>1 DEF Accounts, Announced, Event
<1>10. SentCounted'
  <2>1. SUFFICES ASSUME NEW h \in link
                 PROVE  num_packets_sent'[h] = held[h] + SentNow(h)' + Pending("completed", h)'
    BY DEF SentCounted
  <2>2. num_packets_sent[h] = held[h] + Pending("completed", h)
    BY <1>1, <1>3, <1>5 DEF Accounts, SentCounted, CountersTyped
  <2>3. num_packets_sent'[h] = num_packets_sent[h] + SentNow(h)'
    BY <1>1, <1>3 DEF Accounts, CountersTyped
  <2> QED
    BY <1>1, <1>3, <1>5, <2>2, <2>3 DEF Accounts, CountersTyped
<1>11. ReceivedCounted'
  <2>1. SUFFICES ASSUME NEW h \in link
                 PROVE  given[h] = Pending("acl", h)' + num_packets_completed'[h]
                                     + ReportedNow(h)'
    BY DEF ReceivedCounted
  <2>2. given[h] = Pending("acl", h) + num_packets_completed[h]
    BY <1>1, <1>4, <1>5 DEF Accounts, ReceivedCounted, CountersTyped
  <2>3. num_packets_completed[h] = num_packets_completed'[h] + ReportedNow(h)'
    BY <1>1, <1>4 DEF Accounts, CountersTyped, Zero
  <2>4. /\ num_packets_completed[h] \in Nat /\ num_packets_completed'[h] \in Nat
        /\ ReportedNow(h)' \in Nat
    BY <1>1, <1>4, <1>6 DEF Accounts, CountersTyped
  <2> QED
    BY <1>5, <2>2, <2>3, <2>4
<1> QED
  BY <1>6, <1>7, <1>8, <1>9, <1>10, <1>11 DEF Accounts

(* The controller takes a packet of the host.                              *)
LEMMA TakingKeepsAccounts ==
  Accounts /\ Whole /\ Whole' /\ (TakesAcl \/ TakesCommand \/ TakesHostCompleted)
    => Accounts'
<1> SUFFICES ASSUME Accounts, Whole, Whole',
                    TakesAcl \/ TakesCommand \/ TakesHostCompleted
             PROVE  Accounts'
  OBVIOUS
<1>1. /\ transport # <<>> /\ transport' = <<>>
      /\ UNCHANGED <<conn, num_packets_sent, num_packets_completed, link>>
      /\ TransportTyped /\ TransportTyped' /\ link \subseteq Handles
      /\ events \in Es
  BY DEF TakesAcl, TakesCommand, TakesHostCompleted, Takes, Host, flow,
         Whole, Typed, Es
<1>2. \A h : /\ ReportedNow(h)' = 0 /\ SentNow(h)' = 0
             /\ SentNow(h) = IF Sent(h) THEN 1 ELSE 0
  BY <1>1, NowSent, NextSent DEF ReportedNow, Sent
<1>3. \A h : /\ Pending("completed", h)' = Pending("completed", h)
             /\ Pending("acl", h)' = Pending("acl", h)
             /\ Pending("completed", h) \in Nat /\ Pending("acl", h) \in Nat
  <2>1. CASE TakesCommand
    <3>1. PICK type \in {"command", "command_busy"} :
            events' = Append(events, Event(type, None))
      BY <2>1 DEF TakesCommand
    <3>2. \A h : Event(type, None) # Event("completed", h)
                 /\ Event(type, None) # Event("acl", h)
      BY DEF Event
    <3>3. type \in EventTypes
      BY DEF EventTypes
    <3> QED
      BY <1>1, <3>1, <3>2, <3>3, PendingOfSent, PendingTyped
  <2>2. CASE TakesAcl \/ TakesHostCompleted
    <3>1. events' = events
      BY <2>2 DEF TakesAcl, TakesHostCompleted
    <3>2. \A t, h : Pending(t, h)' = Pending(t, h)
      BY <3>1 DEF Pending, Quantify, Event
    <3> QED
      BY <1>1, <3>2, PendingTyped
  <2> QED
    BY <2>1, <2>2
<1>4. Announced'
  <2>1. \/ events' = events
        \/ \E type \in {"command", "command_busy"} :
             events' = Append(events, Event(type, None))
    BY DEF TakesAcl, TakesCommand, TakesHostCompleted
  <2>2. \A i \in DOMAIN events : i \in DOMAIN events' /\ events'[i] = events[i]
        /\ \A j \in DOMAIN events' : j < i => j \in DOMAIN events
    <3>1. CASE events' = events
      BY <3>1
    <3>2. ASSUME NEW type \in {"command", "command_busy"},
                 events' = Append(events, Event(type, None))
          PROVE  \A i \in DOMAIN events : i \in DOMAIN events' /\ events'[i] = events[i]
                 /\ \A j \in DOMAIN events' : j < i => j \in DOMAIN events
      <4>1. Event(type, None) \in [type : EventTypes, handle : Handles \cup {None}]
        BY DEF Event, EventTypes
      <4> QED
        BY <1>1, <3>2, <4>1, AppendProperties DEF Es
    <3> QED
      BY <2>1, <3>1, <3>2
  <2> QED
    BY <1>1, <2>2 DEF Accounts, Announced, Event, Known
<1>5. UnknownHasNone'
  BY <1>1 DEF Accounts, UnknownHasNone, Known
<1>6. CASE TakesAcl
  <2> DEFINE p == transport[1]
  <2>1. p.type = "acl" /\ given' = given /\ p.handle \in Handles
    BY <1>1, <1>6 DEF TakesAcl, TransportTyped, AclPackets
  <2>2. /\ \A h \in Handles :
             held'[h] = held[h] + (IF h \in link THEN SentNow(h) ELSE 0)
        /\ held' \in [Handles -> Nat]
    <3>1. /\ held \in [Handles -> Nat]
          /\ \A h : SentNow(h) = IF p.handle = h THEN 1 ELSE 0
      BY <1>1, <1>2, <2>1 DEF Sent, Accounts, CountersTyped
    <3>2. CASE p.handle \in link
      <4>1. held' = [held EXCEPT ![p.handle] = @ + 1]
        BY <1>6, <3>2 DEF TakesAcl
      <4> HIDE DEF p
      <4>2. held' \in [Handles -> Nat]
        BY <2>1, <3>1, <4>1
      <4>3. ASSUME NEW h \in Handles
            PROVE  held'[h] = held[h] + (IF h \in link THEN SentNow(h) ELSE 0)
        <5>1. CASE h = p.handle
          BY <2>1, <3>1, <3>2, <4>1, <5>1
        <5>2. CASE h # p.handle
          BY <2>1, <3>1, <4>1, <5>2
        <5> QED
          BY <5>1, <5>2
      <4> QED
        BY <4>2, <4>3
    <3>3. CASE p.handle \notin link
      <4>1. held' = held
        BY <1>6, <3>3 DEF TakesAcl
      <4> HIDE DEF p
      <4> QED
        BY <3>1, <3>3, <4>1
    <3> QED
      BY <3>2, <3>3
  <2>3. \A h : ReportedNow(h) = 0
    BY <2>1 DEF ReportedNow
  <2>4. CountersTyped' /\ UnlinkedHasNone'
    BY <1>1, <2>1, <2>2, ConstantsAssumption
    DEF Accounts, CountersTyped, UnlinkedHasNone
  <2>5. SentCounted'
    <3>1. SUFFICES ASSUME NEW h \in link
                   PROVE  num_packets_sent[h] = held'[h] + Pending("completed", h)
      BY <1>1, <1>2, <1>3, <2>2 DEF SentCounted
    <3>2. num_packets_sent[h] = held[h] + SentNow(h) + Pending("completed", h)
      BY DEF Accounts, SentCounted
    <3> QED
      BY <1>1, <2>2, <3>2
  <2>6. ReceivedCounted'
    BY <1>1, <1>2, <1>3, <2>1, <2>3 DEF Accounts, ReceivedCounted
  <2> QED
    BY <1>4, <1>5, <2>4, <2>5, <2>6 DEF Accounts
<1>7. CASE TakesCommand
  <2>1. UNCHANGED <<held, given>> /\ \A h : ReportedNow(h) = 0 /\ ~ Sent(h)
    BY <1>7 DEF TakesCommand, ReportedNow, Sent
  <2>2. CountersTyped' /\ UnlinkedHasNone'
    BY <1>1, <2>1 DEF Accounts, CountersTyped, UnlinkedHasNone
  <2>3. SentCounted' /\ ReceivedCounted'
    BY <1>1, <1>2, <1>3, <2>1 DEF Accounts, SentCounted, ReceivedCounted
  <2> QED
    BY <1>4, <1>5, <2>2, <2>3 DEF Accounts
<1>8. CASE TakesHostCompleted
  <2>1. /\ held' = held /\ transport[1].type = "host_completed"
        /\ given' = [h \in Handles |-> IF h \in link
                        THEN given[h] - transport[1].number[h] ELSE 0]
    BY <1>8 DEF TakesHostCompleted
  <2>2. \A h : ReportedNow(h) = transport[1].number[h] /\ ~ Sent(h)
    BY <1>1, <2>1 DEF ReportedNow, Sent
  <2>3. \A h \in link : /\ given'[h] = Pending("acl", h) + num_packets_completed[h]
                        /\ given'[h] \in Nat
    <3>1. TAKE h \in link
    <3>2. /\ given'[h] = given[h] - transport[1].number[h]
          /\ transport[1].number[h] \in Nat /\ num_packets_completed[h] \in Nat
      BY <1>1, <2>1 DEF Accounts, CountersTyped
    <3>3. given[h] = Pending("acl", h) + num_packets_completed[h] + transport[1].number[h]
      BY <2>2 DEF Accounts, ReceivedCounted
    <3> QED
      BY <1>3, <3>2, <3>3
  <2>4. \A h \in Handles : h \notin link => given'[h] = 0
    BY <2>1
  <2>5. CountersTyped' /\ UnlinkedHasNone'
    <3>1. given' \in [Handles -> Nat]
      BY <2>1, <2>3, <2>4
    <3> QED
      BY <1>1, <2>1, <2>4, <3>1 DEF Accounts, CountersTyped, UnlinkedHasNone
  <2>6. SentCounted'
    BY <1>1, <1>2, <1>3, <2>1, <2>2 DEF Accounts, SentCounted
  <2>7. ReceivedCounted'
    <3>1. SUFFICES ASSUME NEW h \in link
                   PROVE  given'[h] = Pending("acl", h) + num_packets_completed[h] + 0
      BY <1>1, <1>2, <1>3 DEF ReceivedCounted
    <3> QED
      BY <1>1, <1>3, <2>3 DEF Accounts, CountersTyped
  <2> QED
    BY <1>4, <1>5, <2>5, <2>6, <2>7 DEF Accounts
<1> QED
  BY <1>6, <1>7, <1>8

(* An event the host handles.  Of a link that is up, it is "connected", or *)
(* the host knows the link already.                                        *)
LEMMA HeadAnnounced ==
  ASSUME Accounts, Whole, events # <<>>, Head(events).handle \in link
  PROVE  Known(Head(events).handle) \/ Head(events).type = "connected"
<1> DEFINE h == Head(events).handle
<1>1. events \in Es /\ 1 \in DOMAIN events /\ Head(events) = events[1]
      /\ \A i \in DOMAIN events : i \in Nat /\ i >= 1
  BY DEF Whole, Typed, Es
<1>2. SUFFICES ASSUME ~ Known(h) PROVE Head(events).type = "connected"
  OBVIOUS
<1>3. PICK i \in DOMAIN events :
        events[i] = Event("connected", h) /\ \A j \in DOMAIN events : j < i => events[j].handle # h
  BY <1>2 DEF Accounts, Announced
<1>4. i = 1
  BY <1>1, <1>3
<1> QED
  BY <1>1, <1>3, <1>4 DEF Event

LEMMA HandledKeepsAnnounced ==
  ASSUME Accounts, Whole, events # <<>>, events' = Tail(events), link' = link,
         \A h \in Handles : h \in link => (Known(h) => Known(h)'),
         \A h \in Handles : h \in link /\ Head(events) = Event("connected", h) => Known(h)'
  PROVE  Announced'
<1>1. /\ events \in Es /\ DOMAIN events = 1 .. Len(events) /\ Len(events) \in Nat
      /\ DOMAIN events' = 1 .. Len(events) - 1 /\ Head(events) = events[1]
      /\ \A i \in 1 .. Len(events) - 1 : events'[i] = events[i + 1]
      /\ link \subseteq Handles
  BY DEF Whole, Typed, Es
<1>2. SUFFICES ASSUME NEW h \in link, ~ Known(h)'
               PROVE  \E i \in DOMAIN events' :
                         /\ events'[i] = Event("connected", h)
                         /\ \A j \in DOMAIN events' : j < i => events'[j].handle # h
  BY DEF Announced, Event
<1>3. PICK i \in DOMAIN events :
        events[i] = Event("connected", h) /\ \A j \in DOMAIN events : j < i => events[j].handle # h
  BY <1>1, <1>2 DEF Accounts, Announced
<1>4. i # 1
  BY <1>1, <1>2, <1>3
<1>5. i - 1 \in DOMAIN events' /\ events'[i - 1] = Event("connected", h)
  BY <1>1, <1>3, <1>4
<1>6. \A j \in DOMAIN events' : j < i - 1 => events'[j].handle # h
  BY <1>1, <1>3
<1> QED
  BY <1>5, <1>6

LEMMA HandlingKeepsAccounts ==
  ASSUME Accounts, Whole,
         \/ NumberOfCompletedPackets \/ CommandComplete \/ AclReceived
         \/ DisconnectionComplete \/ ConnectionComplete
  PROVE  Accounts'
<1> DEFINE e == Head(events)
<1>1. /\ events # <<>> /\ events' = Tail(events)
      /\ UNCHANGED <<transport, link, held, given>>
      /\ events \in Es /\ link \subseteq Handles
      /\ e \in [type : EventTypes, handle : Handles \cup {None}]
      /\ e.type = "disconnected" => e.handle \notin link
  BY HandledEvent
  DEF NumberOfCompletedPackets, CommandComplete, AclReceived,
      DisconnectionComplete, ConnectionComplete, Receives, world, remote,
      Whole, Typed, Es
<1>2. \A h : SentNow(h)' = SentNow(h) /\ ReportedNow(h)' = ReportedNow(h)
  BY <1>1 DEF SentNow, ReportedNow, Quantify
<1>3. \A h : /\ SentNow(h) \in Nat
             /\ h \in Handles => ReportedNow(h) \in Nat
  <2>1. TransportTyped
    BY DEF Whole, Typed
  <2>2. \A h : SentNow(h) \in Nat
    BY <2>1, NowSent
  <2>3. \A h \in Handles : ReportedNow(h) \in Nat
    BY DEF ReportedNow, Accounts, CountersTyped
  <2> QED
    BY <2>2, <2>3
<1>4. \A t, h : /\ Pending(t, h) = Pending(t, h)' + (IF e = Event(t, h) THEN 1 ELSE 0)
                /\ Pending(t, h) \in Nat
  BY <1>1, PendingOfHandled, PendingTyped
<1>5. \A t, h : Pending(t, h)' \in Nat
  <2>1. events' \in Es
    BY <1>1, HandledEvent DEF Es
  <2>2. \A t, h : Cardinality(Places(events', Event(t, h))) \in Nat
    BY <2>1, PlacesFinite DEF Es
  <2> QED
    BY <2>2 DEF Pending, Quantify, Places, Event
<1>6. \A t, h : e = Event(t, h) <=> e.type = t /\ e.handle = h
  BY <1>1 DEF Event
<1> HIDE DEF e
<1>7. UnlinkedHasNone'
  BY <1>1 DEF Accounts, UnlinkedHasNone
<1>8. CASE NumberOfCompletedPackets
  <2>1. /\ e.type = "completed" /\ UNCHANGED <<conn, num_packets_completed>>
        /\ num_packets_sent' = IF Known(e.handle) /\ num_packets_sent[e.handle] > 0
                               THEN [num_packets_sent EXCEPT ![e.handle] = @ - 1]
                               ELSE num_packets_sent
    BY <1>8 DEF NumberOfCompletedPackets, Receives, flow, e
  <2>2. /\ num_packets_sent \in [Handles -> Nat]
        /\ num_packets_completed \in [Handles -> Nat] /\ held \in [Handles -> Nat]
    BY DEF Accounts, CountersTyped
  <2>3. /\ num_packets_sent' \in [Handles -> Nat]
        /\ \A h \in Handles :
             num_packets_sent'[h] =
               IF h = e.handle /\ Known(h) /\ num_packets_sent[h] > 0
               THEN num_packets_sent[h] - 1 ELSE num_packets_sent[h]
    <3>1. CASE e.handle \in Handles
      BY <2>1, <2>2, <3>1
    <3>2. CASE e.handle \notin Handles
      BY <2>1, <2>2, <3>2
    <3> QED
      BY <3>1, <3>2
  <2>4. CountersTyped'
    BY <1>1, <2>1, <2>3 DEF Accounts, CountersTyped
  <2>5. UnknownHasNone'
    BY <2>1, <2>2, <2>3 DEF Accounts, UnknownHasNone, Known
  <2>6. Announced'
    BY <1>1, <1>6, <2>1, HandledKeepsAnnounced DEF Known, e
  <2>7. SentCounted'
    <3>1. SUFFICES ASSUME NEW h \in link
                   PROVE  num_packets_sent'[h] = held[h] + SentNow(h) + Pending("completed", h)'
      BY <1>1, <1>2 DEF SentCounted
    <3>2. /\ num_packets_sent[h] = held[h] + SentNow(h) + Pending("completed", h)
          /\ h \in Handles
      BY <1>1 DEF Accounts, SentCounted
    <3>3. CASE h = e.handle
      <4>1. Pending("completed", h) = Pending("completed", h)' + 1
        BY <1>4, <1>6, <2>1, <3>3
      <4>2. num_packets_sent[h] > 0
        BY <1>3, <1>5, <2>2, <3>2, <4>1
      <4>3. Known(h)
        BY <3>2, <4>2 DEF Accounts, UnknownHasNone
      <4> QED
        BY <1>3, <1>5, <2>2, <2>3, <3>2, <3>3, <4>1, <4>2, <4>3
    <3>4. CASE h # e.handle
      BY <1>3, <1>4, <1>5, <1>6, <2>3, <3>2, <3>4
    <3> QED
      BY <3>3, <3>4
  <2>8. ReceivedCounted'
    <3>1. \A h : Pending("acl", h) = Pending("acl", h)'
      BY <1>4, <1>5, <1>6, <2>1
    <3> QED
      BY <1>1, <1>2, <2>1, <3>1 DEF Accounts, ReceivedCounted
  <2> QED
    BY <1>7, <2>4, <2>5, <2>6, <2>7, <2>8 DEF Accounts
<1>9. CASE CommandComplete \/ ConnectionComplete
  <2>1. /\ e.type \in {"command", "command_busy", "command_credit", "connected"}
        /\ UNCHANGED <<num_packets_sent, num_packets_completed>>
        /\ \/ e.type # "connected" /\ conn' = conn
           \/ conn' = [conn EXCEPT ![e.handle] = "open"]
    BY <1>9 DEF CommandComplete, ConnectionComplete, Receives, flow, e
  <2>2. \A h \in Handles : Known(h) => Known(h)'
    BY <2>1 DEF Known, Whole, Typed
  <2>3. \A h \in Handles : e.type = "connected" /\ e.handle = h => Known(h)'
    BY <2>1 DEF Known, Whole, Typed
  <2>4. CountersTyped' /\ UnknownHasNone'
    BY <1>1, <2>1, <2>2 DEF Accounts, CountersTyped, UnknownHasNone
  <2>5. Announced'
    BY <1>1, <1>6, <2>2, <2>3, HandledKeepsAnnounced DEF e
  <2>6. \A h : /\ Pending("acl", h) = Pending("acl", h)'
               /\ Pending("completed", h) = Pending("completed", h)'
    BY <1>4, <1>5, <1>6, <2>1
  <2>7. SentCounted' /\ ReceivedCounted'
    BY <1>1, <1>2, <2>1, <2>6 DEF Accounts, SentCounted, ReceivedCounted
  <2> QED
    BY <1>7, <2>4, <2>5, <2>7 DEF Accounts
<1>10. CASE AclReceived
  <2>1. /\ e.type = "acl" /\ UNCHANGED <<conn, num_packets_sent>>
        /\ num_packets_completed' =
             IF Known(e.handle) THEN [num_packets_completed EXCEPT ![e.handle] = @ + 1]
                                ELSE num_packets_completed
    BY <1>10 DEF AclReceived, Receives, flow, e
  <2>2. num_packets_completed \in [Handles -> Nat]
    BY DEF Accounts, CountersTyped
  <2>3. /\ num_packets_completed' \in [Handles -> Nat]
        /\ \A h \in Handles :
             num_packets_completed'[h] =
               IF h = e.handle /\ Known(h) THEN num_packets_completed[h] + 1
                                           ELSE num_packets_completed[h]
    <3>1. CASE e.handle \in Handles
      BY <2>1, <2>2, <3>1
    <3>2. CASE e.handle \notin Handles
      BY <2>1, <2>2, <3>2
    <3> QED
      BY <3>1, <3>2
  <2>4. CountersTyped'
    BY <1>1, <2>1, <2>3 DEF Accounts, CountersTyped
  <2>5. UnknownHasNone'
    BY <2>1, <2>2, <2>3 DEF Accounts, UnknownHasNone, Known
  <2>6. Announced'
    BY <1>1, <1>6, <2>1, HandledKeepsAnnounced DEF Known, e
  <2>7. SentCounted'
    <3>1. \A h : Pending("completed", h) = Pending("completed", h)'
      BY <1>4, <1>5, <1>6, <2>1
    <3> QED
      BY <1>1, <1>2, <2>1, <3>1 DEF Accounts, SentCounted
  <2>8. ReceivedCounted'
    <3>1. SUFFICES ASSUME NEW h \in link
                   PROVE  given[h] = Pending("acl", h)' + num_packets_completed'[h]
                                       + ReportedNow(h)
      BY <1>1, <1>2 DEF ReceivedCounted
    <3>2. /\ given[h] = Pending("acl", h) + num_packets_completed[h] + ReportedNow(h)
          /\ h \in Handles /\ num_packets_completed[h] \in Nat
      BY <1>1, <2>2 DEF Accounts, ReceivedCounted
    <3>3. CASE h = e.handle
      <4>1. Pending("acl", h) = Pending("acl", h)' + 1
        BY <1>4, <1>6, <2>1, <3>3
      <4>2. Known(h)
        BY <1>1, <2>1, <3>3, HeadAnnounced DEF e
      <4> QED
        BY <1>3, <1>5, <2>3, <3>2, <3>3, <4>1, <4>2
    <3>4. CASE h # e.handle
      BY <1>3, <1>4, <1>5, <1>6, <2>3, <3>2, <3>4
    <3> QED
      BY <3>3, <3>4
  <2> QED
    BY <1>7, <2>4, <2>5, <2>6, <2>7, <2>8 DEF Accounts
<1>11. CASE DisconnectionComplete
  <2>1. /\ e.type = "disconnected" /\ e.handle \notin link
        /\ \/ UNCHANGED <<conn, num_packets_sent, num_packets_completed>>
           \/ /\ conn' = [conn EXCEPT ![e.handle] = "none"]
              /\ num_packets_sent' = [num_packets_sent EXCEPT ![e.handle] = 0]
              /\ num_packets_completed' = [num_packets_completed EXCEPT ![e.handle] = 0]
    BY <1>1, <1>11
    DEF DisconnectionComplete, Receives, ShutdownConnection, flow, e
  <2>2. /\ num_packets_sent \in [Handles -> Nat]
        /\ num_packets_completed \in [Handles -> Nat]
        /\ conn \in [Handles -> ConnectionStates]
    BY DEF Accounts, CountersTyped, Whole, Typed
  <2>3. /\ num_packets_sent' \in [Handles -> Nat]
        /\ num_packets_completed' \in [Handles -> Nat]
        /\ \A h \in link : /\ num_packets_sent'[h] = num_packets_sent[h]
                           /\ num_packets_completed'[h] = num_packets_completed[h]
                           /\ Known(h)' <=> Known(h)
    BY <1>1, <2>1, <2>2 DEF Known
  <2>4. CountersTyped'
    BY <1>1, <2>3 DEF Accounts, CountersTyped
  <2>5. UnknownHasNone'
    BY <2>1, <2>2 DEF Accounts, UnknownHasNone, Known
  <2>6. Announced'
    BY <1>1, <1>6, <2>1, <2>3, HandledKeepsAnnounced DEF e
  <2>7. \A h : /\ Pending("acl", h) = Pending("acl", h)'
               /\ Pending("completed", h) = Pending("completed", h)'
    BY <1>4, <1>5, <1>6, <2>1
  <2>8. SentCounted' /\ ReceivedCounted'
    BY <1>1, <1>2, <2>3, <2>7 DEF Accounts, SentCounted, ReceivedCounted
  <2> QED
    BY <1>7, <2>4, <2>5, <2>6, <2>8 DEF Accounts
<1> QED
  BY <1>8, <1>9, <1>10, <1>11

(* An event the controller sends.                                          *)
LEMMA EventSentKeepsAccounts ==
  ASSUME Accounts, Whole, NEW h,
         \/ Fails \/ GivesCredit
         \/ h \in Handles /\ (CompletesPacket(h) \/ SendsAcl(h) \/ Disconnects(h))
  PROVE  Accounts'
<1>1. PICK type \in EventTypes, g \in Handles \cup {None} :
        /\ events' = Append(events, Event(type, g))
        /\ \/ type = "completed" /\ CompletesPacket(h) /\ g = h
           \/ type = "acl" /\ SendsAcl(h) /\ g = h
           \/ type \notin {"completed", "acl"} /\ (Fails \/ GivesCredit \/ Disconnects(h))
  BY DEF Fails, GivesCredit, CompletesPacket, SendsAcl, Disconnects, Sends, EventTypes
<1>2. /\ UNCHANGED <<conn, num_packets_sent, num_packets_completed, transport>>
      /\ link' \subseteq link /\ link \subseteq Handles /\ events \in Es
  BY DEF Fails, GivesCredit, CompletesPacket, SendsAcl, Disconnects, Sends, Host,
         flow, remote,
         Whole, Typed, Es
<1>3. \A t, k : /\ Pending(t, k)' =
                     Pending(t, k) + (IF type = t /\ g = k THEN 1 ELSE 0)
                /\ Pending(t, k) \in Nat
  <2>1. \A t, k : Event(type, g) = Event(t, k) <=> type = t /\ g = k
    BY DEF Event
  <2> QED
    BY <1>1, <1>2, <2>1, PendingOfSent, PendingTyped
<1>4. \A k : SentNow(k)' = SentNow(k) /\ ReportedNow(k)' = ReportedNow(k)
  BY <1>2 DEF SentNow, ReportedNow, Quantify
<1>5. \A k \in Handles : SentNow(k) \in Nat /\ ReportedNow(k) \in Nat
  <2>1. TransportTyped
    BY DEF Whole, Typed
  <2>2. \A k : SentNow(k) \in Nat
    BY <2>1, NowSent
  <2>3. \A k \in Handles : ReportedNow(k) \in Nat
    BY DEF ReportedNow, Accounts, CountersTyped
  <2> QED
    BY <2>2, <2>3
<1>6. /\ held \in [Handles -> Nat] /\ given \in [Handles -> Nat]
      /\ num_packets_completed \in [Handles -> Nat]
      /\ num_packets_sent \in [Handles -> Nat]
  BY DEF Accounts, CountersTyped
<1>7. UnknownHasNone'
  BY <1>2 DEF Accounts, UnknownHasNone, Known
<1>8. Announced'
  <2>1. Event(type, g) \in [type : EventTypes, handle : Handles \cup {None}]
    BY DEF Event
  <2>2. \A i \in DOMAIN events : i \in DOMAIN events' /\ events'[i] = events[i]
        /\ \A j \in DOMAIN events' : j < i => j \in DOMAIN events
    BY <1>1, <1>2, <2>1, AppendProperties DEF Es
  <2> QED
    BY <1>2, <2>2 DEF Accounts, Announced, Event, Known
<1>9. CASE Fails \/ GivesCredit \/ Disconnects(h)
  <2>1. /\ \A k \in link' : held'[k] = held[k] /\ given'[k] = given[k]
        /\ \A k \in Handles : k \notin link' => held'[k] = 0 /\ given'[k] = 0
        /\ held' \in [Handles -> Nat] /\ given' \in [Handles -> Nat]
    BY <1>2, <1>6, <1>9
    DEF Fails, GivesCredit, Disconnects, remote, Accounts, UnlinkedHasNone
  <2>2. CountersTyped' /\ UnlinkedHasNone'
    BY <1>2, <2>1 DEF Accounts, CountersTyped, UnlinkedHasNone
  <2>3. type \notin {"completed", "acl"}
    BY <1>1, <1>9 DEF Fails, GivesCredit, Disconnects, CompletesPacket, SendsAcl,
                       Sends, Event
  <2>4. SentCounted' /\ ReceivedCounted'
    BY <1>2, <1>3, <1>4, <2>1, <2>3 DEF Accounts, SentCounted, ReceivedCounted
  <2> QED
    BY <1>7, <1>8, <2>2, <2>4 DEF Accounts
<1>10. CASE h \in Handles /\ CompletesPacket(h)
  <2>1. /\ held' = [held EXCEPT ![h] = @ - 1] /\ held[h] > 0
        /\ UNCHANGED <<link, given>>
    BY <1>10 DEF CompletesPacket
  <2>2. h \in link
    BY <1>6, <1>10, <2>1 DEF Accounts, UnlinkedHasNone
  <2>3. held' \in [Handles -> Nat]
    BY <1>6, <1>10, <2>1
  <2>4. CountersTyped' /\ UnlinkedHasNone'
    BY <1>2, <2>1, <2>2, <2>3 DEF Accounts, CountersTyped, UnlinkedHasNone
  <2>5. type = "completed" /\ g = h
    BY <1>1, <1>10 DEF Fails, GivesCredit, Disconnects, CompletesPacket, SendsAcl,
                       Sends, Event
  <2>6. SentCounted'
    <3>1. SUFFICES ASSUME NEW k \in link
                   PROVE  num_packets_sent[k] = held'[k] + SentNow(k) + Pending("completed", k)'
      BY <1>2, <1>4, <2>1 DEF SentCounted
    <3>2. num_packets_sent[k] = held[k] + SentNow(k) + Pending("completed", k)
          /\ k \in Handles
      BY <1>2 DEF Accounts, SentCounted
    <3> QED
      BY <1>3, <1>5, <1>6, <2>1, <2>5, <3>2
  <2>7. ReceivedCounted'
    BY <1>2, <1>3, <1>4, <2>1, <2>5 DEF Accounts, ReceivedCounted
  <2> QED
    BY <1>7, <1>8, <2>4, <2>6, <2>7 DEF Accounts
<1>11. CASE h \in Handles /\ SendsAcl(h)
  <2>1. /\ given' = [given EXCEPT ![h] = @ + 1] /\ h \in link
        /\ UNCHANGED <<link, held>>
    BY <1>11 DEF SendsAcl
  <2>2. given' \in [Handles -> Nat]
    BY <1>6, <1>11, <2>1
  <2>3. CountersTyped' /\ UnlinkedHasNone'
    BY <1>2, <2>1, <2>2 DEF Accounts, CountersTyped, UnlinkedHasNone
  <2>4. type = "acl" /\ g = h
    BY <1>1, <1>11 DEF Fails, GivesCredit, Disconnects, CompletesPacket, SendsAcl,
                       Sends, Event
  <2>5. ReceivedCounted'
    <3>1. SUFFICES ASSUME NEW k \in link
                   PROVE  given'[k] = Pending("acl", k)' + num_packets_completed[k]
                                        + ReportedNow(k)
      BY <1>2, <1>4, <2>1 DEF ReceivedCounted
    <3>2. given[k] = Pending("acl", k) + num_packets_completed[k] + ReportedNow(k)
          /\ k \in Handles
      BY <1>2 DEF Accounts, ReceivedCounted
    <3> QED
      BY <1>3, <1>5, <1>6, <2>1, <2>4, <3>2
  <2>6. SentCounted'
    BY <1>2, <1>3, <1>4, <2>1, <2>4 DEF Accounts, SentCounted
  <2> QED
    BY <1>7, <1>8, <2>3, <2>5, <2>6 DEF Accounts
<1> QED
  BY <1>9, <1>10, <1>11

(* A handle used again starts with no credits taken, on either side.       *)
LEMMA ConnectsKeepsAccounts ==
  ASSUME Accounts, Whole, NEW h \in Handles, Connects(h)
  PROVE  Accounts'
<1>1. /\ UNCHANGED <<conn, num_packets_sent, num_packets_completed, transport, held, given>>
      /\ events' = Append(events, Event("connected", h)) /\ link' = link \cup {h}
      /\ h \notin link /\ ~ Known(h) /\ ~ Mentions(h) /\ transport = <<>>
      /\ link \subseteq Handles /\ events \in Es /\ "connected" \in EventTypes
  BY DEF Connects, Sends, Host, flow, Whole, Typed, Es, EventTypes
<1>2. \A k : /\ Pending("completed", k)' = Pending("completed", k)
             /\ Pending("acl", k)' = Pending("acl", k)
             /\ Pending("completed", k) \in Nat /\ Pending("acl", k) \in Nat
  <2>1. \A k : Event("connected", h) # Event("completed", k)
               /\ Event("connected", h) # Event("acl", k)
    BY DEF Event
  <2> QED
    BY <1>1, <2>1, PendingOfSent, PendingTyped
<1>3. \A k : SentNow(k)' = 0 /\ SentNow(k) = 0 /\ ReportedNow(k)' = 0 /\ ReportedNow(k) = 0
  <2>1. TransportTyped /\ TransportTyped'
    BY <1>1 DEF Whole, Typed, TransportTyped
  <2> QED
    BY <1>1, <2>1, NowSent, NextSent DEF Sent, ReportedNow
<1>4. Pending("completed", h) = 0 /\ Pending("acl", h) = 0
  BY <1>1, NonePending
<1>5. CountersTyped' /\ UnknownHasNone' /\ UnlinkedHasNone'
  BY <1>1 DEF Accounts, CountersTyped, UnknownHasNone, UnlinkedHasNone, Known
<1>6. Announced'
  <2>1. Event("connected", h) \in [type : EventTypes, handle : Handles \cup {None}]
    BY <1>1 DEF Event
  <2>2. /\ DOMAIN events = 1 .. Len(events) /\ DOMAIN events' = 1 .. Len(events) + 1
        /\ \A i \in 1 .. Len(events) : events'[i] = events[i]
        /\ events'[Len(events) + 1] = Event("connected", h) /\ Len(events) \in Nat
    BY <1>1, <2>1, AppendProperties DEF Es
  <2>3. \A j \in DOMAIN events : events[j].handle # h
    BY <1>1 DEF Mentions, Range
  <2>4. SUFFICES ASSUME NEW k \in link', ~ Known(k)'
                 PROVE  \E i \in DOMAIN events' :
                           /\ events'[i] = Event("connected", k)
                           /\ \A j \in DOMAIN events' : j < i => events'[j].handle # k
    BY DEF Announced, Event
  <2>5. CASE k = h
    <3>1. \A j \in DOMAIN events' : j < Len(events) + 1 => events'[j].handle # k
      BY <2>2, <2>3, <2>5
    <3>2. Len(events) + 1 \in DOMAIN events'
      BY <2>2
    <3> QED
      BY <2>2, <2>5, <3>1, <3>2
  <2>6. CASE k # h
    <3>1. PICK i \in DOMAIN events :
            /\ events[i] = Event("connected", k)
            /\ \A j \in DOMAIN events : j < i => events[j].handle # k
      BY <1>1, <2>4, <2>6 DEF Accounts, Announced, Known
    <3>2. i \in DOMAIN events' /\ events'[i] = Event("connected", k)
      BY <2>2, <3>1
    <3>3. \A j \in DOMAIN events' : j < i => events'[j].handle # k
      BY <2>2, <3>1
    <3> QED
      BY <3>2, <3>3
  <2> QED
    BY <2>5, <2>6
<1>7. SentCounted' /\ ReceivedCounted'
  <2>1. SUFFICES ASSUME NEW k \in link'
                 PROVE  /\ num_packets_sent[k] = held[k] + 0 + Pending("completed", k)
                        /\ given[k] = Pending("acl", k) + num_packets_completed[k] + 0
    BY <1>1, <1>2, <1>3 DEF SentCounted, ReceivedCounted
  <2>2. CASE k \in link
    BY <1>1, <1>3, <2>2 DEF Accounts, SentCounted, ReceivedCounted
  <2>3. CASE k = h
    BY <1>1, <1>4, <2>3 DEF Accounts, UnknownHasNone, UnlinkedHasNone
  <2> QED
    BY <1>1, <2>1, <2>2, <2>3
<1> QED
  BY <1>5, <1>6, <1>7 DEF Accounts

LEMMA ErrorKeepsAccounts == Accounts /\ HardwareError => Accounts'
<1> SUFFICES ASSUME Accounts, HardwareError PROVE Accounts'
  OBVIOUS
<1>1. /\ UNCHANGED <<conn, num_packets_sent, num_packets_completed>>
      /\ transport' = <<>> /\ link' = {} /\ held' = Zero /\ given' = Zero
  BY DEF HardwareError, ResetController, flow
<1>2. CountersTyped' /\ UnknownHasNone' /\ UnlinkedHasNone'
  BY <1>1 DEF Accounts, CountersTyped, UnknownHasNone, UnlinkedHasNone, Known, Zero
<1>3. Announced' /\ SentCounted' /\ ReceivedCounted'
  BY <1>1 DEF Announced, SentCounted, ReceivedCounted
<1> QED
  BY <1>2, <1>3 DEF Accounts

(* What the stack does in its turn: it sends one packet at most.           *)
LEMMA StackKeepsAccounts ==
  ASSUME Accounts, Whole, Whole', Stack
  PROVE  Accounts'
<1>1. UNCHANGED <<held, given, events, link>> /\ link \subseteq Handles
  BY DEF Stack, Sending, AskChannel, NotifyEnds, SendMore, SendNoMore, HciRun,
         RunInit, RunInitDone, RunFragments, RunHostCompleted, RunDisconnect,
         RunNothing, Running, world, remote, Whole, Typed
<1>2. ASSUME UNCHANGED <<conn, num_packets_sent, num_packets_completed, transport>>
      PROVE  Accounts'
  BY <1>1, <1>2, UncountedKeepsAccounts DEF Known
<1>3. ASSUME NEW h \in Handles, NEW c, NEW n, NEW of, NEW return,
             SendFragment(h, c, n, of, return), CanSendPrepared(h),
             UNCHANGED <<conn, num_packets_completed>>
      PROVE  Accounts'
  <2> DEFINE p == [type |-> "acl", handle |-> h, channel |-> c,
                   first |-> n = 0, last |-> n + 1 = of]
  <2>1. /\ transport = <<>> /\ transport' = <<p>> /\ Known(h)
        /\ p.type = "acl" /\ p.handle = h
        /\ num_packets_sent' = [num_packets_sent EXCEPT ![h] = @ + 1]
    BY <1>3 DEF SendFragment, CanSendPrepared
  <2> HIDE DEF p
  <2> QED
    BY <1>1, <1>3, <2>1, SendingKeepsAccounts DEF Known
<1>4. CASE Sending
  <2>1. CASE AskChannel
    <3>1. PICK i \in ReadyIndices :
            \/ \E n \in 1 .. MaxFragments :
                 SendFragment(HandleOf[l2cap_channels[i]], l2cap_channels[i], 0, n, after)
            \/ NothingSent
      BY <2>1 DEF AskChannel
    <3>2. /\ HandleOf[l2cap_channels[i]] \in Handles
          /\ CanSendPrepared(HandleOf[l2cap_channels[i]])
          /\ UNCHANGED <<conn, num_packets_completed>>
      BY <2>1, <3>1, ConstantsAssumption
      DEF AskChannel, ReadyIndices, Ready, CanSendAcl, flow, Whole, Typed
    <3> QED
      BY <1>2, <1>3, <3>1, <3>2 DEF NothingSent
  <2>2. CASE SendMore
    <3>1. buffer.handle \in Handles
      BY <2>2 DEF SendMore, Whole, LoopHasMore, BufferKept
    <3> QED
      BY <1>3, <2>2, <3>1 DEF SendMore, flow
  <2>3. CASE NotifyEnds \/ SendNoMore
    BY <1>2, <2>3 DEF NotifyEnds, SendNoMore, NothingSent, flow
  <2> QED
    BY <1>4, <2>1, <2>2, <2>3 DEF Sending
<1>5. CASE HciRun
  <2>1. CASE RunFragments
    <3>1. buffer.handle \in Handles
      BY <2>1 DEF RunFragments, FragmentsFirst, Whole, BufferKept
    <3> QED
      BY <1>3, <2>1, <3>1 DEF RunFragments, FragmentsFirst, flow
  <2>2. CASE RunInitDone \/ RunNothing
    BY <1>2, <2>2 DEF RunInitDone, RunNothing, NothingSent, flow
  <2>3. CASE RunInit
    <3> DEFINE p == [type |-> "init"]
    <3>1. /\ transport = <<>> /\ transport' = <<p>> /\ p.type = "init"
          /\ UNCHANGED <<conn, num_packets_sent, num_packets_completed>>
      BY <2>3 DEF RunInit, CanSendCommand, CanSendCommandTransport, SendCommand, flow
    <3> HIDE DEF p
    <3> QED
      BY <1>1, <3>1, SendingKeepsAccounts DEF Known
  <2>4. CASE RunHostCompleted
    <3> DEFINE p == [type |-> "host_completed", number |-> num_packets_completed]
    <3>1. /\ transport = <<>> /\ transport' = <<p>> /\ p.type = "host_completed"
          /\ p.number = num_packets_completed /\ num_packets_completed' = Zero
          /\ UNCHANGED <<conn, num_packets_sent>>
      BY <2>4 DEF RunHostCompleted, CanSendCommandTransport, SendCommand
    <3> HIDE DEF p
    <3> QED
      BY <1>1, <3>1, SendingKeepsAccounts DEF Known
  <2>5. ASSUME NEW h \in Handles, RunDisconnect(h) PROVE Accounts'
    <3> DEFINE p == [type |-> "disconnect", handle |-> h]
    <3>1. /\ transport = <<>> /\ transport' = <<p>> /\ p.type = "disconnect"
          /\ UNCHANGED <<num_packets_sent, num_packets_completed>>
          /\ conn' = [conn EXCEPT ![h] = "sent_disconnect"] /\ conn[h] = "send_disconnect"
      BY <2>5 DEF RunDisconnect, CanSendCommand, CanSendCommandTransport,
                  SendCommand, flow
    <3>2. \A g \in Handles : Known(g)' <=> Known(g)
      BY <3>1 DEF Known, Whole, Typed
    <3> HIDE DEF p
    <3> QED
      BY <1>1, <3>1, <3>2, SendingKeepsAccounts
  <2> QED
    BY <1>5, <2>1, <2>2, <2>3, <2>4, <2>5 DEF HciRun
<1> QED
  BY <1>4, <1>5 DEF Stack

LEMMA AccountsInductive ==
  ASSUME Accounts, Whole, Whole', [Next]_vars
  PROVE  Accounts'
<1>0. link \subseteq Handles
  BY DEF Whole, Typed
<1>1. CASE UNCHANGED vars
  BY <1>0, <1>1, UncountedKeepsAccounts DEF vars, flow, remote, Known
<1>2. CASE TransportPacketSent \/ Application
  <2>1. UNCHANGED <<conn, num_packets_sent, num_packets_completed, held, given,
                    transport, events, link>>
    BY <1>2 DEF TransportPacketSent, Application, OpenChannel, RequestCanSend,
                Called, flow, world, remote
  <2> QED
    BY <1>0, <2>1, UncountedKeepsAccounts DEF Known
<1>3. ASSUME NEW h \in Handles, GapDisconnect(h) PROVE Accounts'
  <2>1. /\ UNCHANGED <<num_packets_sent, num_packets_completed, held, given,
                       transport, events, link>>
        /\ conn[h] # "none" /\ conn' = [conn EXCEPT ![h] = "send_disconnect"]
    BY <1>3 DEF GapDisconnect, Called, flow, remote
  <2>2. \A g \in Handles : Known(g)' <=> Known(g)
    BY <2>1 DEF Known, Whole, Typed
  <2> QED
    BY <1>0, <2>1, <2>2, UncountedKeepsAccounts
<1>4. CASE PacketReceived
  BY <1>4, HandlingKeepsAccounts, ErrorKeepsAccounts DEF PacketReceived
<1>5. CASE Controller
  BY <1>5, TakingKeepsAccounts, EventSentKeepsAccounts, ConnectsKeepsAccounts
  DEF Controller
<1>6. CASE Incidents
  <2>1. CASE Fails
    BY <2>1, EventSentKeepsAccounts
  <2> QED
    BY <1>3, <1>6, <2>1, EventSentKeepsAccounts DEF Incidents
<1> QED
  BY <1>1, <1>2, <1>4, <1>5, <1>6, StackKeepsAccounts DEF Next

(* The credits of both directions balance                                  *)
(* (hci_send_acl_packet_fragments, the handlers of                         *)
(* HCI_EVENT_NUMBER_OF_COMPLETED_PACKETS and of the end of a connection,   *)
(* acl_handler and hci_host_num_completed_packets in hci.c).               *)
THEOREM CreditsBalance == Spec => []CreditsAccounted
<1>1. Accounts => CreditsAccounted
  BY DEF Accounts, SentCounted, ReceivedCounted, CreditsAccounted, Alive
<1>2. Accounts /\ Whole /\ [Next]_vars => Accounts' /\ Whole'
  BY AccountsInductive, WholeInductive
<1>3. Init => Accounts /\ Whole
  BY AccountsInitially, WholeInitially
<1> QED
  BY <1>1, <1>2, <1>3, PTL DEF Spec

=============================================================================
