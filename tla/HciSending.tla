----------------------------- MODULE HciSending -----------------------------
(***************************************************************************)
(* How packets leave BTstack: the one outgoing buffer of the HCI layer     *)
(* (lib/BTstack/src/hci.c), the fragments of an ACL packet, the            *)
(* controller's ACL buffers, host flow control, and the L2CAP channels     *)
(* that wait to be asked (l2cap.c), from power on.  The firmware never     *)
(* powers off; what a hardware error does is modelled.                     *)
(*                                                                         *)
(* All of it runs on the run loop task, while the controller takes packets *)
(* from the transport.  A handler is an action that leaves in `pc` what    *)
(* the rest of it calls: "notify" is l2cap_notify_channel_can_send, "more" *)
(* the loop of hci_send_acl_packet_fragments, "run" is hci_run; `after` is *)
(* where the first two return to.                                          *)
(* Lengths are counted in fragments, and signalling packets, which L2CAP   *)
(* sends by the same rules, are packets of a channel like others.          *)
(***************************************************************************)
EXTENDS Integers, SequencesExt, FiniteSetsExt

CONSTANTS
  Handles,              \* of connections
  Channels, HandleOf,   \* L2CAP channels and the connection of each
  acl_packets_total_num,    \* ACL buffers of the controller
  HCI_HOST_ACL_PACKET_NUM,  \* ACL packets it may have with the host
  MaxFragments,         \* bound: fragments of a packet
  MaxIncidents,         \* bound: how often a link is lost, the controller fails
                        \* or the application disconnects
  InitCommands,         \* commands from power on to HCI_STATE_WORKING
  None

ASSUME ConstantsAssumption ==
  /\ IsFiniteSet(Handles) /\ HandleOf \in [Channels -> Handles]
  /\ acl_packets_total_num \in Nat \ {0}
  /\ HCI_HOST_ACL_PACKET_NUM \in Nat
  /\ MaxFragments \in Nat \ {0} /\ InitCommands \in Nat \ {0}
  /\ MaxIncidents \in Nat
  /\ None \notin Handles \cup Channels

VARIABLES
  state,                \* hci_stack->state
  init_left,            \* initialising: commands not completed yet
  conn,                 \* state of each connection, "none" if it is not known
  num_packets_sent, num_packets_completed,   \* of each connection
  host_completed_packets,
  num_cmd_packets,
  reserved,             \* hci_packet_buffer_reserved
  buffer,               \* whose packet it has, while there is more to send
  pos, total,           \* acl_fragmentation_pos and _total_size
  tx_active,            \* acl_fragmentation_tx_active
  l2cap_channels, waiting,  \* open channels in order, and who wants to send
  pc, after,
  transport,            \* <<>>, or the packet the controller has not taken
  signal,               \* transport_signal_sent
  events,               \* in the ring buffer of the transport
  link,                 \* the controller's connections
  held, partial,        \* packets of each it has not sent, the last one's rest
  given,                \* packets of each the host has not completed
  incidents             \* so far

power    == <<state, init_left>>
flow     == <<num_packets_completed, host_completed_packets>>
out      == <<reserved, buffer, pos, total, tx_active>>
l2cap    == <<l2cap_channels, waiting>>
control  == <<pc, after>>
remote   == <<link, held, partial, given>>
world    == <<remote, incidents>>
NoHeader == [handle |-> None, channel |-> None]

vars == <<power, conn, num_packets_sent, flow, num_cmd_packets, out, l2cap,
          control, transport, signal, events, remote, incidents>>

Zero   == [h \in Handles |-> 0]
Sum(f) == FoldSet(LAMBDA h, n : f[h] + n, 0, Handles)
Known(h) == conn[h] # "none"        \* hci_connection_for_handle

(* hci_power_control(HCI_POWER_ON) has called hci_run.                     *)
Init ==
  /\ state = "initializing" /\ init_left = InitCommands
  /\ conn = [h \in Handles |-> "none"] /\ num_packets_sent = Zero
  /\ num_packets_completed = Zero /\ host_completed_packets = FALSE
  /\ num_cmd_packets = 1
  /\ reserved = FALSE /\ buffer = NoHeader
  /\ pos = 0 /\ total = 0 /\ tx_active = FALSE
  /\ l2cap_channels = <<>> /\ waiting = {}
  /\ pc = "run" /\ after = "idle"
  /\ transport = <<>> /\ signal = FALSE /\ events = <<>>
  /\ link = {} /\ held = Zero /\ given = Zero
  /\ partial = [h \in Handles |-> None] /\ incidents = 0

Incident == incidents < MaxIncidents /\ incidents' = incidents + 1

-----------------------------------------------------------------------------
(* May it be sent?  The transport is asked, then the controller's buffers. *)

FreeSlots == acl_packets_total_num - Sum(num_packets_sent)

CanSendPrepared(h) == transport = <<>> /\ Known(h) /\ FreeSlots > 0

CanSendAcl(h) == ~ reserved /\ CanSendPrepared(h)

CanSendCommandTransport == ~ reserved /\ transport = <<>>

CanSendCommand == CanSendCommandTransport /\ num_cmd_packets > 0

(* A variant: the packet is counted, not its fragments. *)
SendFragment_CountsPackets(h, c, n, of, return) ==
  /\ num_packets_sent' = [num_packets_sent EXCEPT ![h] = IF n = 0 THEN @ + 1 ELSE @]
  /\ transport' = <<[type |-> "acl", handle |-> h, channel |-> c,
                     first |-> n = 0, last |-> n + 1 = of]>>
  /\ tx_active' = TRUE
  /\ after' = return
  /\ IF n + 1 = of
     THEN pos' = 0 /\ total' = 0 /\ buffer' = NoHeader /\ pc' = return
     ELSE pos' = n + 1 /\ total' = of /\ pc' = "more"
          /\ buffer' = [handle |-> h, channel |-> c]

(* hci_send_acl_packet_fragments sends fragment n + 1 of `of`; it returns  *)
(* after the last and otherwise stays in its loop.                         *)
SendFragment(h, c, n, of, return) ==
  /\ num_packets_sent' = [num_packets_sent EXCEPT ![h] = @ + 1]
  /\ transport' = <<[type |-> "acl", handle |-> h, channel |-> c,
                     first |-> n = 0, last |-> n + 1 = of]>>
  /\ tx_active' = TRUE
  /\ after' = return
  /\ IF n + 1 = of
     THEN pos' = 0 /\ total' = 0 /\ buffer' = NoHeader /\ pc' = return
     ELSE pos' = n + 1 /\ total' = of /\ pc' = "more"
          /\ buffer' = [handle |-> h, channel |-> c]

(* A command is built in the buffer, which stays reserved.                 *)
SendCommand(packet) ==
  /\ reserved' = TRUE /\ buffer' = NoHeader
  /\ transport' = <<packet>>

(* What follows the part of a handler that an action is.                   *)
Then(call, return) == pc' = call /\ after' = return
Return == Then(after, "idle")

NothingSent == UNCHANGED <<num_packets_sent, out, transport>>

-----------------------------------------------------------------------------
(* l2cap_notify_channel_can_send and what it calls.                        *)

Ready(c) == c \in waiting /\ CanSendAcl(HandleOf[c])
ReadyIndices == { i \in DOMAIN l2cap_channels : Ready(l2cap_channels[i]) }

(* A variant: the channel keeps its place. *)
Requeue_KeepsPlace(i) == UNCHANGED l2cap_channels

(* The first channel that is ready goes to the end of the list ...         *)
Requeue(i) ==
  l2cap_channels' = Append(RemoveAt(l2cap_channels, i), l2cap_channels[i])

(* ... and is asked.  Its user sends a packet or has nothing to send any   *)
(* more.  (It may ask for another turn at once: it is then not before the  *)
(* buffer is released that the request has an effect, as RequestCanSend.)  *)
AskChannel ==
  /\ pc = "notify"
  /\ \E i \in ReadyIndices :
       /\ \A j \in ReadyIndices : i <= j
       /\ Requeue(i)
       /\ LET c == l2cap_channels[i]
          IN  /\ waiting' = waiting \ {c}
              /\ \/ /\ reserved' = TRUE
                    /\ \E n \in 1 .. MaxFragments :
                         SendFragment(HandleOf[c], c, 0, n, after)
                 \/ NothingSent /\ UNCHANGED control
  /\ UNCHANGED <<power, conn, flow, num_cmd_packets, signal, events, world>>

NotifyEnds ==
  /\ pc = "notify" /\ ReadyIndices = {} /\ Return /\ NothingSent
  /\ UNCHANGED <<power, conn, flow, num_cmd_packets, l2cap, signal, events,
                 world>>

(* The loop of hci_send_acl_packet_fragments goes on if the controller has *)
(* taken the fragment before and has a buffer left ...                     *)
SendMore ==
  /\ pc = "more" /\ CanSendPrepared(buffer.handle)
  /\ SendFragment(buffer.handle, buffer.channel, pos, total, after)
  /\ UNCHANGED <<power, conn, flow, num_cmd_packets, reserved, l2cap,
                 signal, events, world>>

(* ... and otherwise returns and leaves the rest to hci_run.               *)
SendNoMore ==
  /\ pc = "more" /\ ~ CanSendPrepared(buffer.handle) /\ Return /\ NothingSent
  /\ UNCHANGED <<power, conn, flow, num_cmd_packets, l2cap, signal, events,
                 world>>

Sending == AskChannel \/ NotifyEnds \/ SendMore \/ SendNoMore

-----------------------------------------------------------------------------
(* hci_run.                                                                *)

Running == pc = "run" /\ UNCHANGED <<l2cap, signal, events, world>>

(* hci_initializing_run: one command after the other ...                   *)
RunInit ==
  /\ Running /\ state = "initializing" /\ CanSendCommand /\ init_left > 0
  /\ SendCommand([type |-> "init"])
  /\ num_cmd_packets' = num_cmd_packets - 1
  /\ Then("idle", "idle")
  /\ UNCHANGED <<power, conn, num_packets_sent, flow, pos, total, tx_active>>

(* ... and then hci_init_done; hci_run goes on in the new state.           *)
RunInitDone ==
  /\ Running /\ state = "initializing" /\ CanSendCommand /\ init_left = 0
  /\ state' = "working" /\ NothingSent
  /\ UNCHANGED <<init_left, conn, flow, num_cmd_packets, control>>

(* hci_run_acl_fragments: what is left of the packet in the buffer comes   *)
(* before everything else.                                                 *)
FragmentsFirst == total > 0 /\ CanSendPrepared(buffer.handle)

RunFragments ==
  /\ Running /\ state = "working" /\ FragmentsFirst
  /\ SendFragment(buffer.handle, buffer.channel, pos, total, "idle")
  /\ UNCHANGED <<power, conn, flow, num_cmd_packets, reserved>>

(* Fragments of a connection that is gone are forgotten.                   *)
Orphaned == total > 0 /\ ~ Known(buffer.handle)
KeepFragments ==
  /\ pos' = (IF Orphaned THEN 0 ELSE pos)
  /\ total' = (IF Orphaned THEN 0 ELSE total)

(* hci_host_num_completed_packets needs no credit for a command.           *)
RunHostCompleted ==
  /\ Running /\ state = "working" /\ ~ FragmentsFirst
  /\ CanSendCommandTransport /\ host_completed_packets
  /\ SendCommand([type |-> "host_completed", number |-> num_packets_completed])
  /\ KeepFragments
  /\ num_packets_completed' = Zero /\ host_completed_packets' = FALSE
  /\ Then("idle", "idle")
  /\ UNCHANGED <<power, conn, num_packets_sent, num_cmd_packets, tx_active>>

(* hci_run_general_pending_commands.                                       *)
RunDisconnect(h) ==
  /\ Running /\ state = "working" /\ ~ FragmentsFirst
  /\ CanSendCommand /\ ~ host_completed_packets
  /\ conn[h] = "send_disconnect"
  /\ SendCommand([type |-> "disconnect", handle |-> h]) /\ KeepFragments
  /\ conn' = [conn EXCEPT ![h] = "sent_disconnect"]
  /\ num_cmd_packets' = num_cmd_packets - 1
  /\ Then("idle", "idle")
  /\ UNCHANGED <<power, num_packets_sent, flow, tx_active>>

(* Nothing to do, or nothing that can be done now.                         *)
RunNothing ==
  /\ Running /\ Then("idle", "idle")
  /\ \/ state = "off"
     \/ state = "initializing" /\ ~ CanSendCommand
     \/ /\ state = "working" /\ ~ FragmentsFirst
        /\ ~ (CanSendCommandTransport /\ host_completed_packets)
        /\ CanSendCommand => \A h \in Handles : conn[h] # "send_disconnect"
  /\ IF state = "working" THEN KeepFragments ELSE UNCHANGED <<pos, total>>
  /\ UNCHANGED <<power, conn, num_packets_sent, flow, num_cmd_packets,
                 reserved, buffer, tx_active, transport>>

HciRun ==
  \/ RunInit \/ RunInitDone \/ RunFragments \/ RunHostCompleted \/ RunNothing
  \/ \E h \in Handles : RunDisconnect(h)

-----------------------------------------------------------------------------
(* A variant: the buffer is released after each fragment. *)
TransportPacketSent_Releases ==
  /\ pc = "idle" /\ signal /\ signal' = FALSE
  /\ tx_active' = FALSE
  /\ reserved' = FALSE
  /\ Then("notify", "run")
  /\ UNCHANGED <<power, conn, num_packets_sent, flow, num_cmd_packets, buffer,
                 pos, total, l2cap, transport, events, world>>

(* What the transport delivers when the run loop polls it: that the        *)
(* controller has taken the packet, ...                                    *)
TransportPacketSent ==
  /\ pc = "idle" /\ signal /\ signal' = FALSE
  /\ tx_active' = FALSE
  /\ reserved' = (reserved /\ total > 0)
  /\ Then("notify", "run")
  /\ UNCHANGED <<power, conn, num_packets_sent, flow, num_cmd_packets, buffer,
                 pos, total, l2cap, transport, events, world>>

(* ... and the packets in the ring buffer, one after the other.            *)
Receives(type) ==
  /\ pc = "idle" /\ events # <<>> /\ Head(events).type = type
  /\ events' = Tail(events)
  /\ UNCHANGED <<transport, signal, world>>

NumberOfCompletedPackets ==
  /\ Receives("completed")
  /\ LET h == Head(events).handle
     IN  num_packets_sent' = IF Known(h) /\ num_packets_sent[h] > 0
                             THEN [num_packets_sent EXCEPT ![h] = @ - 1]
                             ELSE num_packets_sent
  /\ Then("notify", "run")
  /\ UNCHANGED <<power, conn, flow, num_cmd_packets, out, l2cap>>

(* Command complete or command status, with a credit for the next command  *)
(* or without; or the credit alone, in a Command_Complete of no command.   *)
CommandComplete ==
  /\ \E type \in {"command", "command_busy", "command_credit"} :
       /\ Receives(type)
       /\ num_cmd_packets' = IF type = "command_busy" THEN 0 ELSE 1
       /\ init_left' =
            IF type # "command_credit" /\ state = "initializing" /\ init_left > 0
            THEN init_left - 1 ELSE init_left
  /\ Then("run", "idle")
  /\ UNCHANGED <<state, conn, num_packets_sent, flow, out, l2cap>>

AclReceived ==
  /\ Receives("acl")
  /\ LET h == Head(events).handle
     IN  IF Known(h)
         THEN /\ num_packets_completed' = [num_packets_completed EXCEPT ![h] = @ + 1]
              /\ host_completed_packets' = TRUE
              /\ Then("run", "idle")
         ELSE UNCHANGED <<flow, control>>
  /\ UNCHANGED <<power, conn, num_packets_sent, num_cmd_packets, out, l2cap>>

(* l2cap_handle_disconnection_complete, then hci_shutdown_connection.      *)
ShutdownConnection(h) ==
  /\ l2cap_channels' = SelectSeq(l2cap_channels, LAMBDA c : HandleOf[c] # h)
  /\ waiting' = { c \in waiting : HandleOf[c] # h }
  /\ conn' = [conn EXCEPT ![h] = "none"]
  /\ num_packets_sent' = [num_packets_sent EXCEPT ![h] = 0]
  /\ num_packets_completed' = [num_packets_completed EXCEPT ![h] = 0]
  /\ UNCHANGED host_completed_packets

(* A variant: the buffer is left to a signal that may have come before. *)
DropFragments_NeverReleases(h) ==
  IF total > 0 /\ buffer.handle = h
  THEN pos' = 0 /\ total' = 0 /\ buffer' = NoHeader /\ UNCHANGED reserved
  ELSE UNCHANGED <<pos, total, buffer, reserved>>

(* The rest of a packet of the connection is dropped, and the buffer is    *)
(* released unless the transport still has a fragment of it.               *)
DropFragments(h) ==
  IF total > 0 /\ buffer.handle = h
  THEN /\ pos' = 0 /\ total' = 0 /\ buffer' = NoHeader
       /\ reserved' = (reserved /\ tx_active)
  ELSE UNCHANGED <<pos, total, buffer, reserved>>

DisconnectionComplete ==
  /\ Receives("disconnected")
  /\ LET h == Head(events).handle
     IN  IF Known(h) THEN ShutdownConnection(h) /\ DropFragments(h)
                          /\ Then("notify", "run")
                     ELSE UNCHANGED <<conn, num_packets_sent, flow, l2cap>>
                          /\ DropFragments(h) /\ Then("run", "idle")
  /\ UNCHANGED <<power, num_cmd_packets, tx_active>>

(* A connection is up: hci_emit_nr_connections_changed tells L2CAP.         *)
ConnectionComplete ==
  /\ Receives("connected")
  /\ conn' = [conn EXCEPT ![Head(events).handle] = "open"]
  /\ Then("notify", "run")
  /\ UNCHANGED <<power, num_packets_sent, flow, num_cmd_packets, out, l2cap>>

-----------------------------------------------------------------------------
(* A failure of the controller.                                            *)

(* The controller is disabled: it forgets everything, the host does not.   *)
ResetController ==
  /\ transport' = <<>>
  /\ link' = {} /\ held' = Zero /\ given' = Zero
  /\ partial' = [h \in Handles |-> None]

(* hci_power_control_off and _on.  The stack is left in HCI_STATE_OFF, with *)
(* its connections.                                                        *)
HardwareError ==
  /\ pc = "idle" /\ events # <<>> /\ Head(events).type = "hardware_error"
  /\ state' = "off" /\ ResetController /\ events' = <<>>
  /\ Then("run", "idle")
  /\ UNCHANGED <<init_left, conn, num_packets_sent, flow,
                 num_cmd_packets, out, l2cap, signal, incidents>>

-----------------------------------------------------------------------------
(* Callers: timers and other handlers of the application.                  *)

Called ==
  /\ pc = "idle"
  /\ UNCHANGED <<power, num_packets_sent, flow, num_cmd_packets,
                 out, transport, signal, events, remote>>

(* The signalling of a channel has ended well.                             *)
OpenChannel(c) ==
  /\ Called /\ conn[HandleOf[c]] = "open" /\ c \notin Range(l2cap_channels)
  /\ l2cap_channels' = Append(l2cap_channels, c)
  /\ UNCHANGED <<conn, waiting, control, incidents>>

RequestCanSend(c) ==
  /\ Called /\ c \in Range(l2cap_channels) \ waiting
  /\ waiting' = waiting \cup {c}
  /\ Then("notify", "idle")
  /\ UNCHANGED <<conn, l2cap_channels, incidents>>

GapDisconnect(h) ==
  /\ Incident /\ Called /\ conn[h] \in {"open", "sent_disconnect"}
  /\ conn' = [conn EXCEPT ![h] = "send_disconnect"]
  /\ Then("run", "idle")
  /\ UNCHANGED l2cap

-----------------------------------------------------------------------------
(* The controller.                                                         *)

Host == <<power, conn, num_packets_sent, flow, num_cmd_packets, out, l2cap,
          control>>

Event(type, h) == [type |-> type, handle |-> h]
Mentions(h) == h \in { e.handle : e \in Range(events) }

(* Takes the packet the transport has, and calls the host back.            *)
Takes ==
  /\ signal' = TRUE
  /\ transport # <<>> /\ transport' = <<>>
  /\ UNCHANGED <<Host, incidents>>

TakesAcl ==
  /\ Takes /\ transport[1].type = "acl"
  /\ LET p == transport[1]
     IN  IF p.handle \in link
         THEN /\ held' = [held EXCEPT ![p.handle] = @ + 1]
              /\ partial' = [partial EXCEPT
                              ![p.handle] = IF p.last THEN None ELSE p.channel]
         ELSE UNCHANGED <<held, partial>>
  /\ UNCHANGED <<events, link, given>>

TakesCommand ==
  /\ Takes /\ transport[1].type \in {"init", "disconnect"}
  /\ \E type \in {"command", "command_busy"} :
       events' = Append(events, Event(type, None))
  /\ UNCHANGED <<link, held, partial, given>>

TakesHostCompleted ==
  /\ Takes /\ transport[1].type = "host_completed"
  /\ given' = [h \in Handles |-> IF h \in link
                                 THEN given[h] - transport[1].number[h] ELSE 0]
  /\ UNCHANGED <<events, link, held, partial>>

(* Nothing a handler does depends on what arrives meanwhile, so that it    *)
(* arrives between two handlers.                                           *)
Sends(type, h) ==
  /\ pc = "idle"
  /\ events' = Append(events, Event(type, h))
  /\ UNCHANGED <<Host, signal, transport>>

CompletesPacket(h) ==
  /\ held[h] > 0 /\ Sends("completed", h)
  /\ held' = [held EXCEPT ![h] = @ - 1]
  /\ UNCHANGED <<link, partial, given, incidents>>

(* It has room for a command again, after it had answered without a credit.*)
GivesCredit ==
  /\ num_cmd_packets = 0
  /\ \A p \in Range(transport) : p.type \notin {"init", "disconnect"}
  /\ \A e \in Range(events) :
       e.type \notin {"command", "command_busy", "command_credit"}
  /\ Sends("command_credit", None)
  /\ UNCHANGED <<remote, incidents>>

SendsAcl(h) ==
  /\ h \in link /\ Sum(given) < HCI_HOST_ACL_PACKET_NUM /\ Sends("acl", h)
  /\ given' = [given EXCEPT ![h] = @ + 1]
  /\ UNCHANGED <<link, held, partial, incidents>>

(* A link ends because the host, the remote device or the radio says so.   *)
Disconnects(h) ==
  /\ IF conn[h] = "sent_disconnect" THEN UNCHANGED incidents ELSE Incident
  /\ h \in link /\ Sends("disconnected", h)
  /\ link' = link \ {h}
  /\ held' = [held EXCEPT ![h] = 0] /\ given' = [given EXCEPT ![h] = 0]
  /\ partial' = [partial EXCEPT ![h] = None]

(* A handle is used again when the host no longer knows it.                *)
Connects(h) ==
  /\ state = "working" /\ h \notin link /\ ~ Known(h) /\ ~ Mentions(h)
  /\ transport = <<>>
  /\ Sends("connected", h)
  /\ link' = link \cup {h}
  /\ UNCHANGED <<held, partial, given, incidents>>

Fails ==
  /\ Incident
  /\ state # "off" /\ \A e \in Range(events) : e.type # "hardware_error"
  /\ Sends("hardware_error", None) /\ UNCHANGED remote

-----------------------------------------------------------------------------
PacketReceived ==
  NumberOfCompletedPackets \/ CommandComplete \/ AclReceived
    \/ DisconnectionComplete \/ ConnectionComplete \/ HardwareError

Stack == Sending \/ HciRun

Application ==
  \E c \in Channels : OpenChannel(c) \/ RequestCanSend(c)

Controller ==
  \/ TakesAcl \/ TakesCommand \/ TakesHostCompleted \/ GivesCredit
  \/ \E h \in Handles : CompletesPacket(h) \/ SendsAcl(h) \/ Connects(h)

Incidents ==
  \/ Fails \/ \E h \in Handles : GapDisconnect(h) \/ Disconnects(h)

Next ==
  \/ Stack \/ TransportPacketSent \/ PacketReceived
  \/ Application \/ Controller \/ Incidents

Spec == Init /\ [][Next]_vars

(* A handler runs to its end, and each turn of the run loop polls the      *)
(* transport and the timers, whatever the application calls between two    *)
(* turns.  The controller takes packets, sends what it holds.              *)
Fairness ==
  /\ WF_vars(Stack)
  /\ SF_vars(TransportPacketSent) /\ SF_vars(PacketReceived)
  /\ WF_vars(TakesAcl \/ TakesCommand \/ TakesHostCompleted)
  /\ \A h \in Handles : SF_vars(CompletesPacket(h))

FairSpec == Spec /\ Fairness

-----------------------------------------------------------------------------
TypeOK ==
  /\ state \in {"off", "initializing", "working"} /\ init_left \in 0 .. InitCommands
  /\ conn \in [Handles -> {"none", "open", "send_disconnect", "sent_disconnect"}]
  /\ num_packets_sent \in [Handles -> 0 .. acl_packets_total_num]
  /\ num_packets_completed \in [Handles -> 0 .. HCI_HOST_ACL_PACKET_NUM]
  /\ host_completed_packets \in BOOLEAN /\ num_cmd_packets \in 0 .. 1
  /\ reserved \in BOOLEAN /\ tx_active \in BOOLEAN /\ signal \in BOOLEAN
  /\ pos \in 0 .. MaxFragments /\ total \in 0 .. MaxFragments
  /\ waiting \subseteq Range(l2cap_channels) /\ Range(l2cap_channels) \subseteq Channels
  /\ pc \in {"idle", "notify", "more", "run"} /\ after \in {"idle", "run"}
  /\ link \subseteq Handles /\ given \in [Handles -> 0 .. HCI_HOST_ACL_PACKET_NUM]
  /\ held \in [Handles -> 0 .. acl_packets_total_num]

(* A link the host and the controller both have.                           *)
Alive(h) == Known(h) /\ h \in link /\ ~ \E e \in Range(events) :
                e.handle = h /\ e.type \in {"connected", "disconnected"}

Pending(type, h) == Quantify(DOMAIN events, LAMBDA i : events[i] = Event(type, h))
SentNow(h) == Quantify(DOMAIN transport, LAMBDA i :
                         transport[i].type = "acl" /\ transport[i].handle = h)
ReportedNow(h) == IF transport # <<>> /\ transport[1].type = "host_completed"
                  THEN transport[1].number[h] ELSE 0

(* The packets of a link that are counted as sent are those the controller *)
(* holds, the one it has not taken and those it has reported done; and the *)
(* packets it may not send yet are on their way through the host: no       *)
(* credit is lost or made up in either direction, across lost links and    *)
(* handles used again (hci.c:3340, :902, :1199, :5355).                    *)
CreditsAccounted ==
  \A h \in Handles : Alive(h) =>
    /\ num_packets_sent[h] = held[h] + SentNow(h) + Pending("completed", h)
    /\ given[h] = Pending("acl", h) + num_packets_completed[h] + ReportedNow(h)

(* What the transport has is the next fragment the controller expects of   *)
(* the link: no packet starts before the one before has ended, and no rest *)
(* of a packet reaches another connection (hci.c:3862, :5406).             *)
PacketsStayWhole ==
  \A p \in Range(transport) : p.type = "acl" /\ Alive(p.handle) =>
    partial[p.handle] = IF p.first THEN None ELSE p.channel

(* When nothing arrives any more, a channel that waits to send is asked in *)
(* the end, unless it is closed: the buffer is always released, and a busy *)
(* channel does not keep the others waiting (l2cap.c:2694).                *)
(*                                                                         *)
(* Without the condition it may wait for ever: a packet that arrives after *)
(* the controller took a command, and before its signal is polled, lets    *)
(* hci_run send the next host-completed command in the channel's place.    *)
WaitingIsAsked ==
  <>[](given = Zero)
    => \A c \in Channels : c \in waiting ~> c \notin waiting \/ state = "off"

(* When the channels are quiet at last the controller gets its credits     *)
(* back, so that it may send again.                                        *)
(*                                                                         *)
(* Without the condition it may wait for ever: L2CAP is notified before    *)
(* hci_run (hci.c:4244), and a channel that always has something to send   *)
(* takes the buffer each time.                                             *)
HostCompletedReported ==
  <>[](waiting = {})
    => (host_completed_packets ~> ~ host_completed_packets \/ state = "off")

=============================================================================
