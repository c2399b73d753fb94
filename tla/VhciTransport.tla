---------------------------- MODULE VhciTransport ----------------------------
(***************************************************************************)
(* The HCI transport between the ESP32 Bluetooth controller and BTstack    *)
(* (lib/BTstack/port/esp32/btstack_port_esp32.c) and the part of the       *)
(* FreeRTOS run loop that wakes it (platform/freertos/                     *)
(* btstack_run_loop_freertos.c).                                           *)
(*                                                                         *)
(* Two tasks run.  The controller task calls host_recv_pkt_cb with each    *)
(* packet, which is framed into a ring buffer under a mutex, and           *)
(* host_send_pkt_available_cb when it can take a packet again.  Both set a *)
(* flag and notify the run loop task, which polls the transport's data     *)
(* source, clears the flags, empties the ring buffer into the stack's      *)
(* packet handler, does its other work and sleeps until it is notified or  *)
(* a timer is due.  A label of a task names the statement it executes      *)
(* next; statements between two labels run under the mutex or touch        *)
(* nothing the other task does.                                            *)
(***************************************************************************)
EXTENDS BtRingBuffer, SequencesExt

CONSTANTS
  HCI_HOST_ACL_PACKET_NUM,    \* ACL and SCO packets the controller may send
  HCI_HOST_SCO_PACKET_NUM,    \* before the host completes one (flow control)
  MAX_NR_HOST_EVENT_PACKETS,  \* events the ring buffer has room for
  AclSize, ScoSize, EventSize,\* longest packet of each type, H4 byte included
  Packets,                    \* packets the controller may hand over
  EventBurst,                 \* events it may hand over before one is handled
  MaxPackets,                 \* bound: packets received in a run
  MaxOpens                    \* bound: times the transport is opened

HCI_ACL_DATA_PACKET == 2
HCI_SCO_DATA_PACKET == 3
HCI_EVENT_PACKET    == 4

Byte == 0 .. 255

(* A variant: storage without room for the lengths. *)
StorageSize_NoLengths ==
    HCI_HOST_ACL_PACKET_NUM   * AclSize
  + HCI_HOST_SCO_PACKET_NUM   * ScoSize
  + MAX_NR_HOST_EVENT_PACKETS * EventSize

(* sizeof(hci_ringbuffer_storage): every packet the flow control allows,   *)
(* and MAX_NR_HOST_EVENT_PACKETS events, each with its 2 byte length.      *)
StorageSize ==
    HCI_HOST_ACL_PACKET_NUM   * (2 + AclSize)
  + HCI_HOST_SCO_PACKET_NUM   * (2 + ScoSize)
  + MAX_NR_HOST_EVENT_PACKETS * (2 + EventSize)

ASSUME NumbersAssumption ==
  /\ HCI_HOST_ACL_PACKET_NUM \in Nat /\ HCI_HOST_SCO_PACKET_NUM \in Nat
  /\ MAX_NR_HOST_EVENT_PACKETS \in Nat
  /\ AclSize \in Nat /\ ScoSize \in Nat /\ EventSize \in Nat
  /\ StorageSize > 0 /\ StorageSize < 65536    \* "uint16_t space" holds it
  /\ EventBurst \in Nat /\ MaxPackets \in Nat /\ MaxOpens \in Nat
ASSUME PacketsAssumption ==
  /\ Packets \subseteq Seq(Byte)
  /\ \A p \in Packets : Len(p) > 0 /\ Len(p) < 65536
ASSUME PacketSizesAssumption ==
  \A p \in Packets :
    \/ p[1] = HCI_ACL_DATA_PACKET /\ Len(p) <= AclSize
    \/ p[1] = HCI_SCO_DATA_PACKET /\ Len(p) <= ScoSize
    \/ p[1] = HCI_EVENT_PACKET /\ Len(p) <= EventSize

VARIABLES
  hci_ringbuffer,
  ring_buffer_mutex,             \* its holder: "none", "controller" or "main"
  transport_signal_sent,
  transport_packets_to_deliver,
  hci_receive_buffer,            \* the packet read last, and what it left over
  bt_controller_initialized,
  controller,                    \* external: "off", "initialized", "enabled"
  notified,                      \* the notification bit of the run loop task
  recv, packet,                  \* controller task: label, argument "data"
  main,                          \* run loop task: label
  accepted, delivered,           \* packets stored and handled since the opening
  received, opens                \* counters for MaxPackets and MaxOpens

flags    == <<transport_signal_sent, transport_packets_to_deliver, notified>>
lifetime == <<bt_controller_initialized, controller, opens>>
history  == <<accepted, delivered>>
store    == <<hci_ringbuffer, ring_buffer_mutex>>
vars == <<hci_ringbuffer, ring_buffer_mutex, flags, hci_receive_buffer,
          lifetime, recv, packet, main, history, received>>

LenTag(p) == <<Len(p) % 256, Len(p) \div 256>>
Frame(p)  == LenTag(p) \o p

Pending == SubSeq(accepted, Len(delivered) + 1, Len(accepted))

(* transport_init creates the mutex and adds the data source. *)
TransportInit == ring_buffer_mutex = "none" /\ main = "other"

Init ==
  /\ TransportInit
  /\ hci_ringbuffer = New([k \in 0 .. StorageSize-1 |-> 0], StorageSize)
  /\ transport_signal_sent = 0 /\ transport_packets_to_deliver = 0
  /\ hci_receive_buffer = <<>>
  /\ bt_controller_initialized = 0 /\ controller = "off" /\ opens = 0
  /\ notified = FALSE
  /\ recv = "idle" /\ packet = <<>>
  /\ accepted = <<>> /\ delivered = <<>> /\ received = 0

-----------------------------------------------------------------------------
(* The controller task.                                                    *)

(* Host flow control: a credit per ACL and per SCO packet the stack has    *)
(* not handled.  HCI has no flow control for events.                       *)
Credits(type) ==
  CASE type = HCI_ACL_DATA_PACKET -> HCI_HOST_ACL_PACKET_NUM
    [] type = HCI_SCO_DATA_PACKET -> HCI_HOST_SCO_PACKET_NUM
    [] OTHER                      -> EventBurst

Unhandled(type) == { i \in DOMAIN Pending : Pending[i][1] = type }

MaySend(p) == Cardinality(Unhandled(p[1])) < Credits(p[1])

(* host_recv_pkt_cb(data, len) is called. *)
RecvCalled(p) ==
  /\ recv = "idle" /\ controller = "enabled"
  /\ received < MaxPackets /\ MaySend(p)
  /\ recv' = "take" /\ packet' = p
  /\ received' = received + 1
  /\ UNCHANGED <<store, flags, hci_receive_buffer, lifetime, main, history>>

(* The task executes the statement at one label and goes on to another.    *)
RecvMoves(from, to) ==
  /\ recv = from /\ recv' = to
  /\ UNCHANGED <<hci_receive_buffer, lifetime, packet, main, delivered, received>>

RecvTakesMutex ==
  /\ RecvMoves("take", "check")
  /\ ring_buffer_mutex = "none" /\ ring_buffer_mutex' = "controller"
  /\ UNCHANGED <<hci_ringbuffer, accepted, flags>>

(* The check compares the free space with the packet alone, not with the   *)
(* packet and its length.                                                  *)
NoSpace == BytesFree(hci_ringbuffer) < Len(packet)

(* A variant: the early return keeps the mutex. *)
RecvDrops_KeepsMutex ==
  /\ RecvMoves("check", "idle") /\ NoSpace
  /\ UNCHANGED <<store, accepted, flags>>

RecvDrops ==
  /\ RecvMoves("check", "idle") /\ NoSpace
  /\ ring_buffer_mutex' = "none"
  /\ UNCHANGED <<hci_ringbuffer, accepted, flags>>

RecvStoresLength ==
  /\ RecvMoves("check", "store") /\ ~ NoSpace
  /\ hci_ringbuffer' = Write(hci_ringbuffer, LenTag(packet))
  /\ UNCHANGED <<ring_buffer_mutex, accepted, flags>>

(* The status of the write is ignored: the packet counts as accepted.      *)
RecvStoresPacket ==
  /\ RecvMoves("store", "set_deliver")
  /\ hci_ringbuffer' = Write(hci_ringbuffer, packet)
  /\ ring_buffer_mutex' = "none"
  /\ accepted' = Append(accepted, packet)
  /\ UNCHANGED flags

(* A variant: the run loop is not notified. *)
RecvSetsFlag_NoTrigger ==
  /\ RecvMoves("set_deliver", "idle")
  /\ transport_packets_to_deliver' = 1
  /\ UNCHANGED <<store, accepted, transport_signal_sent, notified>>

RecvSetsFlag ==
  /\ RecvMoves("set_deliver", "trigger_deliver")
  /\ transport_packets_to_deliver' = 1
  /\ UNCHANGED <<store, accepted, transport_signal_sent, notified>>

(* host_send_pkt_available_cb() is called. *)
SendAvailableCalled ==
  /\ RecvMoves("idle", "trigger_sent") /\ controller = "enabled"
  /\ transport_signal_sent' = 1
  /\ UNCHANGED <<store, accepted, transport_packets_to_deliver, notified>>

(* btstack_run_loop_freertos_trigger() ends either callback. *)
Trigger ==
  /\ \E label \in {"trigger_deliver", "trigger_sent"} : RecvMoves(label, "idle")
  /\ notified' = TRUE
  /\ UNCHANGED <<store, accepted, transport_signal_sent,
                 transport_packets_to_deliver>>

RecvStep ==
  \/ RecvTakesMutex \/ RecvDrops \/ RecvStoresLength \/ RecvStoresPacket
  \/ RecvSetsFlag \/ Trigger

ControllerTask ==
  (\E p \in Packets : RecvCalled(p)) \/ SendAvailableCalled \/ RecvStep

-----------------------------------------------------------------------------
(* The run loop task: transport_process ...                                *)

MainMoves(from, to) ==
  /\ main = from /\ main' = to
  /\ UNCHANGED <<lifetime, recv, packet, accepted, received>>

PollSignalSent ==
  /\ MainMoves("poll_sent",
               IF transport_signal_sent = 1 THEN "clear_sent" ELSE "poll_deliver")
  /\ UNCHANGED <<store, flags, hci_receive_buffer, delivered>>

ClearSignalSent ==
  /\ MainMoves("clear_sent", "notify_sent")
  /\ transport_signal_sent' = 0
  /\ UNCHANGED <<store, transport_packets_to_deliver, notified,
                 hci_receive_buffer, delivered>>

(* transport_notify_packet_send: the stack may send again. *)
NotifyPacketSent ==
  /\ MainMoves("notify_sent", "poll_deliver")
  /\ UNCHANGED <<store, flags, hci_receive_buffer, delivered>>

PollPacketsToDeliver ==
  /\ MainMoves("poll_deliver",
               IF transport_packets_to_deliver = 1 THEN "clear_deliver" ELSE "other")
  /\ UNCHANGED <<store, flags, hci_receive_buffer, delivered>>

(* A variant: both flags are cleared in one go. *)
ClearPacketsToDeliver_ClearsBoth ==
  /\ MainMoves("clear_deliver", "take")
  /\ transport_packets_to_deliver' = 0 /\ transport_signal_sent' = 0
  /\ UNCHANGED <<store, notified, hci_receive_buffer, delivered>>

ClearPacketsToDeliver ==
  /\ MainMoves("clear_deliver", "take")
  /\ transport_packets_to_deliver' = 0
  /\ UNCHANGED <<store, transport_signal_sent, notified, hci_receive_buffer,
                 delivered>>

(* ... transport_deliver_packets, called by it ...                         *)
DeliverTakesMutex ==
  /\ MainMoves("take", "locked")
  /\ ring_buffer_mutex = "none" /\ ring_buffer_mutex' = "main"
  /\ UNCHANGED <<hci_ringbuffer, flags, hci_receive_buffer, delivered>>

(* A variant: the last give is missing. *)
DeliverEnds_KeepsMutex ==
  /\ MainMoves("locked", "other") /\ BytesAvailable(hci_ringbuffer) = 0
  /\ UNCHANGED <<store, flags, hci_receive_buffer, delivered>>

DeliverEnds ==
  /\ MainMoves("locked", "other") /\ BytesAvailable(hci_ringbuffer) = 0
  /\ ring_buffer_mutex' = "none"
  /\ UNCHANGED <<hci_ringbuffer, flags, hci_receive_buffer, delivered>>

(* The receive buffer after a read: the bytes read, then what it held.     *)
Overwrite(buffer, data) ==
  data \o SubSeq(buffer, Len(data) + 1, Len(buffer))

(* The first n bytes of the buffer, of which it holds no more than were    *)
(* ever read into it.                                                      *)
Start(buffer, n) == SubSeq(buffer, 1, IF n <= Len(buffer) THEN n ELSE Len(buffer))

(* The stack's handler is called with the number of bytes the length tag   *)
(* claims, after the mutex is given back.                                  *)
DeliverPacket ==
  /\ MainMoves("locked", "handling") /\ BytesAvailable(hci_ringbuffer) > 0
  /\ LET tag    == ReadData(hci_ringbuffer, 2)
         len    == tag[1] + 256 * (IF Len(tag) = 2 THEN tag[2] ELSE 0)
         rest   == Read(hci_ringbuffer, 2)
         buffer == Overwrite(hci_receive_buffer, ReadData(rest, len))
     IN  /\ hci_ringbuffer' = Read(rest, len)
         /\ hci_receive_buffer' = buffer
         /\ delivered' = Append(delivered, Start(buffer, len))
  /\ ring_buffer_mutex' = "none"
  /\ UNCHANGED flags

(* A variant: one packet per poll, "if" for "while". *)
HandlerReturns_OncePerPoll ==
  /\ MainMoves("handling", "other")
  /\ UNCHANGED <<store, flags, hci_receive_buffer, delivered>>

HandlerReturns ==
  /\ MainMoves("handling", "take")
  /\ UNCHANGED <<store, flags, hci_receive_buffer, delivered>>

(* ... and btstack_run_loop_freertos_execute, which calls both.  The label *)
(* "other" stands for callbacks, function calls and timers, and for the    *)
(* application's btstack_main before the loop starts.                      *)
GoToSleep ==
  /\ MainMoves("other", "wait")
  /\ UNCHANGED <<store, flags, hci_receive_buffer, delivered>>

(* xTaskNotifyWait returns with the bit set and clears it.                 *)
WakeUp ==
  /\ MainMoves("wait", "poll_sent") /\ notified
  /\ notified' = FALSE
  /\ UNCHANGED <<store, transport_signal_sent, transport_packets_to_deliver,
                 hci_receive_buffer, delivered>>

(* ... or without it, because a timer is due.                              *)
TimerDue ==
  /\ MainMoves("wait", "poll_sent") /\ ~ notified
  /\ UNCHANGED <<store, flags, hci_receive_buffer, delivered>>

(* HCI opens and closes the transport from its own code on this task: in   *)
(* btstack_main, in a packet handler, in a timer.                          *)
HciMayCall == main \in {"other", "handling", "notify_sent"}

(* A variant: the ring buffer keeps what an earlier session left in it. *)
TransportOpen_KeepsPackets(init_ret, enable_ret) ==
  /\ HciMayCall /\ controller # "enabled" /\ opens < MaxOpens
  /\ bt_controller_initialized' = 1
  /\ controller' = "enabled"
  /\ accepted' = <<>> /\ delivered' = <<>>
  /\ opens' = opens + 1
  /\ UNCHANGED <<store, flags, hci_receive_buffer, recv, packet, main, received>>

(* transport_open: the ring buffer starts over; the controller is          *)
(* initialised once after boot, whatever came of it, and then enabled.     *)
TransportOpen(init_ret, enable_ret) ==
  /\ HciMayCall /\ controller # "enabled" /\ opens < MaxOpens
  /\ hci_ringbuffer' = New(hci_ringbuffer.storage, StorageSize)
  /\ bt_controller_initialized' = 1
  /\ LET initialised == controller = "initialized"
                          \/ (bt_controller_initialized = 0 /\ init_ret = 0)
     IN  controller' = IF ~ initialised THEN "off"
                       ELSE IF enable_ret = 0 THEN "enabled" ELSE "initialized"
  /\ accepted' = <<>> /\ delivered' = <<>>
  /\ opens' = opens + 1
  /\ UNCHANGED <<ring_buffer_mutex, flags, hci_receive_buffer, recv, packet,
                 main, received>>

(* transport_close.  esp_bt_controller_disable is taken to return after a  *)
(* callback in progress.                                                   *)
TransportClose ==
  /\ HciMayCall /\ controller = "enabled" /\ recv = "idle"
  /\ controller' = "initialized"
  /\ UNCHANGED <<store, flags, hci_receive_buffer, bt_controller_initialized,
                 opens, recv, packet, main, history, received>>

TransportProcess ==
  \/ PollSignalSent \/ ClearSignalSent \/ NotifyPacketSent
  \/ PollPacketsToDeliver \/ ClearPacketsToDeliver
  \/ DeliverTakesMutex \/ DeliverEnds \/ DeliverPacket \/ HandlerReturns

MainTask ==
  \/ TransportProcess \/ GoToSleep \/ WakeUp \/ TimerDue
  \/ \E r, e \in {-1, 0} : TransportOpen(r, e)
  \/ TransportClose

Next == ControllerTask \/ MainTask

(* Both tasks are scheduled.  Nothing makes the controller call, a timer   *)
(* expire or HCI reopen the transport.                                     *)
Fairness ==
  /\ WF_vars(RecvStep)
  /\ WF_vars(TransportProcess \/ GoToSleep \/ WakeUp)

Spec == Init /\ [][Next]_vars

FairSpec == Spec /\ Fairness

-----------------------------------------------------------------------------
RecvLabels == {"idle", "take", "check", "store", "set_deliver",
               "trigger_deliver", "trigger_sent"}
MainLabels == {"poll_sent", "clear_sent", "notify_sent", "poll_deliver",
               "clear_deliver", "take", "locked", "handling", "other", "wait"}

(* Every variable has its type; in particular the ring buffer's indices    *)
(* stay inside hci_ringbuffer_storage.                                     *)
TypeOK ==
  /\ hci_ringbuffer \in RingBuffers(StorageSize, Byte)
  /\ ring_buffer_mutex \in {"none", "controller", "main"}
  /\ transport_signal_sent \in 0 .. 1
  /\ transport_packets_to_deliver \in 0 .. 1
  /\ hci_receive_buffer \in Seq(Byte)
  /\ bt_controller_initialized \in 0 .. 1
  /\ controller \in {"off", "initialized", "enabled"}
  /\ notified \in BOOLEAN
  /\ recv \in RecvLabels /\ packet \in Packets \cup {<<>>}
  /\ recv \in {"take", "check", "store"} => packet \in Packets
  /\ main \in MainLabels
  /\ accepted \in Seq(Packets) /\ delivered \in Seq(Seq(Byte))
  /\ received \in 0 .. MaxPackets /\ opens \in 0 .. MaxOpens

(* The lock protocol of host_recv_pkt_cb and transport_deliver_packets:    *)
(* each task holds the mutex exactly where its code accesses the ring      *)
(* buffer, so never both, and never when it calls out or returns.          *)
MutexHeldWhereUsed ==
  /\ ring_buffer_mutex = "controller" <=> recv \in {"check", "store"}
  /\ ring_buffer_mutex = "main" <=> main = "locked"

(* A stored packet keeps the flag set until the run loop task is on its    *)
(* way to read it, and a set flag keeps that task awake: it is polled      *)
(* before the next wait, or the wait returns.                              *)
NoLostPackets ==
  BytesAvailable(hci_ringbuffer) > 0 =>
    \/ transport_packets_to_deliver = 1
    \/ main \in {"clear_deliver", "take", "locked", "handling"}
    \/ recv \in {"store", "set_deliver"}

NoLostWakeups ==
  /\ transport_packets_to_deliver = 1 =>
       \/ notified \/ recv = "trigger_deliver"
       \/ main \in {"poll_sent", "clear_sent", "notify_sent",
                    "poll_deliver", "clear_deliver"}
  /\ transport_signal_sent = 1 =>
       notified \/ recv = "trigger_sent" \/ main \in {"poll_sent", "clear_sent"}

(* The run loop task sleeps only when its work is done: once both tasks    *)
(* are at rest without a notification, no packet is left in the ring       *)
(* buffer and no flag is set.                                              *)
SleepsOnlyWhenDrained ==
  main = "wait" /\ ~ notified /\ recv = "idle" =>
    /\ BytesAvailable(hci_ringbuffer) = 0
    /\ transport_packets_to_deliver = 0 /\ transport_signal_sent = 0

(* hci_ringbuffer_storage is large enough for a controller that respects   *)
(* the flow control, while no more events wait than it has room for:       *)
(* host_recv_pkt_cb never finds too little space, for the packet or for    *)
(* its length.                                                             *)
EventsWaiting ==
  Cardinality(Unhandled(HCI_EVENT_PACKET))
    + (IF packet[1] = HCI_EVENT_PACKET THEN 1 ELSE 0)

RoomForEveryPacket ==
  recv = "check" /\ EventsWaiting <= MAX_NR_HOST_EVENT_PACKETS =>
    BytesFree(hci_ringbuffer) >= Len(Frame(packet))

(* The stack is given the packets the callback accepted, in order.         *)
PacketsInOrder == IsPrefix(delivered, accepted)

(* The transport is a first-in first-out channel of whole packets.         *)
Channel == INSTANCE HciChannel WITH
  queue  <- Pending,
  latest <- IF delivered = <<>> THEN <<>> ELSE delivered[Len(delivered)]
ImplementsChannel == Channel!ChannelSpec

(* Every packet host_recv_pkt_cb accepted is handed to the stack, without  *)
(* help of a timer, unless the transport is opened anew.                   *)
AcceptedIsDelivered ==
  \A n \in 1 .. MaxPackets :
    Len(accepted) >= n ~> (Len(delivered) >= n \/ Len(accepted) < n)

(* Each time the controller can take a packet again the stack is told.     *)
SendAvailableIsReported == transport_signal_sent = 1 ~> main = "notify_sent"

(* The controller's callbacks return: it waits for the mutex a bounded     *)
(* time, on the dropping path too.                                         *)
CallbackReturns == recv # "idle" ~> recv = "idle"
=============================================================================
