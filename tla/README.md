# A verification project for the M5StickC Plus2 Bluetooth microphone

The repository builds a firmware (`platformio.ini`, default environment
`PandaMicTx`) that turns an M5StickC Plus2 into a Bluetooth microphone: a
hands-free device (HFP HF) whose microphone reaches a phone or PC over a SCO
link. A second firmware, `PandaMicTxUI`, has the same menus on a display. This
directory holds TLA+ models of the parts of both whose correctness depends on
interleavings, order, limits or long sequences of calls, the TLC runs that check
them, and theorems about them that TLAPS proves. `PROJECT.json` names, for every
definition of the models, the source lines it stands for.

Paths below are relative to the repository's root; `BT` is `lib/BTstack`.

## 1. Inventory

### Components

| Component (source) | State | Operations | Correct when | Modelled by |
|---|---|---|---|---|
| Byte ring buffer (`BT/src/btstack_ring_buffer.c`) | storage, read and write index, `full` | init, reset, available, free, write, read | it is a bounded queue of bytes wherever a block wraps | `BtRingBuffer`, `RingBufferFifo`, `ByteFifo` |
| VHCI transport (`BT/port/esp32/btstack_port_esp32.c`) | ring buffer of framed packets and its mutex, two flags, receive buffer, controller state | two callbacks of the controller, data source handler, open, close | every packet arrives whole, once, in order; no wake-up is lost; both tasks get on | `VhciTransport`, `HciChannel` |
| Run loop, timers (`BT/src/btstack_run_loop.c`, `BT/platform/freertos/btstack_run_loop_freertos.c`) | sorted list of timers, wrapping clock | set, add, remove, process, wait until the first | timers fire in order, never early, late by a bounded time, and do not starve the loop | `RunLoopTimers` |
| Run loop, calls from other tasks (same files) | callback list and its mutex, function queue, notification, exit flag | execute_on_main_thread, execute_code_on_main_thread, trigger_exit, execute | nothing posted is forgotten; handlers may post | `RunLoopCalls` |
| Console input (`BT/port/esp32/btstack_stdin_esp32.c`) | one character, one flag, a task notification | the stdin task, the data source handler | each character is handled once, in order, without a lock | `Stdin` |
| Microphone audio path (`example/PandaMicTx/esp32-hsp-hf/` `sco_demo_util.c`, `microphone.c`, `speaker.c`, and the gate for SCO packets in `BT/src/hci.c`) | codec, two audio rings and whether each is paused, both drivers and their timers, the outgoing buffer, packets the controller holds | set codec, close, send, receive, both timers | audio runs during calls only and never crosses from one to the next; sending never stalls; the controller is not overrun | `ScoAudio` |
| Demo event handler (`.../hfp_hf_demo.c`) | handle of the SCO link | audio established and released, SCO data, can send now | as above | `ScoAudio` (audio events only) |
| Menus (`example/PandaMicTxUI/Navigation`, `views`, `storage`, `main.cpp`) | stack of views, items, selection, `hasChanged`, devices, active device | keys, items, pairing, forgetting, redraw | a key acts on the item displayed; lists agree with memory; the active device is never forgotten | `MenuNavigation` |
| HFP hands-free profile (`BT/src/classic/hfp_hf.c`, `hfp.c`, the calls of `hfp_hf_demo.c`) | the context of a connection: state, codec states, flags of what is asked for, handles, `ok_pending`; `hfp_sco_establishment_active` | connect, release, open and close audio, commands; handlers of SDP, RFCOMM and HCI events and of the gateway's lines | no answer is waited for in vain; both sides agree on the codec of a link; setup, codec exchange and release come to an end; no other link is closed by a stale handle | `HfpContext`, `HfpHandsFree` |
| HCI layer (`BT/src/hci.c`) | connections, command and ACL credits of both directions, the outgoing buffer and what is left of the packet in it | power-up, commands, ACL packets and their fragments, events of the controller | whoever waits for the buffer gets it; packets are whole; no credit is lost | `HciSending`; its SCO gate in `ScoAudio` |
| L2CAP (`BT/src/l2cap.c`) | list of channels, who waits to send | request, ask the next channel, close those of a lost link | busy channels do not starve others | `HciSending` |
| Flash store (`BT/port/esp32/btstack_tlv_esp32.c`), buttons (`lib/EasyButton`) | one NVS handle; debounced state of a pin | get, store, delete; read | what was stored survives a restart; a bounce is no key | not modelled |

`PROJECT.json` lists the remaining parts with the reason they are left out:
BTstack's other protocol layers (vendored and used unchanged), codecs, display
and sensor drivers, the miniature interface and the hardware demonstration.
Of the repository's 310 000 lines more than nine tenths are such code: the whole
BTstack distribution with its ports, LE, mesh, A2DP and LE audio, the tables of
a codec, generated accessors for events, fonts and third-party drivers. No build
of the firmware changes them, and most are not linked into it. The models cover
what the firmware's own behaviour is decided by, which is a small part of the
lines.

### How the components interact

    controller task                       run loop task                        stdin task
    (closed ESP32 code)     ring buffer   (everything else of BTstack          one character
    host_recv_pkt_cb ---- mutex, flag --> and of the demo)        <-- flag --- and a flag
    host_send_pkt_     --- notify ----->  data sources -> callbacks            notify both ways
      available_cb                        -> functions -> timers -> wait
                                             |            |
                                        HCI -> HFP -> demo: SCO data in/out, audio timers

* FreeRTOS runs three tasks. The **controller task** stores packets in the ring
  buffer; the **run loop task** runs BTstack, the HFP demo and the audio
  drivers; the **stdin task** blocks on the UART. They share a ring buffer, two
  flags, one character, a callback list and a function queue, and wake the run
  loop with a task notification, which is one bit and does not count.
* On the run loop task everything happens between two waits, one handler at a
  time: polls of data sources, callbacks, functions, timers. Handlers call back
  into the loop: they start and remove timers and post callbacks.
* The HFP profile lives there too. An event, a line of the gateway or a call of
  the console changes the connection's context and then runs it: the first of
  its machines that has something to do sends one command, and the answer runs
  it again. Requests are flags in the context until they are carried out.
* Whatever goes to the controller passes **one outgoing buffer**: L2CAP's
  packets, HCI commands, the credits given back to the controller, SCO packets.
  Each handler of an event first lets L2CAP ask its channels and then runs
  `hci_run`; the buffer is reserved until the controller task has signalled that
  it took the last piece.
* The audio path lives on that task, driven by events of HFP (audio connected,
  released), SCO packets, the timers of the two I2S drivers, and the event that
  a SCO packet can be sent, which the demo must ask for each time.
* In the menus, Arduino's `loop()` polls three buttons and redraws what changed;
  a discovery session calls back with devices it has found.

### What is hard

Interleavings of the tasks around flags that are set, notified and cleared in
separate statements; a notification that only says "something"; order of the
handlers of one task; a clock that wraps; a ring buffer and queues at their
limits; values that are captured when a menu is entered and used later; the
next packet that is only sent if somebody asked for it; one buffer many senders
wait for, and links that end while it holds their packet. Each such place is a
hazard in `PROJECT.json`, at its line, with the properties that cover it, or the
reason none does.

Two facts about the builds decide what is modelled where. In `PandaMicTx`,
`setup()` ends in `hfp_hf_main()` (`example/PandaMicTx/main.cpp:156`), which
enters the run loop and does not return: `loop()` is never called, so buttons,
tickers and display are dead while the microphone works. The menus are therefore
modelled in `PandaMicTxUI`, where `loop()` runs; its `Navigation` directory is
the same. And the committed configuration leaves `ENABLE_SCO_OVER_HCI` out
(section 4, finding 4).

## 2. The modules

Every module is parameterised by constants with named assumptions; an action is
one operation, handler or uninterrupted stretch of one; `PROJECT.json` maps each
to its lines. `MC*` modules and the `.cfg` files instantiate them for TLC.

* **`BtRingBuffer`**: the ring buffer as operators on a record (storage,
  `last_read_index`, `last_written_index`, `full`), with the two copies of a
  block that wraps. **`RingBufferFifo`** makes them a state machine,
  **`ByteFifo`** is the abstract bounded queue it implements.
* **`VhciTransport`** extends `BtRingBuffer`: two tasks with a label each. The
  controller task goes `idle, take, check, store, set_deliver, trigger_deliver`
  through `host_recv_pkt_cb`; the run loop task through the data source handler
  (`poll_sent ... notify_sent`, `poll_deliver, clear_deliver`, then `take,
  locked, handling` once per packet), `other` work, and `wait`. Statements
  between two labels run under the mutex or touch nothing the other task does.
  It has host flow control as the *controller's* guard: it sends an ACL or SCO
  packet only when it has a credit, and no more than `EventBurst` events before
  one is handled. **`HciChannel`** is the abstract queue of packets it promises.
* **`RunLoopTimers`**: the list sorted by the sign of a wrapping difference,
  `process_timers`, the wait until the first timer. `left` counts for each timer
  the time that is really left; the code has no such variable, and the
  properties compare the list with it.
* **`RunLoopCalls`**: clients post to the callback list under its mutex or to
  the queue, and notify; the loop polls, pops callbacks one at a time, releases
  the mutex before each handler, empties the queue, reads the exit flag, waits.
  `items` says which registrations have something a handler has not taken.
  `OtherTaskTriggers` is a task that notifies the loop and posts nothing.
* **`Stdin`** extends `RunLoopCalls`: the stdin task is one more task that
  notifies the loop (`RequestPoll`), and the loop's poll of its data sources
  (`PollDataSources`) is the handler that takes the character. Everything else
  the loop and its clients do happens `Elsewhere`.
* **`ScoAudio`**: the demo's events against a controller that raises SCO links,
  delivers packets and completes those it was given. Audio is a sequence of
  equal pieces, each marked with the call it was recorded in.
* **`HfpContext`**: what `hfp_hf.c` and `hfp.c` do with the context of a
  connection, as operators from outcome to outcome. An outcome is the context,
  what the application knows after the events emitted, the commands sent, and
  what RFCOMM and the controller were asked. `Run` is
  `hfp_hf_run_for_context`: a request that cannot be carried out stays a flag.
  Where `gap_disconnect` reports the end of a link that never was, and so runs
  the context again before it returns, `ReleaseAudio` asks for that run and
  `RunOnce` makes it. `SlcCommand`, `SlcWait` and `AfterAnswer` are the setup of the
  service level connection.
* **`HfpHandsFree`**: the state machine around them. Each handler and each call
  of the application is one action and ends in `Handle`, which runs the context
  with the room there is (nothing, HCI commands only, or also lines) and
  distributes the outcome. The gateway answers each command with OK or ERROR,
  suggests codecs, opens audio links, closes them and drops the channel; the
  controller accepts or fails links. On a new channel the gateway starts anew,
  with CVSD and nothing suggested (`AgAnew`). `link.hf` and `link.ag` record with which
  codec each side takes a link, which no single variable of the code does.
* **`HciSending`**: handlers of the HCI layer as the run loop calls them, one
  action per uninterrupted stretch: `pc` says what the handler calls next
  (`notify`: `l2cap_notify_channel_can_send`; `more`: the loop of
  `hci_send_acl_packet_fragments`; `run`: `hci_run`), because the controller may
  take the packet in the transport in between. Lengths are counted in fragments.
  `link`, `held`, `partial` and `given` are the controller's side, which the code
  cannot see: the links it has, the packets it holds, the packet it has only the
  beginning of, the packets it may not send more of until the host says so.
* **`MenuNavigation`**: the stack of views, each menu's items, selection and
  `hasChanged`, what the items of the device menus captured, the devices in
  memory, the discovery session, and `shown`, what the display shows. Where the
  code indexes past an array the model goes to `power = "undefined"` and stops.
* **`BtRingBufferProofs`** (with `RingBufferFifo`), **`VhciTransportProofs`,
  `RunLoopProofs`** (calls and timers), **`StdinProofs`, `HciSendingProofs`,
  `ScoAudioProofs`, `MenuNavigationProofs`, `HfpHandsFreeProofs`**: the theorems.
  `RunLoopProofs` extends both modules of the run loop, so the timers' names are
  their own (`TimersSpec`, `TimersTypeOK`, `phase`); the same for
  `RingBufferFifo` (`RingBufferTypeOK`).

The mutants `X_Variant` stand before the definition they vary, each a plausible
mistake in that piece of code: a guard dropped, a reset forgotten, a notify left
out. They are used by no specification; with one in place of the original, the
property it belongs to is violated.

## 3. The runs

| Run | Module, configuration | Instance | Shows |
|---|---|---|---|
| `ring_buffer` | `MCRingBufferFifo` | 4 bytes, blocks of 0 to 5 | `ImplementsFifo`: writes, reads and resets are those of a bounded byte queue, at every pair of indices |
| `vhci` | `MCVhciTransport`, `Vhci` | 1 ACL credit, events against room for fewer, frames of 4 and 8 bytes in 12 bytes, an open, a close and an open again | the lock protocol, no sleep over a packet, storage large enough for whatever it was sized for, refinement of `HciChannel`, delivery without the help of a timer, and a callback that returns |
| `vhci_desync` | `MCVhciTransport`, `VhciDesync` | frames of different lengths, overflow | **violation** of `PacketsInOrder` |
| `timers` | `MCRunLoopTimers`, `Timers` | 3 timers, delays to 2 ms, 2 ms of work per round, a clock of 18 values | order, firing neither early nor later than the work explains, no starvation, at every alignment with the wrap of the clock |
| `calls` | `MCStdin`, `Console` | 2 clients, 1 registration, queue of 2, 3 posts, 2 keys, an exit at any time | nothing posted or typed is forgotten, repeated or reordered; without an exit, everything is called in the end, whoever else uses the one notification |
| `sco_calls` | `MCScoAudio`, `ScoCalls` | 2 gateways, 3 calls one at a time, 2 codecs | audio follows the call, no leak between calls, playback resumes buffered; in a build with SCO over HCI, sending never stalls and the controller is not overrun |
| `sco_not_over_hci` | `MCScoAudio`, `ScoNotOverHci` | 1 call, the committed configuration | **violation** of `SpeechIsSent` |
| `sco_second_call` | `MCScoAudio`, `ScoSecondCall` | 2 links at once | **violation** of `NeverAsserts` |
| `hfp` | `MCHfpHandsFree`, `Hfp` | a gateway with all features or none, 2 connections, 1 call of the application, 2 suggestions, 1 link offered, 1 loss | no answer is waited for in vain, a link the gateway opens is accepted with mSBC only if the gateway takes it for mSBC, a stale handle closes nothing; setup, codec exchange and release end |
| `hci_sending` | `MCHciSending`, `HciSending` | 1 link, 2 channels, 2 buffers in the controller, packets of 1 or 2 fragments, 1 packet in the other direction, 1 incident | credits are accounted for in both directions, packets reach the controller whole, a channel that waits is asked, the controller gets its credits back |
| `menus` | `MCMenuNavigation`, `Menus` | 3 devices, memory for 2 | lists agree with memory, the active device stays, the display shows what a key acts on |
| `menu_selection` | `MCMenuNavigation`, `MenuSelection` | the same | **violation** of `SelectionInRange` |

Each module states its type invariant, and all but those of `HciSending` and
`ScoAudio`, whose proofs need only parts of it, are proved (section 5). No run
spends its time on one, but each was checked while its module was written.

Six further configurations stand beside the runs. `HciTwoLinks.cfg` checks
`TypeOK`, `CreditsAccounted` and `PacketsStayWhole` of `HciSending` with two
links of one channel each, one of which may be lost and raised again; it passes
and is too large for liveness. `Calls.cfg` checks `RunLoopCalls` without the
console, and with two registrations and so a list of callbacks that can hold
more than one. The others are demonstrations that end in a counterexample;
section 4 says what they show: `HfpAudioEnd.cfg` (`AudioEndIsReported`), `HfpOwnCodec.cfg`
(`MsbcLinksAgree`), `TimerDoubleStart.cfg` (`DoubleStartIsCaught`) and `CallsExit.cfg`
(`ExitEndsTheLoop`).

### The bounds

* *Sizes.* The ring buffer's code distinguishes an index before, at and past the
  end, empty and full, a block shorter and longer than the rest: 4 bytes and
  blocks up to 5 meet all of them in every order. `Vhci` has frames of 4 and of
  8 bytes, length included, in 12: the flow-controlled packet and the event the
  storage is sized for. A second event is dropped, and the call after it must
  find the mutex free.
* *Counters.* `MaxPackets`, `MaxOpens`, `MaxPosts`, `MaxCalls` and the length
  of `Input` bound histories. Two packets are enough to meet in the ring buffer, the third
  arrives while one is being handled; two openings include packets left over
  from the first; three calls leave the buffers of a call with one codec to one
  with the other and back. No guard of the code reads these counters. The
  theorems of section 5 hold for all of them.
* *The loop's callers.* Two clients and the handlers themselves ask for the one
  registration, while it waits, while its handler runs and after it; two
  different keys tell a character that is handled twice from one that is lost.
  With both the console and a second registration the liveness properties take
  too long; `Calls.cfg` has the second registration, and the theorems hold for
  any number.
* *The clock* must exceed twice the longest span (`RunLoopTimersAssumption`,
  `btstack_time_delta`'s own condition); 18 is little more than that, so the
  wrap falls everywhere.
* *Audio sizes* keep the order of the real ones: a CVSD packet is shorter and an
  mSBC frame longer than a DMA buffer, and mSBC prebuffers twice as much.
* *HFP*: with two connections the context and `hfp_sco_establishment_active`
  of one meet the other; the call is made in any of the states, among them
  those in which an answer, a suggestion, an offered link or a loss is on its
  way; of two suggestions the second may come while the first, or the unit's
  own exchange, is being settled. Two calls with one suggestion pass as well,
  and so does one connection with two of each. Gateways have all the features the
  profile asks for or none: the two longest and shortest setups. A query that is asked again while one is under way (`asked_again`) needs a
  third connection, with which the safety invariants were checked once and the
  theorems hold. Both sides have the same list of codecs, so a suggestion is
  never answered with AT+BAC instead of AT+BCS in the run; in the theorem the
  lists are arbitrary. `EarlyCalls`
  is false: the demo's console has the handle 0xFFFF until it is connected,
  which is also the handle of every context without a connection (section 4).
* *HCI*: a packet of two fragments against two buffers meets each place where the
  loop over the fragments stops; two channels of one link compete for the
  buffer; one incident is a link lost, a disconnect or a hardware error in every
  state, the middle of a packet among them, and links come up again after it.
  `InitCommands` stands for the commands of the power-up, which differ in
  nothing that matters here.
* *Menus*: three devices and room for two reach the full memory, forgetting from
  the middle, and pairing again; devices are symmetric, views and items are not.
* Deadlock is not checked in the runs where the system may stop: the loop has
  exited (`calls`), an assertion failed (`sco_second_call`), the device is off
  (`menus`, `menu_selection`), a hardware error left the stack off
  (`hci_sending`).

### Fairness

* FreeRTOS schedules every task that is ready, and serves a task that waits for
  a mutex in the end: weak fairness of each task's steps, strong fairness of
  taking a mutex in `RunLoopCalls`, where the loop and the clients contend for
  it again and again. In `VhciTransport` weak fairness suffices: the handler's
  loop ends when the ring buffer is empty, and only the other task fills it.
* The millisecond clock advances; a wait ends when its time is over.
* In `ScoAudio` the microphone's timer fires, the controller completes the
  packets it was given and reports a packet sent. Only `sco_not_over_hci` uses
  that: even so nothing is sent.
* In `HfpHandsFree` what is under way happens (`UnderWay`): the run loop serves
  the context when there is room, SDP, RFCOMM and the controller report what
  they were asked for, the gateway answers. One weak fairness condition is
  enough, as none of these steps can be repeated without end. The application's
  calls, the gateway's own initiatives and losses have none.
* In `HciSending` a handler runs to its end (weak fairness of `Stack`). Each turn
  of the run loop polls the transport, whatever the application calls between
  two turns, hence strong fairness of `TransportPacketSent` and
  `PacketReceived`, which are only enabled between two handlers. The controller
  takes a packet in the end and sends what it holds; the latter is strong for
  the same reason, an event being placed between two handlers. Nothing obliges
  the other device to send, channels to open, or links to come up. A controller
  may answer a command without giving the credit for another (`command_busy`)
  and give it later or never (`GivesCredit`).
* Nobody has to call, type, post, open or start anything. `TimerDue` has no
  fairness in `VhciTransport`, `RunLoopCalls` and `Stdin`: what they deliver
  they deliver without a timer that happens to wake the loop.

## 4. Findings

Four runs show the code doing something other than what it says of itself;
`PROJECT.json` quotes the lines.

1. **`vhci_desync`**: `host_recv_pkt_cb` compares the packet's length with the
   free space (`btstack_port_esp32.c:135`) but also writes a 2 byte length. With
   exactly `len` or `len + 1` bytes free, the length is stored and the packet is
   refused; the reader then takes the next frame's bytes for the missing packet.
   Under the flow control of `vhci` the space is never that short
   (`RoomForEveryPacket`): it takes more events at once than the storage has
   room for.
2. **`sco_second_call`**: `sco_demo_set_codec` initialises the drivers whenever
   the codec differs from the current one. If a second gateway opens an audio
   link with the other codec during a call, the drivers' timers are added while
   they are registered, which `btstack_run_loop_base_add_timer` asserts against.
3. **`menu_selection`**: `Menu::clear` declares local variables named
   `scrollPosition` and `selectedItem` instead of resetting the members. After
   the list became shorter, KEY_SELECT indexes past its end.
4. **`sco_not_over_hci`**: with `ENABLE_SCO_OVER_HCI` commented out, as it is in
   `btstack_default_config.h`, the HCI layer never counts a free slot for a SCO
   packet, the demo is never asked for one, and no recorded audio is sent,
   although `sco_demo_util.c:490` announces "Sending and receiving audio".
   With the option on, `SpeechIsSent` holds of the calls of `sco_calls` under the
   same fairness. `CallKeepsSending` and `ControllerNotOverrun` are about that
   build.

Further observations, which a configuration demonstrates or which were met while
modelling:

* `HfpOwnCodec.cfg`: the two sides may take a link the unit sets up itself for
  links of different codecs. The gateway may suggest CVSD after the unit has
  asked for the link and before it is raised; and at SLC the unit takes the OK
  of any earlier command for the answer to its confirmation
  (`hfp_hf.c:1228`), so it raises the link before the gateway has agreed. No
  document says otherwise; `MsbcOnlyIfAgreed` is therefore about the links the
  gateway opens, for which no such step comes between: the gateway asks the
  controller for a link only after the lines it has sent were received
  (`AgOpensAudio`), an assumption about the gateway.
* A suggestion that arrives while the unit is setting up its own link may remain
  unanswered while that link is up: `hfp_hf_run_for_context` does not reach the
  codec exchange then. `SuggestionAnswered` allows for it.
* `TimerDoubleStart.cfg`: a timer that is added twice after its timeout was
  changed is inserted in front of itself before the assertion meets it, so the
  list becomes cyclic unnoticed. The firmware starts no timer twice.
* `CallsExit.cfg`: `trigger_exit` sets a flag but does not notify, so a loop that
  waits without a timer does not exit until something else wakes it, and a
  request made before the loop starts is overwritten by its first statement. The
  firmware never exits its loop.
* `HfpAudioEnd.cfg`: when the channel closes while the audio link is being
  released, `hfp_handle_rfcomm_event` frees the context (`hfp.c:1069-1074`) and
  the end of the link finds none: AUDIO_CONNECTION_RELEASED, which `hfp_hf.h`
  promises (:228), is not emitted, and the demo's drivers run on.
* Sending in one direction can starve the other, which is why both liveness
  properties of `HciSending` have a condition. L2CAP is notified before `hci_run`
  runs: channels that always have something to send keep `hci_run` from the
  buffer, and with it the credits the controller waits for and all HCI commands.
  Conversely, a packet that arrives after the controller took a command, and
  before the signal of it is polled, leaves credits to give back, for which
  `hci_run` uses the buffer once it is released and before a channel is asked.
* With two audio links at once (`MaxUp = 2`) the release of the older one stops
  the drivers and makes the demo forget the handle of the newer:
  HFP_SUBEVENT_AUDIO_CONNECTION_RELEASED names no link, and `AudioFollowsCall`
  is violated in four steps. The demo is written for one link.
* A function that finds the queue full is logged and lost
  (`btstack_run_loop_freertos.c:286`); its sender is not told. `FunctionsInOrder`
  and `FunctionsAreCalled` are about functions the queue took.
* `HCI_EVENT_HARDWARE_ERROR` is to "just reboot stack" (`hci.c:3929`), but
  `hci_power_control_off` sets HCI_STATE_OFF and `hci_power_control_on` does not
  set another: `hci_run` does nothing any more. The connections stay in the
  list and their end is not reported; the model's state `off` is that one.
* From reading only, as the firmware never powers off: halting waits for a free
  outgoing buffer, which the rest of a fragmented packet keeps until the watchdog
  fires, and a second `hci_power_control(HCI_POWER_OFF)` removes that watchdog.
* `hfp_handle_hci_event` puts a context in AUDIO_CONNECTION_ESTABLISHED when a
  link comes up (`hfp.c:928`), whatever it was doing: a release of the service
  level connection under way (W2_DISCONNECT_RFCOMM, W4_RFCOMM_DISCONNECTED) is
  lost, and `ReleaseIsReported` in `HfpHandsFree` does not hold.
* A refused mSBC link falls back to CVSD with `link_setting` D1
  (`hfp.c:801`), which line 810 overwrites with `HFP_LINK_SETTINGS_NONE`; the
  next attempt reads the entry behind the table's last. The model has
  `NoSetting` there.
* `hfp_sco_establishment_active` is not cleared when its context is freed; the
  model calls it `dangling` and lets a new context lie at the same place.
* ATA and CNUM are sent without `ok_pending` (`hfp_hf.c:729`, `:1019`): their OK
  is taken by whatever command waits, so COMPLETE may report another's answer
  and a codec exchange go on before the gateway confirmed it.
* An ERROR resets the codecs, the request for audio and `ok_pending`
  (`hfp_reset_context_flags`), whichever command it answers.
* A link that comes up for a context with `negotiated_codec` 0 is reported to
  the application with codec 0, for which `sco_demo_set_codec` knows no mode.
* `btstack_assert(hfp_connection != NULL)` at `hfp.c:1029` is reached when a
  channel opens whose context was freed meanwhile.
* Called with handle 0xFFFF, the functions of `hfp_hf.c` find any context that
  has no connection yet (`EarlyCalls`).

Each of the passing runs of these modules excludes the situation by a constant
(`Packets`, `MaxUp`, `ScoOverHci`) or, for the menus, by `power`, and shows
that everything else holds.

## 5. The proofs

TLAPS proves, for every value of the constants that satisfies the named
assumptions:

| Theorem | Property |
|---|---|
| `BtRingBufferProofs!RingBufferTypeCorrect` | `RingBufferTypeOK` |
| `BtRingBufferProofs!RingBufferIsAQueue` | `ImplementsFifo` |
| `StdinProofs!ConsoleIsAnotherTask` | the console's specification implies the run loop's, so the theorems about the calls hold with it |
| `StdinProofs!TypeCorrect` | `StdinTypeOK` |
| `StdinProofs!InOrder` | `HandledInOrder` |
| `VhciTransportProofs!TypeCorrect` | `TypeOK` of the transport, ring buffer included |
| `VhciTransportProofs!MutualExclusion` | `MutexHeldWhereUsed` |
| `VhciTransportProofs!NoLostWakeup` | `SleepsOnlyWhenDrained` |
| `VhciTransportProofs!RoomWhileItFits`, `RoomForEvents` | `RoomForEveryPacket`, while packets fit with their length; with events as many as the storage is meant for |
| `VhciTransportProofs!InOrderWhileItFits`, `InOrderForEvents` | `PacketsInOrder`, under the same conditions |
| `VhciTransportProofs!ChannelWhileItFits`, `ChannelForEvents` | `ImplementsChannel`, under the same conditions |
| `RunLoopProofs!TypeCorrect` | `TypeOK` of the calls |
| `RunLoopProofs!NoLostItem` | `EveryItemHasAHandler` |
| `RunLoopProofs!NoLostCall` | `WaitsOnlyWhenDrained` |
| `RunLoopProofs!HandlersMayPost` | `HandlersRunUnlocked` |
| `RunLoopProofs!NoFunctionLost` | `FunctionsInOrder` |
| `RunLoopProofs!TimersTypeCorrect` | `TimersTypeOK` |
| `RunLoopProofs!ListInOrder` | `FirstIsDueFirst`, while no timer is started twice |
| `RunLoopProofs!OrderUntilAssertion` | `FirstIsDueFirst` until an assertion fails, whatever is started |
| `RunLoopProofs!HandlersRunOnTime` | `FiresOnTime`, whatever is started |
| `HciSendingProofs!PacketsArriveWhole` | `PacketsStayWhole` |
| `HciSendingProofs!CreditsBalance` | `CreditsAccounted` |
| `ScoAudioProofs!DriversFollowCall` | `AudioFollowsCall`, one link at a time |
| `ScoAudioProofs!CallsDoNotMix` | `AudioOfThisCallOnly`, one link at a time |
| `ScoAudioProofs!CallGoesOnSending` | `CallKeepsSending`, one link at a time |
| `ScoAudioProofs!OneCallNeverAsserts` | `NeverAsserts`, one link at a time |
| `ScoAudioProofs!PlaybackIsBuffered` | `PlaybackResumesBuffered`, one link at a time |
| `MenuNavigationProofs!TypeCorrect` | `TypeOK` of the menus |
| `MenuNavigationProofs!MemoryStaysSound` | `StorageSound` |
| `MenuNavigationProofs!ListsStayTrue` | `ListsAgreeWithStorage` |
| `MenuNavigationProofs!ActsOnWhatIsShown` | `MenuIsShown` |
| `MenuNavigationProofs!OnlyTheDeviceShownIsForgotten` | `ForgetsTheDeviceShown` |
| `HfpHandsFreeProofs!HandsFreeTypeCorrect` | `TypeOK` of the hands-free unit |
| `HfpHandsFreeProofs!HandleStaysLive` | `HandleIsLive` |
| `HfpHandsFreeProofs!AnswerStaysComing` | `AnswerIsComing` |
| `HfpHandsFreeProofs!CodecAgreed` | `MsbcOnlyIfAgreed` |

*The ring buffer.* The abstraction function reads `BytesAvailable` bytes from
`last_read_index` on, modulo the size. `RingBufferIsAQueue` shows that initial
states map to the empty queue and every call to the queue's call of the same
name. Its lemmas in `BtRingBufferProofs` say what the two copies of a write do
to the contents, wherever they wrap: a write that is accepted appends, one that
is refused changes nothing, a read takes from the front, and the number of bytes
is the distance of the indices, or the size when `full`. `RingBufferTypeOK` is
the inductive invariant; it says that the buffer is only ever `full` with equal
indices.

*The console.* `NothingLost` is inductive: what was typed is what was handled,
followed by what is still on its way: the character that was read if the handler
has not been given it, and those not read yet. Whether it has is told by the
flag together with the labels of both tasks (`Pending`). `StdinTypeOK` carries the
phases of the handshake: the flag is only set while the stdin task waits for it,
and the handler only clears one that is set. `ConsoleIsAnotherTask` needs no
invariant: each step of the console is one of the run loop's steps or leaves its
variables alone.

*The transport.* The assumptions (`NumbersAssumption`, `PacketsAssumption`) say
that the storage is not empty and smaller than 65536 bytes, as `uint16_t space`
requires, and that packets are not empty and have a length that fits in two
bytes. `BtRingBufferProofs` proves of the ring buffer's operators what the rest
needs: writes and reads keep the type, a read returns bytes of the alphabet, a
new buffer is empty. `TypeOK` is inductive as it stands, with one lengthy case,
`DeliverPacket`, because a length tag may claim any number.
`SleepsOnlyWhenDrained` is not inductive: whether the task may sleep now depends
on what both tasks were about to do. The invariant is `Wakeful`, the
conjunction of `MutexHeldWhereUsed`, of `NoLostPackets` (a packet in the ring
buffer is announced by the flag, or the run loop task is on its way to it, or
the controller task is about to set the flag) and of `NoLostWakeups` (a flag
that is set is announced by the notification, or the polling task has yet to
look at it, or the notifying one is about to). It holds because the flag is
cleared *before* the ring buffer is emptied; the other order breaks the case of
`ClearPacketsToDeliver`. Overflow and lost packets do not disturb it: these
theorems hold with bursts as well.

*Packets in the transport.* What is in the ring buffer is one sequence of bytes;
that it is a sequence of frames holds only while no length is stored without its
packet, which is what `vhci_desync` shows the code can do. The first three
theorems therefore carry the condition `[]FitsWithLength`: a packet that the
check of `host_recv_pkt_cb` lets through fits together with its length. TLC finds
it kept in `vhci`, and broken in the instance of `vhci_desync` until its
`EventBurst` is lowered to 1. The second three show that it need not be assumed:
with `EventBurst <= MAX_NR_HOST_EVENT_PACKETS`, no more events waiting than the
storage has been given room for, and the credits for ACL and SCO packets, it
holds at every check. `PacketSizesAssumption` says that the controller keeps to
the packet sizes the storage is computed from. The inductive invariant,
`Orderly`, is `Whole` (the ring buffer holds the frames of the accepted packets
not yet handled, followed by the length of one more while the controller task is
between its two writes; what was handled is what was accepted before them) and
`CreditsKept` (of each type there are no more of them than the flow control
allows, and one less while another is being received). To flatten a sequence of
frames would be an induction, which is out of TLAPS's reach; `Framing` instead
says that there are cuts between which the frames lie, and bounds the bytes
behind each cut by the room of the packets there. The bound is needed at every
cut and not only in total, because a packet shorter than its type's size gives
back less room than its credit was worth.

*The calls.* The assumption says that tasks and registrations are distinct from
`Nobody` and `NoRegistration` and the queue has a length of at least one. Types
need `HoldsRegistration` (a client has a registration in hand exactly while it
is inside `execute_on_main_thread`) and `AcceptedWerePosted`. `Served` is the
inductive invariant: the loop holds the mutex only while it looks at the list;
when it is past the list, or past the queue, and something is in there, the
notification is set or a client is about to set it; and every item has its
handler in the list, or the handler has not looked yet, or a client carries it.
`FunctionsInOrder` is inductive with the types, from three lemmas about
sequences (`CountOneMore`, `AppendToSecond`, `MoveHead`).

*The timers.* `OnTime` is the inductive invariant, while no assertion has failed:
the list is in order and holds each timer once (`FirstIsDueFirst`); a timeout is
the clock plus what is really left, modulo the clock (`CountedDown`); no timer is
later than the loop was busy (`NotLate`); the time the loop works with is no
older than its last wake-up (`TimeIsRecent`); and a sleeping loop waits no longer
than the first timer needs (`WaitsForFirst`). What the code computes from wrapped
numbers is related to it by one lemma about `Delta`: of two times whose distance
is below half the modulus it is that distance, with its sign, for every even
modulus. From it the insertion point of `add_timer` is the one the real times
give, which is where an ordered list stays ordered. Where that point is, is a
least element of a set of positions; its existence is proved with the library's
theorem that proper inclusion of finite sets is well-founded, since there is no
induction to prove it with. The order does not need `~ MayStartTwice`: a timer
started twice may spoil the list only in the step that also stops the program, so
`OrderUntilAssertion` and `HandlersRunOnTime` hold for every application, and
`ListInOrder` for one that keeps to the assertion.

*Packets whole.* `PacketsStayWhole` compares what the controller has begun with
what the transport holds, and says nothing of the time between. The invariant
`Whole` follows the packet: with more to send it keeps the buffer and is that of
a known connection (`BufferKept`); a fragment in the transport is of the packet
in the buffer, or the last of one that has left it (`FragmentOfBuffer`); and the
controller has begun of each link exactly what is in the buffer, if that
fragment is not still on its way (`ControllerAgrees`). `EndedLinks`, that a link
is not raised again while its end is unheard, is what makes the end of a
connection safe: the fragments it drops are of a link the controller no longer
has. A hardware error only needs that no link is left. The assumption is
`ConstantsAssumption`.

*Credits.* `Accounts` says the same sums as `CreditsAccounted`, of every link the
controller has rather than those nobody is about to announce or end, because
credits are counted while such an event waits. It needs that the host has no
count for a connection it does not know (`UnknownHasNone`) nor the controller for
a link that is down, and that what the host hears first of a new link is that it
is up (`Announced`): otherwise the first packet of a link would go uncounted. The
sums are over the events in the ring buffer; three lemmas count in a sequence
when an element is appended or taken. `CreditsBalance` uses `Whole` and
`Accounts` together.

*The audio path.* The theorems assume that one SCO link is up at a time
(`MaxUp = 1`), which is what the demo's one set of drivers and buffers is for.
`CallKept`, the conjunction of the three invariants and of `NeverAsserts`, is
inductive with a few types: it is `AudioFollowsCall` that shows a new call finds
the drivers stopped and no codec chosen, so that buffers are emptied and no timer
is added twice. With two links the assertion fails (section 4).

*The menus.* The stack is always the path from the home view to the view on top
in a tree of views (`Placed`), so a step stays, goes one view down or comes one
view back (`KindsOfSteps`). `Consistent` is the inductive invariant. To the
three invariants of the run it adds that a menu which is not on top is to be
drawn when it comes back (`RedrawnOnReturn`), that the index captured by the
menu of a device is one of memory (`EntryInMemory`), and that what the discovery
session found is offered once each and is not in memory (`OffersNewDevices`).
They need each other: `StorageSound` survives "Forget" because the captured
`forget` says that the device is not the active one, which `ListsAgreeWithStorage`
keeps true while the menu is on top, and pairing because what is offered is new.
The theorems hold beyond a full memory too, where the code's array ends: the
model's memory is then longer, and `power` says that the code's is not defined.

*The hands-free unit.* The four theorems have no condition beyond the types of
the constants: they hold for every set of features, codecs and refused commands,
any number of connections, calls and losses, and with `EarlyCalls`. The
operators of `HfpContext` go from outcome to outcome, and so do their lemmas. A
handler is `Quiet`: it sends nothing, takes no handle and does not begin to wait
for an answer. The run of a context has `Ran`: it waits for an answer after it
only if it did before or has sent a command, takes no handle, and keeps the
channel unless it frees the context; that is proved machine by machine and then
of `Run`. An outcome that is `Ready` for the
surroundings it is handled in keeps the invariant (`HandleKeeps`), and each
action is shown to be that. The inductive invariant adds to the two properties
`ChannelSound` (a context that waits, or has the handle of the connection, has a
channel; one with a channel is past the search for it; nothing is waited for
while the channel is opening) and `QuerySound` (while SDP is asked there is no
channel: the end of the query looks at no state, and would overwrite one that
waits for an answer).

`CodecAgreed` says of a link the gateway opens that the unit takes it for mSBC
only if the gateway does. Its inductive invariant `CodecInv` follows a codec from
the suggestion to the link (`Fit`, `Agreed`): of a suggestion, the flag that
answers it and the `AT+BCS` or `AT+BAC` on its way there is never more than one;
while the unit has mSBC as its codec, the gateway agreed to mSBC too, or an
`ERROR` or the confirmation of mSBC is still to come; before the service level
connection there is no suggestion, and the list of codecs goes out before the last
command of the set-up; a context without a channel knows no codec; and while the
gateway's request for a link is pending no suggestion is on its way. A change of
the context that answers no suggestion and takes no codec is `Mild` and keeps all
of this (`MildFits`); the commands of a run are followed by `Kept`. TLC checked
`CodecInv` on the instance of the run, with refusals and with `EarlyCalls`, before
it was proved.

*Only model-checked.* Liveness, everywhere: TLAPS does not prove it.
`ControllerNotOverrun` of `ScoAudio`, whose sum over the links is a fold, which
takes induction over data.

## 6. What is left out

* The branches of the controller's callbacks and of the run loop for interrupt
  context: the ESP32 calls them from a task.
* `esp_bt_controller_disable` is taken to return after a callback in progress;
  the library's source is not in the repository.
* Rounding of milliseconds to ticks; removal of data sources during a poll
  (nobody in this firmware does it); logging.
* The contents of audio, concealment of lost packets, gains. The mSBC encoder is
  empty between packets, because a packet takes exactly the frame that was
  encoded for it.
* Of HFP: the parser of lines, which delivers whole lines in order; voice
  recognition, the operator query, call indicators and custom commands, whose
  commands go the way of those modelled; the call of `rfcomm_disconnect` with an
  ACL handle at `hfp.c:970`, which normally names no channel; the removal of mSBC from the list of
  codecs when the controller has no eSCO; the gateway's role; further contexts
  than one. A gateway answers every command, one at a time.
* Of HCI: power off and sleep, which the firmware does not use; inquiry, pairing
  and security; a connection before it is complete; commands other than those of
  the power-up, HCI_Disconnect and host-completed packets, which take the same
  path and the same credit; LE and ISO. A channel opens in one step, and L2CAP's
  own signalling packets count as packets of a channel. SCO packets do not come
  into it: this build does not send them over HCI.
* In the menus, scroll positions and drawing. On the home view nothing but a
  ticker redraws, and this build never updates the tickers; KEY_A there acts on
  the audio session of a library that is missing. `storage.init` is
  commented out, so nothing is read from or written to flash. The discovery
  session's library is not in the repository: which devices it knows (`session`)
  and when it calls back is its own; the callback, `NewDevice`, is `PairMenu`'s.
  It is assumed to come between two handlers of `loop()`. From another task it
  could fall into `Menu::draw`, whose last statement would undo its
  `hasChanged`, and change the vector the drawing reads; `MenuIsShown` does not
  speak of that.
* Code of the components listed as `not_modelled`, each with its reason.

## 7. Plan

The order follows what the firmware cannot work without: its transport, its run
loop, the HCI layer above it, its audio path, its menus, the profile that opens
the audio link. These are done. What is left, in the order of its worth:

1. **`TlvStore`** (`btstack_tlv_esp32.c`): a crash between setting and committing
   a value; **`Debounce`** (`lib/EasyButton`): a bouncing pin against a wrapping
   clock, as the source of `MenuNavigation`'s keys.
2. **`HciSending` with power off**: halting with its watchdog, and the power-up
   after it.
3. **Data sources** as a list of their own, with removal by a handler.

New runs replace weaker ones, so that the project stays a set of distinct
questions.
