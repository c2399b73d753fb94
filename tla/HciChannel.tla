----------------------------- MODULE HciChannel -----------------------------
(***************************************************************************)
(* What the VHCI transport promises the host stack: packets the controller *)
(* hands over are queued or dropped whole, the stack is given the queued   *)
(* ones one at a time, oldest first and unchanged, and opening the         *)
(* transport starts from an empty queue.                                   *)
(***************************************************************************)
EXTENDS Sequences

CONSTANTS Packets

VARIABLES
  queue,    \* packets waiting for the stack
  latest    \* the packet the stack was given last, <<>> before the first

ChannelInit == queue = <<>> /\ latest = <<>>

Enqueue(p) == queue' = Append(queue, p) /\ UNCHANGED latest

Deliver ==
  /\ queue # <<>>
  /\ latest' = Head(queue)
  /\ queue' = Tail(queue)

Reopen == queue' = <<>> /\ latest' = <<>>

ChannelNext == (\E p \in Packets : Enqueue(p)) \/ Deliver \/ Reopen

ChannelSpec == ChannelInit /\ [][ChannelNext]_<<queue, latest>>
=============================================================================
