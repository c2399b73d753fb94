------------------------------- MODULE Stdin -------------------------------
(***************************************************************************)
(* Console input (lib/BTstack/port/esp32/btstack_stdin_esp32.c) beside the *)
(* other tasks that use the run loop.  A task blocks on the UART, leaves   *)
(* each character in a shared variable, sets a flag, notifies the run loop *)
(* and waits until the flag is cleared.  When the run loop polls its data  *)
(* sources it reads the flag, calls the handler with the character and     *)
(* clears the flag.  No lock protects the two variables, and the run loop  *)
(* task has one notification for this task and for all others: the loop is *)
(* the one of RunLoopCalls, with its clients, handlers and functions.      *)
(***************************************************************************)
EXTENDS RunLoopCalls

CONSTANTS
  Chars,  \* characters of the console
  Nul,    \* the character that a static variable starts with
  Input   \* what the user may type

ASSUME StdinAssumption == Nul \in Chars /\ Input \in Seq(Chars)

VARIABLES
  uart,       \* characters typed and not read
  character,  \* stdin_character
  received,   \* stdin_character_received
  processing, \* the handler was called and the flag is not yet cleared
  task,       \* next statement of the stdin task
  typed,      \* all characters typed
  handled     \* characters the handler was called with

stdinVars   == <<uart, character, received, processing, task, typed, handled>>
consoleVars == <<vars, stdinVars>>

StdinInit ==
  /\ uart = <<>> /\ typed = <<>> /\ handled = <<>>
  /\ character = Nul /\ received = FALSE /\ processing = FALSE
  /\ task = "read"

Type ==
  /\ Len(typed) < Len(Input)
  /\ LET c == Input[Len(typed) + 1]
     IN typed' = Append(typed, c) /\ uart' = Append(uart, c)
  /\ UNCHANGED <<vars, character, received, processing, task, handled>>

-----------------------------------------------------------------------------
(* btstack_stdin_task. *)

ReadByte ==
  /\ task = "read" /\ uart # <<>>
  /\ character' = Head(uart)
  /\ uart' = Tail(uart)
  /\ task' = "flag"
  /\ UNCHANGED <<vars, received, processing, typed, handled>>

SetReceived_NoTrigger ==
  /\ task = "flag"
  /\ received' = TRUE
  /\ task' = "wait"
  /\ UNCHANGED <<vars, uart, character, processing, typed, handled>>
SetReceived ==
  /\ task = "flag"
  /\ received' = TRUE
  /\ task' = "trigger"
  /\ UNCHANGED <<vars, uart, character, processing, typed, handled>>

RequestPoll ==
  /\ task = "trigger"
  /\ OtherTaskTriggers
  /\ task' = "wait"
  /\ UNCHANGED <<uart, character, received, processing, typed, handled>>

(* The loop of vTaskDelay calls ends when the character was processed. *)
InputProcessed_NoWait ==
  /\ task = "wait"
  /\ task' = "read"
  /\ UNCHANGED <<vars, uart, character, received, processing, typed, handled>>
InputProcessed ==
  /\ task = "wait" /\ ~ received
  /\ task' = "read"
  /\ UNCHANGED <<vars, uart, character, received, processing, typed, handled>>

StdinTask == ReadByte \/ SetReceived \/ RequestPoll \/ InputProcessed

-----------------------------------------------------------------------------
(* btstack_stdin_process, the data source that the loop polls. *)

NothingReceived ==
  /\ PollDataSources /\ ~ received
  /\ UNCHANGED stdinVars

CallHandler ==
  /\ pc = "sources" /\ received /\ ~ processing
  /\ handled' = Append(handled, character)
  /\ processing' = TRUE
  /\ UNCHANGED <<vars, uart, character, received, task, typed>>

ClearReceived ==
  /\ PollDataSources /\ processing
  /\ received' = FALSE
  /\ processing' = FALSE
  /\ UNCHANGED <<uart, character, task, typed, handled>>

StdinProcess == NothingReceived \/ CallHandler \/ ClearReceived

-----------------------------------------------------------------------------
(* The rest of the loop and its clients leave the console alone. *)
Elsewhere(A) == A /\ UNCHANGED stdinVars

ConsoleNext ==
  \/ Type \/ StdinTask
  \/ StdinProcess
  \/ Elsewhere(LoopProceeds) \/ Elsewhere(LoopMay)
  \/ \E c \in Clients : Elsewhere(Client(c))

ConsoleInit == Init /\ StdinInit

ConsoleSpec == ConsoleInit /\ [][ConsoleNext]_consoleVars

(* Every task is scheduled and a blocked xSemaphoreTake is served in the   *)
(* end; nobody has to type or to call, and no timer has to be registered.  *)
ConsoleFairness ==
  /\ WF_consoleVars(StdinTask)
  /\ WF_consoleVars(StdinProcess \/ Elsewhere(LoopProceeds))
  /\ SF_consoleVars(Elsewhere(LoopTakesMutex))
  /\ \A c \in Clients :
       /\ WF_consoleVars(Elsewhere(ClientAdds(c) \/ Trigger(c)))
       /\ SF_consoleVars(Elsewhere(ClientTakesMutex(c)))

ConsoleFairSpec == ConsoleSpec /\ ConsoleFairness

-----------------------------------------------------------------------------
(* Types; the flag is only set while the stdin task waits for it to be     *)
(* cleared, and stays set while the handler runs.                          *)
StdinTypeOK ==
  /\ uart \in Seq(Chars) /\ typed \in Seq(Chars) /\ handled \in Seq(Chars)
  /\ character \in Chars
  /\ received \in BOOLEAN /\ processing \in BOOLEAN
  /\ task \in {"read", "flag", "trigger", "wait"}
  /\ processing => received /\ pc = "sources"
  /\ received => task \in {"trigger", "wait"}

(* Every character reaches the handler once, unchanged and in the order    *)
(* typed, although two tasks share one variable without a lock (the        *)
(* handshake of btstack_stdin_task and btstack_stdin_process).             *)
HandledInOrder ==
  /\ IsPrefix(handled, typed)
  /\ Len(typed) - Len(handled) <= Len(uart) + 1

(* What is typed is handled, without the help of a timer and whatever else *)
(* the loop is notified of, unless the loop exits.                         *)
TypedIsHandled ==
  \A n \in 1 .. Len(Input) :
    Len(typed) >= n ~> Len(handled) >= n \/ pc = "done"
=============================================================================
