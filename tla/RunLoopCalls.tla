----------------------------- MODULE RunLoopCalls -----------------------------
(***************************************************************************)
(* How other tasks get code to run on the run loop task: the callback list *)
(* behind btstack_run_loop_execute_on_main_thread, the deprecated function *)
(* queue behind btstack_run_loop_freertos_execute_code_on_main_thread, and *)
(* the request to exit (platform/freertos/btstack_run_loop_freertos.c).    *)
(*                                                                         *)
(* A client task puts an item where the handler of a registration finds it *)
(* and then asks for the handler; the handler takes all items that are     *)
(* there and may ask for a handler itself.  Functions are numbered in the  *)
(* order in which they enter the queue.                                    *)
(***************************************************************************)
EXTENDS Integers, SequencesExt

CONSTANTS
  Loop, Clients,          \* the run loop task and the other tasks
  Nobody,                 \* holder of a mutex that is free
  Registrations,          \* btstack_context_callback_registration_t objects
  NoRegistration,         \* NULL
  RUN_LOOP_QUEUE_LENGTH,  \* length of the function queue
  MaxPosts,               \* bound: calls of the clients together
  MayExit                 \* whether a client asks the loop to exit

ASSUME RunLoopCallsAssumption ==
  /\ Loop \notin Clients /\ Nobody \notin Clients /\ Loop # Nobody
  /\ NoRegistration \notin Registrations
  /\ RUN_LOOP_QUEUE_LENGTH \in Nat \ {0}
  /\ MaxPosts \in Nat
  /\ MayExit \in BOOLEAN

VARIABLES
  callbacks,  \* btstack_run_loop_base_callbacks
  mutex,      \* btstack_run_loop_callbacks_mutex: the task that holds it
  queue,      \* btstack_run_loop_queue
  notified,   \* notification bits of the run loop task
  exit,       \* run_loop_exit_requested
  pc,         \* next statement of the run loop task
  running,    \* registration whose handler runs
  at,         \* next statement of each client
  wants,      \* registration a client is asking for
  items,      \* registrations with an item that no handler has taken
  posts,      \* calls made so far
  accepted,   \* functions that entered the queue
  executed    \* functions that were called, in order

vars == <<callbacks, mutex, queue, notified, exit, pc, running, at, wants,
          items, posts, accepted, executed>>

loopVars   == <<pc, running>>
clientVars == <<at, wants, posts>>
callVars   == <<callbacks, mutex, items>>
functionVars == <<queue, accepted, executed>>

Init ==
  /\ callbacks = <<>> /\ mutex = Nobody /\ queue = <<>>
  /\ notified = FALSE /\ exit = FALSE
  /\ pc = "begin" /\ running = NoRegistration
  /\ at = [c \in Clients |-> "idle"]
  /\ wants = [c \in Clients |-> NoRegistration]
  /\ items = {} /\ posts = 0 /\ accepted = 0 /\ executed = <<>>

-----------------------------------------------------------------------------
(* btstack_linked_list_add_tail: a registration that is in the list stays  *)
(* where it is.                                                            *)
AddCallback_NotWhileRunning(r) ==
  callbacks' = IF r \in ToSet(callbacks) \cup {running}
                 THEN callbacks ELSE Append(callbacks, r)
AddCallback(r) ==
  callbacks' = IF r \in ToSet(callbacks) THEN callbacks ELSE Append(callbacks, r)

(* Clients. *)

ClientMoves(c, from, to) ==
  /\ at[c] = from /\ at' = [at EXCEPT ![c] = to]
  /\ UNCHANGED <<exit, loopVars>>

(* An item is queued for r and execute_on_main_thread called. *)
AskForCallback(c) ==
  /\ ClientMoves(c, "idle", "take") /\ posts < MaxPosts
  /\ \E r \in Registrations :
       /\ items' = items \cup {r}
       /\ wants' = [wants EXCEPT ![c] = r]
  /\ posts' = posts + 1
  /\ UNCHANGED <<callbacks, mutex, functionVars, notified>>

ClientTakesMutex(c) ==
  /\ ClientMoves(c, "take", "add")
  /\ mutex = Nobody /\ mutex' = c
  /\ UNCHANGED <<callbacks, items, functionVars, notified, wants, posts>>

ClientAdds(c) ==
  /\ ClientMoves(c, "add", "trigger")
  /\ AddCallback(wants[c])
  /\ mutex' = Nobody
  /\ wants' = [wants EXCEPT ![c] = NoRegistration]
  /\ UNCHANGED <<items, functionVars, notified, posts>>

Trigger_Lost(c) ==
  /\ ClientMoves(c, "trigger", "idle")
  /\ UNCHANGED <<callVars, functionVars, notified, wants, posts>>
Trigger(c) ==
  /\ ClientMoves(c, "trigger", "idle")
  /\ notified' = TRUE
  /\ UNCHANGED <<callVars, functionVars, wants, posts>>

(* xQueueSendToBack without waiting: a full queue loses the function. *)
Send_ToFront(f) == queue' = <<f>> \o queue
Send(f) == queue' = Append(queue, f)

QueueHasRoom == Len(queue) < RUN_LOOP_QUEUE_LENGTH

ExecuteCodeOnMainThread(c) ==
  /\ ClientMoves(c, "idle", "trigger") /\ posts < MaxPosts
  /\ IF QueueHasRoom
       THEN Send(accepted + 1) /\ accepted' = accepted + 1
       ELSE UNCHANGED <<queue, accepted>>
  /\ posts' = posts + 1
  /\ UNCHANGED <<callVars, executed, notified, wants>>

TriggerExit(c) ==
  /\ MayExit
  /\ at[c] = "idle" /\ ~ exit
  /\ exit' = TRUE
  /\ UNCHANGED <<callVars, functionVars, notified, loopVars, clientVars>>

Client(c) ==
  \/ AskForCallback(c) \/ ClientTakesMutex(c) \/ ClientAdds(c) \/ Trigger(c)
  \/ ExecuteCodeOnMainThread(c) \/ TriggerExit(c)

-----------------------------------------------------------------------------
(* btstack_run_loop_freertos_execute. *)

LoopMoves(from, to) == pc = from /\ pc' = to /\ UNCHANGED clientVars

Begin ==
  /\ LoopMoves("begin", "sources")
  /\ exit' = FALSE
  /\ UNCHANGED <<callVars, functionVars, notified, running>>

(* Data sources are polled; what one of them does is in its own module     *)
(* (Stdin).                                                                *)
PollDataSources ==
  /\ LoopMoves("sources", "take")
  /\ UNCHANGED <<callVars, functionVars, notified, exit, running>>

LoopTakesMutex ==
  /\ LoopMoves("take", "pop")
  /\ mutex = Nobody /\ mutex' = Loop
  /\ UNCHANGED <<callbacks, items, functionVars, notified, exit, running>>

(* The first callback leaves the list and the mutex is given back before   *)
(* the handler is called.                                                  *)
PopCallback_HoldsMutex ==
  /\ LoopMoves("pop", "handler") /\ callbacks # <<>>
  /\ callbacks' = Tail(callbacks)
  /\ running' = Head(callbacks)
  /\ UNCHANGED <<mutex, items, functionVars, notified, exit>>
PopCallback ==
  /\ LoopMoves("pop", "handler") /\ callbacks # <<>>
  /\ callbacks' = Tail(callbacks)
  /\ running' = Head(callbacks)
  /\ mutex' = Nobody
  /\ UNCHANGED <<items, functionVars, notified, exit>>

NoCallback ==
  /\ LoopMoves("pop", "functions") /\ callbacks = <<>>
  /\ mutex' = Nobody
  /\ UNCHANGED <<callbacks, items, functionVars, notified, exit, running>>

(* The handler takes the items of its registration. *)
HandlerRuns ==
  /\ LoopMoves("handler", "handled")
  /\ items' = items \ {running}
  /\ UNCHANGED <<callbacks, mutex, functionVars, notified, exit, running>>

(* It may call execute_on_main_thread for a registration, its own too. *)
HandlerAsksAgain ==
  /\ pc = "handled" /\ posts < MaxPosts
  /\ mutex = Nobody
  /\ \E r \in Registrations : AddCallback(r) /\ items' = items \cup {r}
  /\ notified' = TRUE
  /\ posts' = posts + 1
  /\ UNCHANGED <<mutex, functionVars, exit, loopVars, at, wants>>

(* It may ask the loop to exit. *)
HandlerTriggersExit ==
  /\ pc = "handled" /\ MayExit
  /\ ~ exit
  /\ exit' = TRUE
  /\ UNCHANGED <<callVars, functionVars, notified, loopVars, clientVars>>

HandlerReturns ==
  /\ LoopMoves("handled", "take")
  /\ running' = NoRegistration
  /\ UNCHANGED <<callVars, functionVars, notified, exit>>

(* Functions are received and called until the queue is empty. *)
CallFunction_Once ==
  /\ LoopMoves("functions", "wait") /\ queue # <<>>
  /\ queue' = Tail(queue)
  /\ executed' = Append(executed, Head(queue))
  /\ UNCHANGED <<callVars, accepted, notified, exit, running>>
CallFunction ==
  /\ LoopMoves("functions", "functions") /\ queue # <<>>
  /\ queue' = Tail(queue)
  /\ executed' = Append(executed, Head(queue))
  /\ UNCHANGED <<callVars, accepted, notified, exit, running>>

(* Timers are processed and the exit flag is read. *)
CheckExit ==
  /\ LoopMoves("functions", IF exit THEN "done" ELSE "wait") /\ queue = <<>>
  /\ UNCHANGED <<callVars, functionVars, notified, exit, running>>

(* xTaskNotifyWait returns when a notification is pending, and clears it. *)
Wait ==
  /\ LoopMoves("wait", "sources") /\ notified
  /\ notified' = FALSE
  /\ UNCHANGED <<callVars, functionVars, exit, running>>

(* A timer of the application ends the wait. *)
TimerDue ==
  /\ LoopMoves("wait", "sources") /\ ~ notified
  /\ UNCHANGED <<callVars, functionVars, notified, exit, running>>

LoopProceeds ==
  \/ Begin \/ LoopTakesMutex \/ PopCallback \/ NoCallback
  \/ HandlerRuns \/ HandlerReturns \/ CallFunction \/ CheckExit \/ Wait

LoopStep == PollDataSources \/ LoopProceeds

(* What can happen on the run loop task and does not have to. *)
LoopMay == HandlerAsksAgain \/ HandlerTriggersExit \/ TimerDue

(* A task that leaves its work with a data source notifies the loop.       *)
OtherTaskTriggers ==
  /\ notified' = TRUE
  /\ UNCHANGED <<callVars, functionVars, exit, loopVars, clientVars>>

Next ==
  \/ \E c \in Clients : Client(c)
  \/ LoopStep \/ LoopMay
  \/ OtherTaskTriggers

Spec == Init /\ [][Next]_vars

(* Every task is scheduled and a blocked xSemaphoreTake is served in the   *)
(* end.  No task has to call anything and no timer has to be registered.   *)
Fairness ==
  /\ WF_vars(LoopStep) /\ SF_vars(LoopTakesMutex)
  /\ \A c \in Clients :
       /\ WF_vars(ClientAdds(c) \/ Trigger(c))
       /\ SF_vars(ClientTakesMutex(c))

FairSpec == Spec /\ Fairness

-----------------------------------------------------------------------------
TypeOK ==
  /\ callbacks \in Seq(Registrations)
  /\ mutex \in Clients \cup {Loop, Nobody}
  /\ queue \in Seq(Nat) /\ Len(queue) <= RUN_LOOP_QUEUE_LENGTH
  /\ notified \in BOOLEAN /\ exit \in BOOLEAN
  /\ pc \in {"begin", "sources", "take", "pop", "handler", "handled",
             "functions", "wait", "done"}
  /\ running \in Registrations \cup {NoRegistration}
  /\ at \in [Clients -> {"idle", "take", "add", "trigger"}]
  /\ wants \in [Clients -> Registrations \cup {NoRegistration}]
  /\ items \subseteq Registrations
  /\ posts \in 0 .. MaxPosts
  /\ accepted \in 0 .. MaxPosts
  /\ executed \in Seq(Nat)

(* An item without a handler on its way has a registration in the list, a  *)
(* handler that has not looked yet, or a client that is still in its call  *)
(* (execute_on_main_thread, execute).                                      *)
EveryItemHasAHandler ==
  \A r \in items :
    \/ r \in ToSet(callbacks)
    \/ pc = "handler" /\ running = r
    \/ \E c \in Clients : wants[c] = r

(* The loop only waits without a pending notification when there is        *)
(* nothing to call, or a client is about to notify it.                     *)
WaitsOnlyWhenDrained ==
  pc = "wait" /\ ~ notified /\ (\A c \in Clients : at[c] # "trigger")
    => callbacks = <<>> /\ queue = <<>>

(* No handler runs while the run loop task holds the mutex: handlers may   *)
(* call execute_on_main_thread, and the mutex is not recursive.            *)
HandlersRunUnlocked == pc \in {"handler", "handled"} => mutex # Loop

(* Functions that fit in the queue are called once each and in the order   *)
(* in which they entered it (execute_code_on_main_thread).                 *)
FunctionsInOrder == executed \o queue = [i \in 1 .. accepted |-> i]

(* The promise of btstack_run_loop.h: the handler runs at least once after *)
(* the last item was added, unless the loop exits.                         *)
ItemsAreHandled ==
  \A r \in Registrations : r \in items ~> r \notin items \/ pc = "done"

(* Functions that entered the queue are called. *)
FunctionsAreCalled ==
  \A i \in 1 .. MaxPosts : i <= accepted ~> i <= Len(executed) \/ pc = "done"

(* "exit triggered by btstack_run_loop_trigger_exit (main thread or other  *)
(* thread)": a loop that is asked to exit does.                            *)
ExitEndsTheLoop == exit ~> pc = "done"
=============================================================================
