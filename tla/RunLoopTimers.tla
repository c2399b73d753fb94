---------------------------- MODULE RunLoopTimers ----------------------------
(***************************************************************************)
(* The timers of BTstack's run loop: the sorted list of                    *)
(* lib/BTstack/src/btstack_run_loop.c and the loop of                      *)
(* platform/freertos/btstack_run_loop_freertos.c that fires them and       *)
(* sleeps until the first one is due.                                      *)
(*                                                                         *)
(* Only the run loop task touches timers.  Data sources, callbacks and     *)
(* timer handlers are the application: they start timers that are not      *)
(* registered and remove timers, as often as they like.  Milliseconds are  *)
(* counted modulo ClockModulus (2^32 in the code).  The loop works for at  *)
(* most MaxBusy milliseconds between two sleeps, and FreeRTOS runs it      *)
(* again when its wait ends.                                               *)
(***************************************************************************)
EXTENDS Integers, SequencesExt

CONSTANTS
  Timers,         \* btstack_timer_source_t objects
  MaxDelay,       \* bound: longest delay a timer is started with
  MaxBusy,        \* bound: milliseconds from waking up to sleeping again
  ClockModulus,   \* values of the millisecond clock
  MayStartTwice   \* whether handlers start timers that are registered

ASSUME RunLoopTimersAssumption ==
  /\ MaxDelay \in Nat /\ MaxBusy \in Nat
  /\ ClockModulus \in Nat /\ ClockModulus % 2 = 0
  /\ MayStartTwice \in BOOLEAN
  /\ 2 * (MaxDelay + 2 + 2 * MaxBusy) < ClockModulus

VARIABLES
  clock,    \* btstack_run_loop_freertos_get_time_ms
  timers,   \* btstack_run_loop_base_timers
  timeout,  \* timeout of each timer source
  phase,    \* what the run loop task does: "work" (data sources and calls),
            \* "timers", "handler", "asleep", "assert", "cyclic"
  now,      \* local variable of btstack_run_loop_freertos_execute
  sleep,    \* milliseconds of the wait that are left, -1 when it has no end
  busy,     \* milliseconds since the loop woke up
  left      \* milliseconds until each timer is due, without wrap-around
            \* (what nobody reads any more is set to 0: timeout and left of a
            \* timer that is not registered, now and busy of a sleeping loop)

timerVars == <<clock, timers, timeout, phase, now, sleep, busy, left>>

Time == 0 .. ClockModulus - 1
Registered == ToSet(timers)

(* btstack_time_delta: the signed difference of two points in time. *)
Delta_Unsigned(a, b) == a - b
Delta(a, b) ==
  LET d == (a - b) % ClockModulus
  IN  IF d < ClockModulus \div 2 THEN d ELSE d - ClockModulus

TimersInit ==
  /\ clock = 0 /\ now = 0 /\ timers = <<>>
  /\ timeout = [t \in Timers |-> 0]
  /\ left = [t \in Timers |-> 0]
  /\ phase = "work" /\ sleep = -1 /\ busy = 0

-----------------------------------------------------------------------------
(* What handlers do with timers. *)

ApplicationRuns == phase \in {"work", "handler"}

(* btstack_run_loop_set_timer. *)
SetTimer_NoExtra(t, delay) ==
  /\ timeout' = [timeout EXCEPT ![t] = (clock + delay) % ClockModulus]
  /\ left' = [left EXCEPT ![t] = delay + 1]
SetTimer(t, delay) ==
  /\ timeout' = [timeout EXCEPT ![t] = (clock + delay + 1) % ClockModulus]
  /\ left' = [left EXCEPT ![t] = delay + 1]

(* The place before the first timer that is due after t. *)
InsertionPoint_First(t) == 1
InsertionPoint(t) ==
  LET later == SelectInSeq(timers, LAMBDA u : Delta(timeout'[t], timeout'[u]) < 0)
  IN  IF later = 0 THEN Len(timers) + 1 ELSE later

(* btstack_run_loop_add_timer.  The walk to the place of the timer raises  *)
(* an assertion when it meets the timer itself; a registered timer that it *)
(* does not meet is linked in front of its own predecessor.                *)
AddTimer(t) ==
  LET place == InsertionPoint(t)
      met == \E i \in 1 .. Len(timers) : i <= place /\ timers[i] = t
  IN  IF t \in Registered
        THEN /\ phase' = IF met THEN "assert" ELSE "cyclic"
             /\ UNCHANGED timers
        ELSE /\ timers' = InsertAt(timers, place, t)
             /\ UNCHANGED phase

(* Set and add: how the stack and the demo start a timer. *)
StartTimer(t) ==
  /\ ApplicationRuns
  /\ MayStartTwice \/ t \notin Registered
  /\ \E delay \in 0 .. MaxDelay : SetTimer(t, delay)
  /\ AddTimer(t)
  /\ UNCHANGED <<clock, now, sleep, busy>>

(* A timer leaves the list. *)
Unlinked(t) ==
  /\ timers' = RemoveFirst(timers, t)
  /\ timeout' = [timeout EXCEPT ![t] = 0]
  /\ left' = [left EXCEPT ![t] = 0]

RemoveTimer(t) ==
  /\ ApplicationRuns
  /\ t \in Registered
  /\ Unlinked(t)
  /\ UNCHANGED <<clock, phase, now, sleep, busy>>

-----------------------------------------------------------------------------
(* btstack_run_loop_freertos_execute. *)

(* Data sources and calls are done; the time is read once. *)
ReadTime ==
  /\ phase = "work"
  /\ now' = clock
  /\ phase' = "timers"
  /\ UNCHANGED <<clock, timers, timeout, sleep, busy, left>>

TimerIsDue_Strict == timers # <<>> /\ Delta(timeout[Head(timers)], now) < 0
TimerIsDue == timers # <<>> /\ Delta(timeout[Head(timers)], now) <= 0

(* btstack_run_loop_base_process_timers: the timer leaves the list before  *)
(* its handler runs, so that the handler may start it again.               *)
FireTimer ==
  /\ phase = "timers"
  /\ TimerIsDue
  /\ Unlinked(Head(timers))
  /\ phase' = "handler"
  /\ UNCHANGED <<clock, now, sleep, busy>>

TimerHandlerReturns ==
  /\ phase = "handler"
  /\ phase' = "timers"
  /\ UNCHANGED <<clock, timers, timeout, now, sleep, busy, left>>

(* btstack_run_loop_base_get_time_until_timeout. *)
TimeUntilTimeout_Last ==
  IF timers = <<>> THEN -1 ELSE Delta(timeout[Last(timers)], now)
TimeUntilTimeout ==
  IF timers = <<>> THEN -1
  ELSE IF Delta(timeout[Head(timers)], now) < 0 THEN 0
       ELSE Delta(timeout[Head(timers)], now)

(* The wait is as long as the first timer needed when the time was read. *)
GoToSleep ==
  /\ phase = "timers"
  /\ ~ TimerIsDue
  /\ sleep' = TimeUntilTimeout
  /\ phase' = "asleep"
  /\ now' = 0 /\ busy' = 0
  /\ UNCHANGED <<clock, timers, timeout, left>>

(* The wait ends with its timeout, or with a notification at any time. *)
WakeUp ==
  /\ phase = "asleep"
  /\ phase' = "work"
  /\ sleep' = -1
  /\ UNCHANGED <<clock, timers, timeout, now, busy, left>>

TimedOut == phase = "asleep" /\ sleep = 0

(* A millisecond passes. *)
Tick ==
  /\ phase \in {"work", "timers", "handler", "asleep"}
  /\ IF phase = "asleep" THEN sleep # 0 ELSE busy < MaxBusy
  /\ clock' = (clock + 1) % ClockModulus
  /\ left' = [t \in Timers |-> IF t \in Registered THEN left[t] - 1 ELSE left[t]]
  /\ busy' = IF phase = "asleep" THEN busy ELSE busy + 1
  /\ sleep' = IF phase = "asleep" /\ sleep > 0 THEN sleep - 1 ELSE sleep
  /\ UNCHANGED <<timers, timeout, phase, now>>

-----------------------------------------------------------------------------
ProcessTimers == ReadTime \/ FireTimer \/ TimerHandlerReturns \/ GoToSleep

TimersNext ==
  \/ \E t \in Timers : StartTimer(t) \/ RemoveTimer(t)
  \/ ProcessTimers
  \/ WakeUp
  \/ Tick

TimersSpec == TimersInit /\ [][TimersNext]_timerVars

(* The clock runs, the run loop task is scheduled, and FreeRTOS ends a     *)
(* wait that timed out.  Notifications are not promised.                   *)
TimersFairness ==
  /\ WF_timerVars(Tick)
  /\ WF_timerVars(ProcessTimers)
  /\ WF_timerVars(WakeUp /\ TimedOut)

TimersFairSpec == TimersSpec /\ TimersFairness

-----------------------------------------------------------------------------
TimersTypeOK ==
  /\ clock \in Time /\ now \in Time
  /\ timers \in Seq(Timers)
  /\ timeout \in [Timers -> Time]
  /\ phase \in {"work", "timers", "handler", "asleep", "assert", "cyclic"}
  /\ sleep \in -1 .. MaxDelay + 1 + MaxBusy
  /\ busy \in 0 .. MaxBusy
  /\ left \in [Timers -> - 2 * MaxBusy .. MaxDelay + 1]

(* The list is in the order in which timers are really due and holds each  *)
(* timer once, whatever handlers start and remove and wherever the 32 bit  *)
(* clock wraps around (add_timer, remove_timer).                           *)
FirstIsDueFirst ==
  \A i, j \in 1 .. Len(timers) :
    i < j => timers[i] # timers[j] /\ left[timers[i]] <= left[timers[j]]

(* A handler only runs when the whole delay of its timer has passed, and   *)
(* no other timer was due before it (process_timers).  It is never later   *)
(* than two working phases of the loop, although the wait is computed from *)
(* a time read before the handlers ran (execute, get_time_until_timeout).  *)
FiresOnTime ==
  [][FireTimer => /\ left[Head(timers)] \in - 2 * MaxBusy .. 0
                  /\ \A t \in Registered : left[Head(timers)] <= left[t]]_timerVars

(* A timer that is started fires, unless a handler removes it. *)
TimerFires ==
  \A t \in Timers : t \in Registered ~> t \notin Registered

(* Handlers that start their own timer again, with any delay, never keep   *)
(* the loop from its data sources: process_timers ends.                    *)
LoopReachesDataSources == phase = "timers" ~> phase = "asleep"

(* The comment in add_timer: adding a timer that is registered raises the  *)
(* assertion instead of corrupting the list.                               *)
DoubleStartIsCaught == phase # "cyclic"
=============================================================================
