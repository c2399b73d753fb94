----------------------------- MODULE RunLoopProofs -----------------------------
(***************************************************************************)
(* Proofs about BTstack's run loop.  The calls other tasks make to it: for *)
(* any number of clients, registrations and calls and any length of the    *)
(* queue.  Its timers: for any number of timers, any delays and a clock of *)
(* any even range that is longer than twice what the timers span.          *)
(***************************************************************************)
EXTENDS RunLoopCalls, RunLoopTimers, FiniteSetTheorems, SequenceTheorems, TLAPS

-----------------------------------------------------------------------------
(* Calls from other tasks.                                                 *)

(* A client has a registration in hand exactly while it is in its call.    *)
HoldsRegistration ==
  \A c \in Clients : IF at[c] \in {"take", "add"}
                       THEN wants[c] \in Registrations
                       ELSE wants[c] = NoRegistration

(* Every function that was accepted was a call. *)
AcceptedWerePosted == accepted <= posts

Typed == TypeOK /\ HoldsRegistration /\ AcceptedWerePosted

LEMMA TypedInitially == Init => Typed
<1> SUFFICES ASSUME Init PROVE Typed
  OBVIOUS
<1>1. /\ callbacks \in Seq(Registrations) /\ executed \in Seq(Nat)
      /\ queue \in Seq(Nat) /\ Len(queue) = 0
  BY DEF Init
<1>2. 0 <= RUN_LOOP_QUEUE_LENGTH /\ 0 \in 0 .. MaxPosts
  BY RunLoopCallsAssumption
<1>3. HoldsRegistration /\ AcceptedWerePosted
  BY DEF Init, HoldsRegistration, AcceptedWerePosted
<1> QED
  BY <1>1, <1>2, <1>3 DEF Init, Typed, TypeOK

(* What taking the first element leaves of the set of elements. *)
LEMMA HeadOrTail ==
  ASSUME NEW S, NEW s \in Seq(S), s # <<>>
  PROVE  \A x \in ToSet(s) : x = Head(s) \/ x \in ToSet(Tail(s))
<1>1. TAKE x \in ToSet(s)
<1>2. PICK i \in 1 .. Len(s) : x = s[i]
  BY DEF ToSet
<1>3. CASE i = 1
  BY <1>2, <1>3
<1>4. CASE i > 1
  <2>1. Len(Tail(s)) = Len(s) - 1
    OBVIOUS
  <2>2. i-1 \in 1 .. Len(Tail(s))
    BY <1>4, <2>1
  <2>3. \A j \in 1 .. Len(Tail(s)) : Tail(s)[j] = s[j+1]
    BY HeadTailProperties, Zenon
  <2>4. Tail(s)[i-1] = s[i]
    <3>1. Tail(s)[i-1] = s[(i-1)+1]
      BY <2>2, <2>3, Zenon
    <3>2. (i-1)+1 = i
      OBVIOUS
    <3> QED
      BY <3>1, <3>2, Zenon
  <2>5. Tail(s) \in Seq(S) /\ DOMAIN Tail(s) = 1 .. Len(Tail(s))
    OBVIOUS
  <2> QED
    BY <1>2, <2>2, <2>4, <2>5, Zenon DEF ToSet
<1> QED
  BY <1>3, <1>4

(* What adding does to the list. *)
LEMMA AddCallbackType ==
  ASSUME NEW r \in Registrations, callbacks \in Seq(Registrations),
         AddCallback(r)
  PROVE  /\ callbacks' \in Seq(Registrations)
         /\ ToSet(callbacks') = ToSet(callbacks) \cup {r}
BY DEF AddCallback, ToSet

LEMMA TypedInductive == Typed /\ [Next]_vars => Typed'
<1> SUFFICES ASSUME Typed, [Next]_vars PROVE Typed'
  OBVIOUS
<1> USE RunLoopCallsAssumption DEF Typed, HoldsRegistration, AcceptedWerePosted
<1>1. ASSUME NEW c \in Clients, AskForCallback(c) PROVE Typed'
  BY <1>1 DEF TypeOK, AskForCallback, ClientMoves, loopVars, functionVars
<1>2. ASSUME NEW c \in Clients, ClientTakesMutex(c) PROVE Typed'
  BY <1>2 DEF TypeOK, ClientTakesMutex, ClientMoves, loopVars, functionVars
<1>3. ASSUME NEW c \in Clients, ClientAdds(c) PROVE Typed'
  <2>1. callbacks' \in Seq(Registrations)
    BY <1>3, AddCallbackType DEF TypeOK, ClientAdds, ClientMoves
  <2> QED
    BY <1>3, <2>1 DEF TypeOK, ClientAdds, ClientMoves, loopVars, functionVars
<1>4. ASSUME NEW c \in Clients, Trigger(c) PROVE Typed'
  BY <1>4 DEF TypeOK, Trigger, ClientMoves, loopVars, callVars, functionVars
<1>5. ASSUME NEW c \in Clients, ExecuteCodeOnMainThread(c) PROVE Typed'
  <2>1. /\ accepted' \in 0 .. MaxPosts /\ posts' \in 0 .. MaxPosts
        /\ accepted' <= posts'
    BY <1>5 DEF TypeOK, ExecuteCodeOnMainThread
  <2>3. queue' \in Seq(Nat) /\ Len(queue') <= RUN_LOOP_QUEUE_LENGTH
    <3>1. CASE QueueHasRoom
      <4>1. queue' = Append(queue, accepted + 1) /\ accepted + 1 \in Nat
        BY <1>5, <3>1 DEF TypeOK, ExecuteCodeOnMainThread, Send
      <4>2. queue \in Seq(Nat) /\ Len(queue) + 1 <= RUN_LOOP_QUEUE_LENGTH
        BY <3>1 DEF TypeOK, QueueHasRoom
      <4> QED
        BY <4>1, <4>2
    <3>2. CASE ~ QueueHasRoom
      BY <1>5, <3>2 DEF TypeOK, ExecuteCodeOnMainThread
    <3> QED
      BY <3>1, <3>2
  <2>2. HoldsRegistration'
    BY <1>5 DEF TypeOK, ExecuteCodeOnMainThread, ClientMoves
  <2> QED
    BY <1>5, <2>1, <2>2, <2>3 DEF TypeOK, ExecuteCodeOnMainThread, ClientMoves,
                            loopVars, callVars
<1>6. ASSUME NEW c \in Clients, TriggerExit(c) PROVE Typed'
  BY <1>6 DEF TypeOK, TriggerExit, loopVars, clientVars, callVars, functionVars
<1>7. CASE Begin \/ PollDataSources \/ LoopTakesMutex \/ NoCallback
  BY <1>7 DEF TypeOK, Begin, PollDataSources, LoopTakesMutex, NoCallback,
              LoopMoves, clientVars, callVars, functionVars
<1>8. CASE PopCallback
  BY <1>8 DEF TypeOK, PopCallback, LoopMoves, clientVars, functionVars
<1>9. CASE HandlerRuns \/ HandlerReturns \/ HandlerTriggersExit
  BY <1>9 DEF TypeOK, HandlerRuns, HandlerReturns, HandlerTriggersExit,
              LoopMoves, loopVars, clientVars, callVars, functionVars
<1>10. CASE HandlerAsksAgain
  <2>1. callbacks' \in Seq(Registrations) /\ items' \subseteq Registrations
    BY <1>10, AddCallbackType DEF TypeOK, HandlerAsksAgain
  <2> QED
    BY <1>10, <2>1 DEF TypeOK, HandlerAsksAgain, loopVars, functionVars
<1>11. CASE CallFunction
  BY <1>11 DEF TypeOK, CallFunction, LoopMoves, clientVars, callVars
<1>12. CASE CheckExit \/ Wait \/ TimerDue
  BY <1>12 DEF TypeOK, CheckExit, Wait, TimerDue, LoopMoves, clientVars,
               callVars, functionVars
<1>13. CASE UNCHANGED vars
  BY <1>13 DEF TypeOK, vars
<1>14. CASE OtherTaskTriggers
  BY <1>14 DEF TypeOK, OtherTaskTriggers, loopVars, clientVars, callVars,
               functionVars
<1> QED
  BY <1>1, <1>2, <1>3, <1>4, <1>5, <1>6, <1>7, <1>8, <1>9, <1>10, <1>11,
     <1>12, <1>13, <1>14 DEF Next, Client, LoopStep, LoopProceeds, LoopMay

(* The run loop and its clients keep their variables in range: at most     *)
(* RUN_LOOP_QUEUE_LENGTH functions queue up, however many are sent.        *)
THEOREM TypeCorrect == Spec => []TypeOK
<1>1. Typed => TypeOK
  BY DEF Typed
<1> QED
  BY <1>1, TypedInitially, TypedInductive, PTL DEF Spec

-----------------------------------------------------------------------------
(* Nothing is left behind: the inductive invariant.  The mutex is the      *)
(* loop's only while it looks at the list; whatever is in the list or the  *)
(* queue when the loop is past it is announced by the notification, or by  *)
(* a client on its way to it.                                              *)
HeldWhilePopping == mutex = Loop => pc = "pop"

Announced ==
  ~ notified /\ (\A c \in Clients : at[c] # "trigger")
    => /\ pc \in {"functions", "wait"} => callbacks = <<>>
       /\ pc = "wait" => queue = <<>>

Served == HeldWhilePopping /\ Announced /\ EveryItemHasAHandler

LEMMA ServedInitially == Init => Served
BY RunLoopCallsAssumption
DEF Init, Served, HeldWhilePopping, Announced, EveryItemHasAHandler

LEMMA ServedInductive == Typed /\ Served /\ [Next]_vars => Served'
<1> SUFFICES ASSUME Typed, Served, [Next]_vars PROVE Served'
  OBVIOUS
<1> USE RunLoopCallsAssumption
    DEF Typed, Served, HeldWhilePopping, Announced, EveryItemHasAHandler
<1>1. ASSUME NEW c \in Clients, AskForCallback(c) PROVE Served'
  BY <1>1 DEF TypeOK, HoldsRegistration, AskForCallback, ClientMoves, loopVars,
              functionVars
<1>2. ASSUME NEW c \in Clients, ClientTakesMutex(c) PROVE Served'
  BY <1>2 DEF TypeOK, ClientTakesMutex, ClientMoves, loopVars, functionVars
<1>3. ASSUME NEW c \in Clients, ClientAdds(c) PROVE Served'
  <2>1. ToSet(callbacks') = ToSet(callbacks) \cup {wants[c]}
    BY <1>3, AddCallbackType
    DEF TypeOK, HoldsRegistration, ClientAdds, ClientMoves
  <2>2. at'[c] = "trigger" /\ HeldWhilePopping'
    BY <1>3 DEF TypeOK, ClientAdds, ClientMoves, loopVars
  <2>3. EveryItemHasAHandler'
    BY <1>3, <2>1 DEF TypeOK, ClientAdds, ClientMoves, loopVars
  <2> QED
    BY <2>2, <2>3
<1>4. ASSUME NEW c \in Clients, Trigger(c) PROVE Served'
  BY <1>4 DEF TypeOK, Trigger, ClientMoves, loopVars, callVars, functionVars
<1>5. ASSUME NEW c \in Clients, ExecuteCodeOnMainThread(c) PROVE Served'
  <2>1. at'[c] = "trigger"
    BY <1>5 DEF TypeOK, ExecuteCodeOnMainThread, ClientMoves
  <2> QED
    BY <1>5, <2>1 DEF TypeOK, ExecuteCodeOnMainThread, ClientMoves, loopVars,
                      callVars
<1>6. ASSUME NEW c \in Clients, TriggerExit(c) PROVE Served'
  BY <1>6 DEF TriggerExit, loopVars, clientVars, callVars, functionVars
<1>7. CASE Begin \/ PollDataSources \/ LoopTakesMutex \/ NoCallback
  BY <1>7 DEF Begin, PollDataSources, LoopTakesMutex, NoCallback,
              LoopMoves, clientVars, callVars, functionVars
<1>8. CASE PopCallback
  <2>1. \A r \in ToSet(callbacks) : r = running' \/ r \in ToSet(callbacks')
    BY <1>8, HeadOrTail DEF TypeOK, PopCallback
  <2> QED
    BY <1>8, <2>1 DEF PopCallback, LoopMoves, clientVars, functionVars
<1>9. CASE HandlerRuns \/ HandlerReturns \/ HandlerTriggersExit
  BY <1>9 DEF HandlerRuns, HandlerReturns, HandlerTriggersExit,
              LoopMoves, loopVars, clientVars, callVars, functionVars
<1>10. CASE HandlerAsksAgain
  <2>1. \E r \in Registrations :
          /\ ToSet(callbacks') = ToSet(callbacks) \cup {r}
          /\ items' = items \cup {r}
    BY <1>10, AddCallbackType DEF TypeOK, HandlerAsksAgain
  <2> QED
    BY <1>10, <2>1 DEF HandlerAsksAgain, loopVars, functionVars
<1>11. CASE CallFunction
  BY <1>11 DEF CallFunction, LoopMoves, clientVars, callVars
<1>12. CASE CheckExit \/ Wait \/ TimerDue
  BY <1>12 DEF CheckExit, Wait, TimerDue, LoopMoves, clientVars, callVars,
               functionVars
<1>13. CASE UNCHANGED vars
  BY <1>13 DEF vars
<1>14. CASE OtherTaskTriggers
  BY <1>14 DEF OtherTaskTriggers, loopVars, clientVars, callVars, functionVars
<1> QED
  BY <1>1, <1>2, <1>3, <1>4, <1>5, <1>6, <1>7, <1>8, <1>9, <1>10, <1>11,
     <1>12, <1>13, <1>14 DEF Next, Client, LoopStep, LoopProceeds, LoopMay

LEMMA ServedAlways == Spec => []Served
BY TypedInitially, TypedInductive, ServedInitially, ServedInductive, PTL
DEF Spec

(* execute_on_main_thread loses no item: whatever a task leaves for a      *)
(* handler, the handler is still to run (EveryItemHasAHandler).            *)
THEOREM NoLostItem == Spec => []EveryItemHasAHandler
<1>1. Served => EveryItemHasAHandler
  BY DEF Served
<1> QED
  BY <1>1, ServedAlways, PTL

(* The loop never waits without a notification when there is something to  *)
(* call, unless a client is about to notify it (WaitsOnlyWhenDrained).     *)
THEOREM NoLostCall == Spec => []WaitsOnlyWhenDrained
<1>1. Served => WaitsOnlyWhenDrained
  BY DEF Served, Announced, WaitsOnlyWhenDrained
<1> QED
  BY <1>1, ServedAlways, PTL

(* Handlers run without the mutex that execute_on_main_thread takes: they  *)
(* may call it (HandlersRunUnlocked).                                      *)
THEOREM HandlersMayPost == Spec => []HandlersRunUnlocked
<1>1. Served => HandlersRunUnlocked
  BY DEF Served, HeldWhilePopping, HandlersRunUnlocked
<1> QED
  BY <1>1, ServedAlways, PTL

-----------------------------------------------------------------------------
(* The order of the functions. *)

LEMMA CountOneMore ==
  ASSUME NEW n \in Nat
  PROVE  Append([i \in 1 .. n |-> i], n + 1) = [i \in 1 .. n + 1 |-> i]
<1> DEFINE s == [i \in 1 .. n |-> i]
           t == [i \in 1 .. n + 1 |-> i]
<1>1. s \in Seq(Nat) /\ Len(s) = n /\ \A i \in 1 .. n : s[i] = i
  OBVIOUS
<1>2. t \in Seq(Nat) /\ Len(t) = n + 1 /\ \A i \in 1 .. n + 1 : t[i] = i
  OBVIOUS
<1> HIDE DEF s, t
<1>3. /\ Append(s, n + 1) \in Seq(Nat) /\ Len(Append(s, n + 1)) = n + 1
      /\ \A i \in 1 .. n + 1 : Append(s, n + 1)[i] = i
  BY <1>1
<1>4. Append(s, n + 1) = t
  BY <1>2, <1>3, SeqEqual
<1> QED
  BY <1>4 DEF s, t

LEMMA AppendToSecond ==
  ASSUME NEW S, NEW e \in Seq(S), NEW q \in Seq(S), NEW x \in S
  PROVE  e \o Append(q, x) = Append(e \o q, x)
<1>1. <<x>> \in Seq(S) /\ e \o q \in Seq(S)
  OBVIOUS
<1>2. Append(q, x) = q \o <<x>>
  BY AppendIsConcat
<1>3. Append(e \o q, x) = (e \o q) \o <<x>>
  BY <1>1, AppendIsConcat
<1>4. e \o (q \o <<x>>) = (e \o q) \o <<x>>
  BY <1>1, ConcatAssociative
<1> QED
  BY <1>2, <1>3, <1>4, Zenon

LEMMA MoveHead ==
  ASSUME NEW S, NEW e \in Seq(S), NEW q \in Seq(S), q # <<>>
  PROVE  Append(e, Head(q)) \o Tail(q) = e \o q
<1>1. Head(q) \in S /\ Tail(q) \in Seq(S) /\ <<Head(q)>> \in Seq(S)
  BY HeadTailProperties
<1>2. <<Head(q)>> \o Tail(q) = q
  <2> DEFINE h == <<Head(q)>> \o Tail(q)
  <2>1. Len(Tail(q)) = Len(q) - 1 /\ Len(q) \in Nat \ {0}
    BY <1>1
  <2>2. h \in Seq(S) /\ Len(h) = Len(q)
    BY <1>1, <2>1
  <2>3. ASSUME NEW i \in 1 .. Len(q) PROVE h[i] = q[i]
    <3>1. CASE i = 1
      BY <1>1, <3>1
    <3>2. CASE i > 1
      <4>1. i-1 \in 1 .. Len(Tail(q)) /\ (i-1)+1 = i
        BY <2>1, <3>2
      <4>2. \A j \in 1 .. Len(Tail(q)) : Tail(q)[j] = q[j+1]
        BY HeadTailProperties, Zenon
      <4>3. Tail(q)[i-1] = q[i]
        BY <4>1, <4>2, Zenon
      <4>4. h[i] = Tail(q)[i-1]
        BY <1>1, <2>1, <3>2
      <4> QED
        BY <4>3, <4>4
    <3> QED
      BY <3>1, <3>2
  <2> HIDE DEF h
  <2>4. h = q
    BY <2>2, <2>3, SeqEqual
  <2> QED
    BY <2>4 DEF h
<1>3. Append(e, Head(q)) = e \o <<Head(q)>>
  BY <1>1, AppendIsConcat
<1>4. (e \o <<Head(q)>>) \o Tail(q) = e \o (<<Head(q)>> \o Tail(q))
  BY <1>1, ConcatAssociative
<1> QED
  BY <1>2, <1>3, <1>4, Zenon

LEMMA FunctionsInOrderInductive ==
  Typed /\ FunctionsInOrder /\ [Next]_vars => FunctionsInOrder'
<1> SUFFICES ASSUME Typed, FunctionsInOrder, [Next]_vars
             PROVE  FunctionsInOrder'
  OBVIOUS
<1>1. executed \in Seq(Nat) /\ queue \in Seq(Nat) /\ accepted \in Nat
  BY RunLoopCallsAssumption DEF Typed, TypeOK
<1>2. ASSUME NEW c \in Clients, ExecuteCodeOnMainThread(c)
      PROVE  FunctionsInOrder'
  <2>1. CASE QueueHasRoom
    <3>1. executed' \o queue' = executed \o Append(queue, accepted + 1)
      BY <1>2, <2>1 DEF ExecuteCodeOnMainThread, Send
    <3>2. accepted' = accepted + 1 /\ accepted + 1 \in Nat
      BY <1>1, <1>2, <2>1 DEF ExecuteCodeOnMainThread
    <3>3. executed' \o queue' = Append(executed \o queue, accepted + 1)
      BY <1>1, <3>1, <3>2, AppendToSecond
    <3> QED
      BY <1>1, <3>2, <3>3, CountOneMore DEF FunctionsInOrder
  <2>2. CASE ~ QueueHasRoom
    BY <1>2, <2>2 DEF ExecuteCodeOnMainThread, FunctionsInOrder
  <2> QED
    BY <2>1, <2>2
<1>3. CASE CallFunction
  <2>1. executed' \o queue' = executed \o queue /\ accepted' = accepted
    BY <1>1, <1>3, MoveHead DEF CallFunction
  <2> QED
    BY <2>1 DEF FunctionsInOrder
<1>4. CASE UNCHANGED functionVars
  BY <1>4 DEF FunctionsInOrder, functionVars
<1>5. [Next]_vars =>
        \/ \E c \in Clients : ExecuteCodeOnMainThread(c)
        \/ CallFunction
        \/ UNCHANGED functionVars
  BY DEF Next, Client, LoopStep, LoopProceeds, LoopMay, OtherTaskTriggers,
         AskForCallback, ClientTakesMutex, ClientAdds,
         Trigger, TriggerExit, Begin, PollDataSources, LoopTakesMutex,
         PopCallback, NoCallback, HandlerRuns, HandlerAsksAgain,
         HandlerTriggersExit, HandlerReturns, CheckExit, Wait, TimerDue,
         functionVars, vars
<1> QED
  BY <1>2, <1>3, <1>4, <1>5

(* Functions that fit in the queue are called once each and in the order   *)
(* they entered it, whoever sent them (FunctionsInOrder).                  *)
THEOREM NoFunctionLost == Spec => []FunctionsInOrder
<1>1. Init => FunctionsInOrder
  <2>1. <<>> \o <<>> = [i \in 1 .. 0 |-> i]
    OBVIOUS
  <2> QED
    BY <2>1 DEF Init, FunctionsInOrder
<1> QED
  BY <1>1, TypedInitially, TypedInductive, FunctionsInOrderInductive, PTL
  DEF Spec

-----------------------------------------------------------------------------
(* Timers: the arithmetic of a clock that wraps around.                    *)

LEMMA ProductIsNat == \A p, q \in Nat : p * q \in Nat
OBVIOUS

LEMMA OnlyMultipleBetween ==
  ASSUME NEW M \in Nat \ {0}, NEW q \in Int, -M < q * M, q * M < M
  PROVE  q = 0
<1>1. CASE q >= 1
  <2>1. (q - 1) * M \in Nat
    BY <1>1, ProductIsNat
  <2>2. (q - 1) * M = q * M - M
    OBVIOUS
  <2> QED BY <2>1, <2>2
<1>2. CASE q <= -1
  <2>1. (-1 - q) * M \in Nat
    BY <1>2, ProductIsNat
  <2>2. (-1 - q) * M = -M - q * M
    OBVIOUS
  <2> QED BY <2>1, <2>2
<1> QED BY <1>1, <1>2

LEMMA DivisionExists ==
  ASSUME NEW M \in Nat \ {0}, NEW a \in Int
  PROVE  a % M \in 0 .. M-1 /\ \E q \in Int : a = q * M + (a % M)
<1>1. a % M \in 0 .. M-1 /\ a \div M \in Int
  OBVIOUS
<1>2. a = (a \div M) * M + (a % M)
  OBVIOUS
<1> QED BY <1>1, <1>2

(* Quotient and remainder are unique. *)
LEMMA Remainder ==
  ASSUME NEW M \in Nat \ {0}, NEW q \in Int, NEW r \in 0 .. M-1
  PROVE  (q * M + r) % M = r
<1> DEFINE a == q * M + r
<1>1. a \in Int
  OBVIOUS
<1>2. PICK p \in Int : a = p * M + (a % M)
  BY <1>1, DivisionExists
<1>3. a % M \in 0 .. M-1
  BY <1>1, DivisionExists
<1>4. (q - p) * M = (a % M) - r
  <2>1. (q - p) * M = q * M - p * M /\ q * M \in Int /\ p * M \in Int
    OBVIOUS
  <2>2. q * M + r = p * M + (a % M)
    BY <1>2
  <2> HIDE DEF a
  <2> QED BY <1>3, <2>1, <2>2
<1> HIDE DEF a
<1>5. q - p = 0
  <2>1. q - p \in Int
    OBVIOUS
  <2> QED BY <1>3, <1>4, <2>1, OnlyMultipleBetween
<1>6. q = p
  BY <1>5
<1>7. q * M + r = q * M + (a % M)
  BY <1>2, <1>6 DEF a
<1> QED BY <1>3, <1>7 DEF a

LEMMA RemainderOfShifted ==
  ASSUME NEW M \in Nat \ {0}, NEW a \in Int, NEW b \in Int
  PROVE  ((a % M) + b) % M = (a + b) % M
<1>1. a % M \in 0 .. M-1 /\ a + b \in Int
  BY DivisionExists
<1>2. PICK p \in Int : a = p * M + (a % M)
  BY DivisionExists
<1>3. PICK q \in Int : a + b = q * M + ((a + b) % M)
  BY <1>1, DivisionExists
<1>4. (a + b) % M \in 0 .. M-1
  BY <1>1, DivisionExists
<1> DEFINE r == (a + b) % M
           t == a % M
<1>5. a = p * M + t /\ a + b = q * M + r /\ t \in Int /\ r \in 0 .. M-1
  BY <1>1, <1>2, <1>3, <1>4
<1> HIDE DEF r, t
<1>6. (q - p) * M = q * M - p * M /\ q * M \in Int /\ p * M \in Int
  OBVIOUS
<1>7. t + b = (q - p) * M + r
  BY <1>5, <1>6
<1>8. (t + b) % M = r
  BY <1>5, <1>7, Remainder, q - p \in Int
<1> QED BY <1>8 DEF r, t

Half == ClockModulus \div 2

LEMMA ModulusFacts ==
  /\ ClockModulus \in Nat \ {0} /\ Half \in Nat /\ 2 * Half = ClockModulus
  /\ MaxDelay \in Nat /\ MaxBusy \in Nat
  /\ MaxDelay + 2 + 2 * MaxBusy < Half
BY RunLoopTimersAssumption DEF Half

LEMMA TimeType == \A a \in Int : a % ClockModulus \in Time
BY ModulusFacts, DivisionExists DEF Time

LEMMA TimeShifts ==
  \A a, b \in Int : ((a % ClockModulus) + b) % ClockModulus = (a + b) % ClockModulus
BY ModulusFacts, RemainderOfShifted

(* The signed difference of two times is right whenever they are less than *)
(* half of the clock's range apart, wherever it wrapped around.            *)
LEMMA SignedRemainder ==
  ASSUME NEW k \in Int, NEW d \in Int, - Half < d, d < Half,
         NEW a \in Int, NEW b \in Int, a - b = k * ClockModulus + d
  PROVE  Delta(a, b) = d
<1> DEFINE M == ClockModulus
<1>1. M \in Nat \ {0} /\ Half \in Nat /\ 2 * Half = M
  BY ModulusFacts
<1>2. Delta(a, b) = IF (a - b) % M < Half THEN (a - b) % M ELSE ((a - b) % M) - M
  BY DEF Delta, Half
<1>3. k * M \in Int
  BY <1>1
<1> HIDE DEF M
<1>4. CASE d >= 0
  <2>1. (a - b) % M = d
    <3>1. d \in 0 .. M-1
      BY <1>1, <1>4
    <3> QED BY <1>1, <3>1, Remainder DEF M
  <2> QED BY <1>2, <2>1
<1>5. CASE d < 0
  <2>1. (a - b) % M = d + M
    <3>1. (k - 1) * M = k * M - M /\ k - 1 \in Int
      BY <1>1
    <3>2. a - b = (k - 1) * M + (d + M)
      BY <1>1, <1>3, <3>1 DEF M
    <3>3. d + M \in 0 .. M-1
      BY <1>1, <1>5
    <3> QED BY <1>1, <3>1, <3>2, <3>3, Remainder
  <2>2. ~ (d + M < Half) /\ (d + M) - M = d
    BY <1>1
  <2> QED BY <1>1, <1>2, <2>1, <2>2
<1> QED BY <1>4, <1>5

LEMMA DeltaIsDifference ==
  ASSUME NEW c \in Int, NEW x \in Int, NEW y \in Int, - Half < x - y, x - y < Half
  PROVE  Delta((c + x) % ClockModulus, (c + y) % ClockModulus) = x - y
<1>1. ClockModulus \in Nat \ {0} /\ c + x \in Int /\ c + y \in Int
  BY ModulusFacts
<1>2. PICK p \in Int : c + x = p * ClockModulus + ((c + x) % ClockModulus)
  BY <1>1, DivisionExists
<1>3. PICK q \in Int : c + y = q * ClockModulus + ((c + y) % ClockModulus)
  BY <1>1, DivisionExists
<1> DEFINE a == (c + x) % ClockModulus
           b == (c + y) % ClockModulus
<1>4. a \in Int /\ b \in Int
  BY <1>1, DivisionExists
<1>5. c + x = p * ClockModulus + a /\ c + y = q * ClockModulus + b
  BY <1>2, <1>3
<1> HIDE DEF a, b
<1>6. (q - p) * ClockModulus = q * ClockModulus - p * ClockModulus
      /\ p * ClockModulus \in Int /\ q * ClockModulus \in Int
  BY <1>1
<1>7. a - b = (q - p) * ClockModulus + (x - y)
  BY <1>4, <1>5, <1>6
<1>8. Delta(a, b) = x - y
  BY <1>4, <1>7, SignedRemainder, q - p \in Int, x - y \in Int
<1> QED BY <1>8 DEF a, b

(* A nonempty set of numbers has a least element: of the intervals from 1  *)
(* to one of its elements, one is smallest under inclusion.                *)
LEMMA MinIsLeast ==
  ASSUME NEW T, T \subseteq Nat, T # {}
  PROVE  Min(T) \in T /\ \A x \in T : Min(T) <= x
<1> DEFINE Intervals == {1 .. x : x \in T}
<1>1. Intervals \subseteq FiniteSubsetsOf(Nat) /\ Intervals # {}
  <2>1. \A x \in T : IsFiniteSet(1 .. x)
    BY FS_Interval
  <2>2. \A x \in T : 1 .. x \in FiniteSubsetsOf(Nat)
    BY <2>1 DEF FiniteSubsetsOf
  <2> QED BY <2>2
<1>2. PICK i \in Intervals :
        \A j \in Intervals : ~ (<<j, i>> \in StrictSubsetOrdering(Nat))
  BY <1>1, FS_StrictSubsetOrderingWellFounded, WFMin, Zenon
<1>3. PICK m \in T : i = 1 .. m
  OBVIOUS
<1>4. ASSUME NEW x \in T PROVE m <= x
  <2>1. SUFFICES ASSUME x < m PROVE FALSE
    OBVIOUS
  <2>2. 1 .. x \subseteq 1 .. m /\ 1 .. x # 1 .. m
    <3>1. m \in 1 .. m /\ m \notin 1 .. x
      BY <2>1
    <3> QED BY <2>1, <3>1
  <2>3. 1 .. x \in SUBSET Nat /\ 1 .. m \in SUBSET Nat
    OBVIOUS
  <2>4. <<1 .. x, 1 .. m>> \in StrictSubsetOrdering(Nat)
    BY <2>2, <2>3 DEF StrictSubsetOrdering
  <2> QED BY <1>2, <1>3, <2>4
<1> QED
  BY <1>4 DEF Min


-----------------------------------------------------------------------------
(* The list.                                                               *)

(* The walk of add_timer stops at the first timer that is due later. *)
LEMMA InsertionPointIsFirst ==
  ASSUME NEW S, NEW t, timers \in Seq(S)
  PROVE  /\ InsertionPoint(t) \in 1 .. Len(timers) + 1
         /\ \A i \in 1 .. InsertionPoint(t) - 1 :
              ~ (Delta(timeout'[t], timeout'[timers[i]]) < 0)
         /\ InsertionPoint(t) <= Len(timers) =>
              Delta(timeout'[t], timeout'[timers[InsertionPoint(t)]]) < 0
<1> DEFINE Later(i) == Delta(timeout'[t], timeout'[timers[i]]) < 0
           I == {i \in 1 .. Len(timers) : Later(i)}
<1>1. Len(timers) \in Nat
  OBVIOUS
<1>2. InsertionPoint(t) = IF I = {} THEN Len(timers) + 1 
                          ELSE IF Min(I) = 0 THEN Len(timers) + 1 ELSE Min(I)
  BY DEF InsertionPoint, SelectInSeq
<1> HIDE DEF Later
<1>3. CASE I = {}
  <2>1. InsertionPoint(t) = Len(timers) + 1
    BY <1>2, <1>3
  <2>2. \A i \in 1 .. Len(timers) : ~ Later(i)
    BY <1>3
  <2> QED BY <1>1, <2>1, <2>2 DEF Later
<1>4. CASE I # {}
  <2>1. I \subseteq Nat
    OBVIOUS
  <2>2. Min(I) \in I /\ \A x \in I : Min(I) <= x
    <3> HIDE DEF I
    <3> QED BY <1>4, <2>1, MinIsLeast
  <2>3. InsertionPoint(t) \in 1 .. Len(timers) /\ Later(InsertionPoint(t))
    BY <1>1, <1>2, <1>4, <2>2
  <2>4. \A i \in 1 .. InsertionPoint(t) - 1 : ~ Later(i)
    <3>1. InsertionPoint(t) = Min(I)
      BY <1>2, <1>4, <2>2
    <3> QED BY <1>1, <2>2, <2>3, <3>1
  <2> QED BY <1>1, <2>3, <2>4 DEF Later
<1> QED BY <1>3, <1>4

(* linked_list_remove unlinks the element at its place. *)
LEMMA RemoveFirstIsRemoveAt ==
  ASSUME NEW S, NEW s \in Seq(S), NEW i \in 1 .. Len(s),
         \A j \in 1 .. i-1 : s[j] # s[i]
  PROVE  RemoveFirst(s, s[i]) = RemoveAt(s, i)
<1> DEFINE I == {j \in 1 .. Len(s) : s[j] = s[i]}
<1>1. Min(I) \in I /\ \A x \in I : Min(I) <= x
  <2>1. i \in I
    OBVIOUS
  <2> QED BY <2>1, MinIsLeast
<1>2. Min(I) = i
  <2>1. Min(I) <= i /\ Min(I) \in 1 .. Len(s) /\ s[Min(I)] = s[i]
    BY <1>1
  <2> HIDE DEF I
  <2> QED BY <2>1
<1>3. SelectInSeq(s, LAMBDA v : v = s[i]) = Min(I)
  BY DEF SelectInSeq
<1> QED
  BY <1>2, <1>3 DEF RemoveFirst

(* The two parts of a sequence that is cut. *)
LEMMA Parts ==
  ASSUME NEW S, NEW s \in Seq(S), NEW m \in 0 .. Len(s)
  PROVE  /\ SubSeq(s, 1, m) \in Seq(S) /\ Len(SubSeq(s, 1, m)) = m
         /\ \A k \in 1 .. m : SubSeq(s, 1, m)[k] = s[k]
         /\ SubSeq(s, m + 1, Len(s)) \in Seq(S)
         /\ Len(SubSeq(s, m + 1, Len(s))) = Len(s) - m
         /\ \A k \in 1 .. Len(s) - m : SubSeq(s, m + 1, Len(s))[k] = s[m + k]
<1>1. Len(s) \in Nat /\ m \in Nat /\ m <= Len(s)
  OBVIOUS
<1>2. \A k \in 1 .. Len(s) : s[k] \in S
  BY ElementOfSeq
<1>3. /\ SubSeq(s, 1, m) \in Seq(S)
      /\ Len(SubSeq(s, 1, m)) = IF 1 <= m THEN m - 1 + 1 ELSE 0
      /\ \A k \in 1 .. m - 1 + 1 : SubSeq(s, 1, m)[k] = s[1 + k - 1]
  <2>1. 1 \in Int /\ m \in Int /\ \A k \in 1 .. m : s[k] \in S
    BY <1>1, <1>2
  <2> QED BY <2>1, SubSeqProperties
<1>4. /\ SubSeq(s, m + 1, Len(s)) \in Seq(S)
      /\ Len(SubSeq(s, m + 1, Len(s))) =
           IF m + 1 <= Len(s) THEN Len(s) - (m + 1) + 1 ELSE 0
      /\ \A k \in 1 .. Len(s) - (m + 1) + 1 :
           SubSeq(s, m + 1, Len(s))[k] = s[m + 1 + k - 1]
  <2>1. m + 1 \in Int /\ Len(s) \in Int /\ \A k \in m + 1 .. Len(s) : s[k] \in S
    BY <1>1, <1>2
  <2> QED BY <2>1, SubSeqProperties
<1> DEFINE a == SubSeq(s, 1, m)
           b == SubSeq(s, m + 1, Len(s))
<1>5. a \in Seq(S) /\ Len(a) = m /\ \A k \in 1 .. m : a[k] = s[k]
  <2> HIDE DEF a
  <2> QED BY <1>1, <1>3 DEF a
<1>6. b \in Seq(S) /\ Len(b) = Len(s) - m /\ \A k \in 1 .. Len(s) - m : b[k] = s[m + k]
  <2>1. b \in Seq(S) /\ Len(b) = (IF m + 1 <= Len(s) THEN Len(s) - (m + 1) + 1 ELSE 0)
        /\ \A k \in 1 .. Len(s) - (m + 1) + 1 : b[k] = s[m + 1 + k - 1]
    BY <1>4
  <2> HIDE DEF b
  <2> QED BY <1>1, <2>1
<1> QED BY <1>5, <1>6

LEMMA AfterRemoveAt ==
  ASSUME NEW S, NEW s \in Seq(S), NEW i \in 1 .. Len(s)
  PROVE  /\ RemoveAt(s, i) \in Seq(S) /\ Len(RemoveAt(s, i)) = Len(s) - 1
         /\ \A k \in 1 .. Len(s) - 1 :
              RemoveAt(s, i)[k] = IF k < i THEN s[k] ELSE s[k + 1]
<1> DEFINE a == SubSeq(s, 1, i - 1)
           b == SubSeq(s, i + 1, Len(s))
<1>1. Len(s) \in Nat /\ i - 1 \in 0 .. Len(s) /\ i \in 0 .. Len(s)
  OBVIOUS
<1>2. a \in Seq(S) /\ Len(a) = i - 1 /\ \A k \in 1 .. i - 1 : a[k] = s[k]
  BY <1>1, Parts
<1>3. /\ b \in Seq(S) /\ Len(b) = Len(s) - i
      /\ \A k \in 1 .. Len(s) - i : b[k] = s[i + k]
  BY <1>1, Parts
<1>4. RemoveAt(s, i) = a \o b
  BY DEF RemoveAt
<1> HIDE DEF a, b
<1>5. /\ a \o b \in Seq(S) /\ Len(a \o b) = Len(a) + Len(b)
      /\ \A k \in 1 .. Len(a) + Len(b) :
           (a \o b)[k] = IF k <= Len(a) THEN a[k] ELSE b[k - Len(a)]
  BY <1>2, <1>3, ConcatProperties
<1>6. ASSUME NEW k \in 1 .. Len(s) - 1
      PROVE  (a \o b)[k] = IF k < i THEN s[k] ELSE s[k + 1]
  <2>1. k \in 1 .. Len(a) + Len(b)
    BY <1>1, <1>2, <1>3
  <2>2. CASE k < i
    BY <1>1, <1>2, <1>5, <2>1, <2>2
  <2>3. CASE ~ (k < i)
    <3>1. (a \o b)[k] = b[k - (i - 1)]
      BY <1>1, <1>2, <1>5, <2>1, <2>3
    <3>2. k - (i - 1) \in 1 .. Len(s) - i /\ i + (k - (i - 1)) = k + 1
      BY <1>1, <2>3
    <3> QED BY <1>3, <2>3, <3>1, <3>2
  <2> QED BY <2>2, <2>3
<1> QED BY <1>1, <1>2, <1>3, <1>4, <1>5, <1>6

LEMMA AfterInsertAt ==
  \A s \in Seq(Timers) : \A e \in Timers, i \in 1 .. Len(s) + 1 :
    /\ InsertAt(s, i, e) \in Seq(Timers) /\ Len(InsertAt(s, i, e)) = Len(s) + 1
    /\ \A k \in 1 .. Len(s) + 1 :
         InsertAt(s, i, e)[k] = IF k < i THEN s[k]
                                ELSE IF k = i THEN e ELSE s[k - 1]
<1> SUFFICES ASSUME NEW s \in Seq(Timers), NEW e \in Timers,
                    NEW i \in 1 .. Len(s) + 1
             PROVE  /\ InsertAt(s, i, e) \in Seq(Timers)
                    /\ Len(InsertAt(s, i, e)) = Len(s) + 1
                    /\ \A k \in 1 .. Len(s) + 1 :
                         InsertAt(s, i, e)[k] = IF k < i THEN s[k]
                                                ELSE IF k = i THEN e ELSE s[k - 1]
  OBVIOUS
<1> DEFINE a == SubSeq(s, 1, i - 1)
           b == SubSeq(s, i, Len(s))
           c == Append(a, e)
<1>1. Len(s) \in Nat /\ i - 1 \in 0 .. Len(s)
  OBVIOUS
<1>2. a \in Seq(Timers) /\ Len(a) = i - 1 /\ \A k \in 1 .. i - 1 : a[k] = s[k]
  BY <1>1, Parts
<1>3. /\ b \in Seq(Timers) /\ Len(b) = Len(s) - (i - 1)
      /\ \A k \in 1 .. Len(s) - (i - 1) : b[k] = s[(i - 1) + k]
  <2>1. (i - 1) + 1 = i
    OBVIOUS
  <2> QED BY <1>1, <2>1, Parts
<1>4. InsertAt(s, i, e) = a \o <<e>> \o b
  BY DEF InsertAt
<1> HIDE DEF a, b
<1>5. a \o <<e>> = c
  BY <1>2, AppendIsConcat
<1>6. /\ c \in Seq(Timers) /\ Len(c) = i
      /\ \A k \in 1 .. i : c[k] = IF k < i THEN s[k] ELSE e
  BY <1>2
<1> HIDE DEF c
<1>7. /\ c \o b \in Seq(Timers) /\ Len(c \o b) = Len(c) + Len(b)
      /\ \A k \in 1 .. Len(c) + Len(b) :
           (c \o b)[k] = IF k <= Len(c) THEN c[k] ELSE b[k - Len(c)]
  BY <1>3, <1>6, ConcatProperties
<1>8. ASSUME NEW k \in 1 .. Len(s) + 1
      PROVE  (c \o b)[k] = IF k < i THEN s[k] ELSE IF k = i THEN e ELSE s[k - 1]
  <2>1. k \in 1 .. Len(c) + Len(b)
    BY <1>1, <1>3, <1>6
  <2>2. CASE k <= i
    BY <1>1, <1>6, <1>7, <2>1, <2>2
  <2>3. CASE ~ (k <= i)
    <3>1. (c \o b)[k] = b[k - i]
      BY <1>1, <1>6, <1>7, <2>1, <2>3
    <3>2. k - i \in 1 .. Len(s) - (i - 1) /\ (i - 1) + (k - i) = k - 1
      BY <1>1, <2>3
    <3> QED BY <1>3, <2>3, <3>1, <3>2
  <2> QED BY <2>2, <2>3
<1>9. InsertAt(s, i, e) = c \o b
  BY <1>4, <1>5
<1>10. Len(c \o b) = Len(s) + 1
  BY <1>1, <1>3, <1>6, <1>7
<1> QED BY <1>7, <1>8, <1>9, <1>10

(* A list that holds each timer once, in the order of what is left.        *)
Ordered(s, f) ==
  \A i, j \in 1 .. Len(s) : i < j => s[i] # s[j] /\ f[s[i]] <= f[s[j]]

LEMMA OrderedWithout ==
  ASSUME timers \in Seq(Timers), left \in [Timers -> Int],
         Ordered(timers, left), NEW g \in [Timers -> Int],
         NEW i \in 1 .. Len(timers),
         \A x \in Timers \ {timers[i]} : g[x] = left[x]
  PROVE  /\ Ordered(RemoveAt(timers, i), g)
         /\ ToSet(RemoveAt(timers, i)) = ToSet(timers) \ {timers[i]}
<1> DEFINE r == RemoveAt(timers, i)
           place(k) == IF k < i THEN k ELSE k + 1
<1>0. Len(timers) \in Nat
  OBVIOUS
<1>1. Len(timers) \in Nat /\ \A k \in 1 .. Len(timers) : timers[k] \in Timers
  BY ElementOfSeq
<1>2. r \in Seq(Timers) /\ Len(r) = Len(timers) - 1 /\ DOMAIN r = 1 .. Len(timers) - 1
      /\ \A k \in 1 .. Len(timers) - 1 : r[k] = timers[place(k)]
  <2>1. r \in Seq(Timers) /\ Len(r) = Len(timers) - 1
    BY AfterRemoveAt
  <2>2. ASSUME NEW k \in 1 .. Len(timers) - 1 PROVE r[k] = timers[place(k)]
    BY AfterRemoveAt
  <2> HIDE DEF r
  <2> QED BY <2>1, <2>2, LenProperties
<1> HIDE DEF r
<1>3. \A k \in 1 .. Len(timers) - 1 : place(k) \in 1 .. Len(timers) /\ place(k) # i
  BY <1>1
<1>4. \A j \in 1 .. Len(timers) : j # i => timers[j] # timers[i]
  BY <1>1 DEF Ordered
<1>5. ASSUME NEW j \in 1 .. Len(r), NEW k \in 1 .. Len(r), j < k
      PROVE  r[j] # r[k] /\ g[r[j]] <= g[r[k]]
  <2>0. j \in 1 .. Len(timers) - 1 /\ k \in 1 .. Len(timers) - 1
    BY <1>2
  <2>1. /\ place(j) < place(k)
        /\ place(j) \in 1 .. Len(timers) /\ place(k) \in 1 .. Len(timers)
    <3>1. i \in Nat /\ j \in Nat /\ k \in Nat /\ j < k
      BY <1>5, <2>0
    <3>2. place(j) < place(k)
      BY <3>1
    <3>3. place(j) \in 1 .. Len(timers) /\ place(k) \in 1 .. Len(timers)
      <4> HIDE DEF place
      <4> QED BY <1>3, <2>0
    <3> QED BY <3>2, <3>3
  <2>2. timers[place(j)] # timers[place(k)] /\ left[timers[place(j)]] <= left[timers[place(k)]]
    BY <2>1 DEF Ordered
  <2>3. timers[place(j)] \in Timers \ {timers[i]} /\ timers[place(k)] \in Timers \ {timers[i]}
    BY <1>1, <1>2, <1>3, <1>4
  <2> QED BY <1>2, <2>2, <2>3
<1>6. ToSet(r) = ToSet(timers) \ {timers[i]}
  <2>1. ASSUME NEW x \in ToSet(r) PROVE x \in ToSet(timers) \ {timers[i]}
    <3>1. PICK k \in 1 .. Len(timers) - 1 : x = timers[place(k)]
      BY <1>2 DEF ToSet
    <3>2. place(k) \in DOMAIN timers
      BY <1>3, LenProperties
    <3> QED BY <1>3, <1>4, <3>1, <3>2 DEF ToSet
  <2>2. ASSUME NEW x \in ToSet(timers) \ {timers[i]} PROVE x \in ToSet(r)
    <3>1. PICK j \in 1 .. Len(timers) : x = timers[j]
      BY LenProperties DEF ToSet
    <3>2. j # i
      BY <3>1
    <3> DEFINE k == IF j < i THEN j ELSE j - 1
    <3>3. k \in 1 .. Len(timers) - 1 /\ place(k) = j
      BY <1>1, <3>2
    <3> QED BY <1>2, <3>1, <3>3 DEF ToSet
  <2> QED BY <2>1, <2>2
<1> QED BY <1>5, <1>6 DEF r, Ordered

LEMMA OrderedWith ==
  ASSUME timers \in Seq(Timers), left \in [Timers -> Int],
         Ordered(timers, left), NEW g \in [Timers -> Int],
         NEW p \in 1 .. Len(timers) + 1, NEW e \in Timers, e \notin ToSet(timers),
         \A x \in Timers \ {e} : g[x] = left[x],
         \A i \in 1 .. p - 1 : g[timers[i]] <= g[e],
         p <= Len(timers) => g[e] <= g[timers[p]]
  PROVE  /\ Ordered(InsertAt(timers, p, e), g)
         /\ ToSet(InsertAt(timers, p, e)) = ToSet(timers) \cup {e}
<1> DEFINE r == InsertAt(timers, p, e)
           place(k) == IF k < p THEN k ELSE k - 1
<1>0. Len(timers) \in Nat
  OBVIOUS
<1>1. Len(timers) \in Nat /\ \A k \in 1 .. Len(timers) : timers[k] \in Timers /\ timers[k] # e
  BY ElementOfSeq, LenProperties DEF ToSet
<1>2. r \in Seq(Timers) /\ Len(r) = Len(timers) + 1 /\ DOMAIN r = 1 .. Len(timers) + 1
      /\ \A k \in 1 .. Len(timers) + 1 : r[k] = IF k = p THEN e ELSE timers[place(k)]
  <2>1. /\ r \in Seq(Timers) /\ Len(r) = Len(timers) + 1
        /\ \A m \in 1 .. Len(timers) + 1 :
              r[m] = IF m < p THEN timers[m] ELSE IF m = p THEN e ELSE timers[m - 1]
    <3> HIDE DEF place
    <3> QED BY AfterInsertAt
  <2>2. ASSUME NEW k \in 1 .. Len(timers) + 1
        PROVE  r[k] = IF k = p THEN e ELSE timers[place(k)]
    <3> HIDE DEF r
    <3>1. r[k] = IF k < p THEN timers[k] ELSE IF k = p THEN e ELSE timers[k - 1]
      BY <2>1
    <3>2. CASE k < p
      <4>1. k # p
        BY <3>2
      <4> QED BY <3>1, <3>2, <4>1
    <3>3. CASE ~ (k < p)
      BY <3>1, <3>3
    <3> QED BY <3>2, <3>3
  <2> HIDE DEF r
  <2> QED BY <2>1, <2>2, LenProperties
<1> HIDE DEF r
<1>3. \A k \in 1 .. Len(timers) + 1 : k # p => place(k) \in 1 .. Len(timers)
  BY <1>1
<1>4. ASSUME NEW i \in 1 .. Len(timers), NEW j \in 1 .. Len(timers), i < j
      PROVE  timers[i] # timers[j] /\ g[timers[i]] <= g[timers[j]]
  <2>1. timers[i] # timers[j] /\ left[timers[i]] <= left[timers[j]]
    BY <1>4 DEF Ordered
  <2> QED BY <1>1, <2>1
<1>5. ASSUME NEW j \in 1 .. Len(timers), p <= j PROVE g[e] <= g[timers[j]]
  <2>1. g[e] <= g[timers[p]] /\ p \in 1 .. Len(timers)
    BY <1>1, <1>5
  <2>2. g[timers[p]] <= g[timers[j]]
    <3>1. CASE j = p
      BY <1>1, <3>1
    <3>2. CASE j # p
      BY <1>1, <1>4, <1>5, <2>1, <3>2
    <3> QED BY <3>1, <3>2
  <2>3. g[e] \in Int /\ g[timers[p]] \in Int /\ g[timers[j]] \in Int
    BY <1>1, <2>1
  <2> QED BY <2>1, <2>2, <2>3
<1>6. ASSUME NEW j \in 1 .. Len(r), NEW k \in 1 .. Len(r), j < k
      PROVE  r[j] # r[k] /\ g[r[j]] <= g[r[k]]
  <2>0. j \in 1 .. Len(timers) + 1 /\ k \in 1 .. Len(timers) + 1
    BY <1>2
  <2>1. CASE j = p
    <3>1. place(k) \in 1 .. Len(timers) /\ p <= place(k) /\ k # p
      BY <1>0, <1>6, <2>0, <2>1
    <3> QED BY <1>1, <1>2, <1>5, <2>1, <3>1
  <2>2. CASE k = p
    <3>1. j \in 1 .. p - 1 /\ j \in 1 .. Len(timers) /\ place(j) = j /\ j # p
      BY <1>0, <1>6, <2>0, <2>2
    <3> QED BY <1>1, <1>2, <2>2, <3>1
  <2>3. CASE j # p /\ k # p
    <3>1. place(j) \in 1 .. Len(timers) /\ place(k) \in 1 .. Len(timers) /\ place(j) < place(k)
      BY <1>0, <1>6, <2>0, <2>3
    <3> QED BY <1>2, <1>4, <2>3, <3>1
  <2> QED BY <2>1, <2>2, <2>3
<1>7. ToSet(r) = ToSet(timers) \cup {e}
  <2>1. ASSUME NEW x \in ToSet(r) PROVE x \in ToSet(timers) \cup {e}
    <3>1. PICK k \in 1 .. Len(timers) + 1 : x = r[k]
      BY <1>2 DEF ToSet
    <3>2. CASE k = p
      BY <1>2, <3>1, <3>2
    <3>3. CASE k # p
      <4>1. x = timers[place(k)]
        BY <1>2, <3>1, <3>3
      <4>2. place(k) \in 1 .. Len(timers)
        BY <1>3, <3>3
      <4>3. \A i \in 1 .. Len(timers) : timers[i] \in ToSet(timers)
        BY LenProperties DEF ToSet
      <4> HIDE DEF place
      <4> QED BY <4>1, <4>2, <4>3
    <3> QED BY <3>2, <3>3
  <2>2. ASSUME NEW x \in ToSet(timers) PROVE x \in ToSet(r)
    <3>1. PICK j \in 1 .. Len(timers) : x = timers[j]
      BY LenProperties DEF ToSet
    <3> DEFINE k == IF j < p THEN j ELSE j + 1
    <3>2. k \in 1 .. Len(timers) + 1 /\ place(k) = j /\ k # p
      BY <1>1
    <3> QED BY <1>2, <3>1, <3>2 DEF ToSet
  <2>3. e \in ToSet(r)
    <3>1. p \in DOMAIN r /\ r[p] = e
      BY <1>2
    <3> QED BY <3>1 DEF ToSet
  <2> QED BY <2>1, <2>2, <2>3
<1> QED BY <1>6, <1>7 DEF r, Ordered

-----------------------------------------------------------------------------
(* The inductive invariant.                                                *)

(* The loop runs until adding a registered timer stops it. *)
Running == phase \in {"work", "timers", "handler", "asleep"}

(* A registered timer's timeout is that many milliseconds away, modulo     *)
(* 2^32, ...                                                               *)
CountedDown ==
  \A t \in Registered : timeout[t] = (clock + left[t]) % ClockModulus

(* ... it is late by no more than the loop was busy since and before it    *)
(* last slept, ...                                                         *)
NotLate ==
  \A t \in Registered :
    left[t] >= (IF phase = "asleep" THEN sleep ELSE - busy) - MaxBusy

(* ... and the time the loop works with is no older than its last wake-up. *)
TimeIsRecent ==
  phase \in {"timers", "handler"} =>
    \E e \in 0 .. busy : now = (clock - e) % ClockModulus

WaitsForFirst ==
  phase = "asleep" => busy = 0 /\ (timers # <<>> => sleep >= 0)

OnTime ==
  Running => /\ FirstIsDueFirst /\ CountedDown /\ NotLate
             /\ TimeIsRecent /\ WaitsForFirst

LEMMA SameOrder == FirstIsDueFirst <=> Ordered(timers, left)
BY DEF FirstIsDueFirst, Ordered

LEMMA ListTypes ==
  ASSUME TimersTypeOK
  PROVE  /\ Len(timers) \in Nat /\ DOMAIN timers = 1 .. Len(timers)
         /\ \A i \in 1 .. Len(timers) : timers[i] \in Timers /\ timers[i] \in Registered
         /\ Registered \subseteq Timers
         /\ timers # <<>> => Len(timers) >= 1 /\ Head(timers) = timers[1]
<1>1. timers \in Seq(Timers)
  BY DEF TimersTypeOK
<1>2. Len(timers) \in Nat /\ DOMAIN timers = 1 .. Len(timers)
  BY <1>1, LenProperties
<1>3. \A i \in 1 .. Len(timers) : timers[i] \in Timers /\ timers[i] \in Registered
  BY <1>1, <1>2, ElementOfSeq DEF Registered, ToSet
<1>4. Registered \subseteq Timers
  BY <1>2, <1>3 DEF Registered, ToSet
<1>5. timers # <<>> => Len(timers) >= 1 /\ Head(timers) = timers[1]
  BY <1>1, EmptySeq
<1> QED BY <1>2, <1>3, <1>4, <1>5

(* What is left of the timers, in numbers. *)
LEMMA LeftTypes ==
  ASSUME TimersTypeOK
  PROVE  /\ clock \in Int /\ busy \in Int /\ 0 <= busy /\ busy <= MaxBusy
         /\ left \in [Timers -> Int]
         /\ \A t \in Timers : - 2 * MaxBusy <= left[t] /\ left[t] <= MaxDelay + 1
<1>1. clock \in Int
  BY ModulusFacts DEF TimersTypeOK, Time
<1>2. /\ busy \in Int /\ 0 <= busy /\ busy <= MaxBusy
  BY ModulusFacts DEF TimersTypeOK
<1>3. left \in [Timers -> - 2 * MaxBusy .. MaxDelay + 1]
  BY DEF TimersTypeOK
<1>4. - 2 * MaxBusy \in Int /\ MaxDelay + 1 \in Int
  BY ModulusFacts
<1> QED BY <1>1, <1>2, <1>3, <1>4

(* The difference of the timeouts of two timers is that of what is left of *)
(* them, and so is that of a timeout and the time the loop works with.     *)
LEMMA DueOrder ==
  ASSUME TimersTypeOK, CountedDown, NEW u \in Registered,
         NEW x \in - 2 * MaxBusy .. MaxDelay + 1
  PROVE  Delta((clock + x) % ClockModulus, timeout[u]) = x - left[u]
<1>1. u \in Timers
  BY ListTypes
<1>2. /\ clock \in Int /\ x \in Int /\ left[u] \in Int
      /\ - Half < x - left[u] /\ x - left[u] < Half
  BY <1>1, LeftTypes, ModulusFacts
<1>3. timeout[u] = (clock + left[u]) % ClockModulus
  BY DEF CountedDown
<1>4. Delta((clock + x) % ClockModulus, (clock + left[u]) % ClockModulus) = x - left[u]
  BY <1>2, DeltaIsDifference, Zenon
<1> QED BY <1>3, <1>4

LEMMA DueAt ==
  ASSUME TimersTypeOK, CountedDown, NEW u \in Registered,
         NEW e \in 0 .. busy, now = (clock - e) % ClockModulus
  PROVE  Delta(timeout[u], now) = left[u] + e
<1>1. u \in Timers
  BY ListTypes
<1>2. /\ clock \in Int /\ left[u] \in Int /\ e \in Int /\ - e \in Int
      /\ - Half < left[u] - (- e) /\ left[u] - (- e) < Half
      /\ left[u] - (- e) = left[u] + e /\ clock + (- e) = clock - e
  BY <1>1, LeftTypes, ModulusFacts
<1>3. timeout[u] = (clock + left[u]) % ClockModulus
  BY DEF CountedDown
<1>4. Delta((clock + left[u]) % ClockModulus, (clock + (- e)) % ClockModulus)
        = left[u] - (- e)
  BY <1>2, DeltaIsDifference, Zenon
<1> QED BY <1>2, <1>3, <1>4

-----------------------------------------------------------------------------
(* The steps of the application and of the loop keep it.                   *)

LEMMA StartKeeps ==
  ASSUME TimersTypeOK, OnTime, NEW t \in Timers, StartTimer(t)
  PROVE  TimersTypeOK' /\ OnTime'
<1>1. PICK delay \in 0 .. MaxDelay : SetTimer(t, delay)
  BY DEF StartTimer
<1> DEFINE x == delay + 1
<1>2. /\ delay \in Nat /\ x \in - 2 * MaxBusy .. MaxDelay + 1 /\ x \in Int /\ x >= 1
      /\ clock + delay + 1 = clock + x
  BY ModulusFacts, LeftTypes
<1>3. /\ timeout' = [timeout EXCEPT ![t] = (clock + x) % ClockModulus]
      /\ left' = [left EXCEPT ![t] = x]
  BY <1>1, <1>2 DEF SetTimer
<1>4. UNCHANGED <<clock, now, sleep, busy>> /\ phase \in {"work", "handler"}
  BY DEF StartTimer, ApplicationRuns
<1> HIDE DEF x
<1>5. timeout' \in [Timers -> Time] /\ left' \in [Timers -> - 2 * MaxBusy .. MaxDelay + 1]
  <2>1. (clock + x) % ClockModulus \in Time
    BY <1>2, LeftTypes, TimeType
  <2> QED BY <1>2, <1>3, <2>1 DEF TimersTypeOK
<1>6. CASE t \in Registered
  <2>1. timers' = timers /\ phase' \in {"assert", "cyclic"}
    BY <1>6 DEF StartTimer, AddTimer
  <2> QED BY <1>4, <1>5, <2>1 DEF TimersTypeOK, OnTime, Running
<1>7. CASE t \notin Registered
  <2> DEFINE p == InsertionPoint(t)
  <2>1. timers' = InsertAt(timers, p, t) /\ phase' = phase
    BY <1>7 DEF StartTimer, AddTimer
  <2>2. CountedDown /\ NotLate /\ Ordered(timers, left) /\ TimeIsRecent
    BY <1>4, SameOrder DEF OnTime, Running
  <2>3. timers \in Seq(Timers)
    BY DEF TimersTypeOK
  <2>4. /\ timeout'[t] = (clock + x) % ClockModulus /\ left'[t] = x
        /\ \A u \in Timers \ {t} : timeout'[u] = timeout[u] /\ left'[u] = left[u]
    BY <1>3 DEF TimersTypeOK
  <2>5. ASSUME NEW i \in 1 .. Len(timers)
        PROVE  Delta(timeout'[t], timeout'[timers[i]]) = x - left'[timers[i]]
    <3>1. timers[i] \in Registered /\ timers[i] \in Timers \ {t}
      BY <1>7, ListTypes
    <3> QED BY <1>2, <2>2, <2>4, <3>1, DueOrder
  <2>6. /\ p \in 1 .. Len(timers) + 1
        /\ \A i \in 1 .. p - 1 : ~ (Delta(timeout'[t], timeout'[timers[i]]) < 0)
        /\ p <= Len(timers) => Delta(timeout'[t], timeout'[timers[p]]) < 0
    <3> HIDE DEF p
    <3> QED BY <2>3, InsertionPointIsFirst DEF p
  <2> HIDE DEF p
  <2>7. \A i \in 1 .. Len(timers) : left'[timers[i]] \in Int
    BY <1>7, <2>4, ListTypes, LeftTypes
  <2>8. \A i \in 1 .. p - 1 : left'[timers[i]] <= left'[t]
    <3>1. TAKE i \in 1 .. p - 1
    <3>2. i \in 1 .. Len(timers)
      BY <2>6, ListTypes
    <3>3. ~ (x - left'[timers[i]] < 0)
      BY <2>5, <2>6, <3>2
    <3> QED BY <1>2, <2>4, <2>7, <3>2, <3>3
  <2>9. p <= Len(timers) => left'[t] <= left'[timers[p]]
    <3>1. HAVE p <= Len(timers)
    <3>2. p \in 1 .. Len(timers)
      BY <2>6, <3>1, ListTypes
    <3>3. x - left'[timers[p]] < 0
      BY <2>5, <2>6, <3>2
    <3> QED BY <1>2, <2>4, <2>7, <3>2, <3>3
  <2>10. /\ Ordered(timers', left')
         /\ Registered' = Registered \cup {t}
    <3>1. left \in [Timers -> Int] /\ left' \in [Timers -> Int]
      BY <1>2, <1>3, LeftTypes
    <3>0. \A u \in Timers \ {t} : left'[u] = left[u]
      BY <2>4
    <3>2. t \notin ToSet(timers)
      BY <1>7 DEF Registered
    <3>3. /\ Ordered(InsertAt(timers, p, t), left')
          /\ ToSet(InsertAt(timers, p, t)) = ToSet(timers) \cup {t}
      BY <2>2, <2>3, <2>6, <2>8, <2>9, <3>0, <3>1, <3>2, OrderedWith, Zenon
    <3> QED BY <2>1, <3>3 DEF Registered
  <2>11. timers' \in Seq(Timers)
    BY <2>1, <2>3, <2>6, AfterInsertAt
  <2>12. TimersTypeOK'
    BY <1>4, <1>5, <2>1, <2>11 DEF TimersTypeOK
  <2>13. CountedDown'
    <3>1. \A u \in Registered : u \in Timers \ {t}
      BY <1>7, ListTypes
    <3> QED BY <1>4, <2>2, <2>4, <2>10, <3>1 DEF CountedDown
  <2>14. NotLate'
    <3>1. \A u \in Registered : u \in Timers \ {t} /\ left[u] >= - busy - MaxBusy
      BY <1>4, <1>7, <2>2, ListTypes DEF NotLate
    <3>2. x >= - busy - MaxBusy
      BY <1>2, LeftTypes, ModulusFacts
    <3> QED BY <1>4, <2>1, <2>4, <2>10, <3>1, <3>2 DEF NotLate
  <2>15. TimeIsRecent' /\ WaitsForFirst'
    BY <1>4, <2>1, <2>2 DEF TimeIsRecent, WaitsForFirst
  <2>16. FirstIsDueFirst'
    BY <2>10 DEF FirstIsDueFirst, Ordered
  <2> QED BY <2>12, <2>13, <2>14, <2>15, <2>16 DEF OnTime
<1> QED BY <1>6, <1>7

(* A timer that leaves the list leaves the others as they are. *)
LEMMA UnlinkKeeps ==
  ASSUME TimersTypeOK, FirstIsDueFirst, NEW t \in Registered, Unlinked(t)
  PROVE  /\ timers' \in Seq(Timers) /\ timeout' \in [Timers -> Time]
         /\ left' \in [Timers -> - 2 * MaxBusy .. MaxDelay + 1]
         /\ FirstIsDueFirst' /\ Registered' = Registered \ {t}
         /\ \A u \in Timers \ {t} : timeout'[u] = timeout[u] /\ left'[u] = left[u]
<1>1. PICK i \in 1 .. Len(timers) : timers[i] = t
  BY ListTypes DEF Registered, ToSet
<1>2. timers \in Seq(Timers) /\ t \in Timers
  BY ListTypes DEF TimersTypeOK
<1>3. \A j \in 1 .. i - 1 : timers[j] # timers[i]
  BY ListTypes DEF FirstIsDueFirst
<1>4. timers' = RemoveAt(timers, i)
  BY <1>1, <1>2, <1>3, RemoveFirstIsRemoveAt DEF Unlinked
<1>5. /\ timeout' \in [Timers -> Time]
      /\ left' \in [Timers -> - 2 * MaxBusy .. MaxDelay + 1]
      /\ \A u \in Timers \ {t} : timeout'[u] = timeout[u] /\ left'[u] = left[u]
  <2>1. 0 \in Time /\ 0 \in - 2 * MaxBusy .. MaxDelay + 1
    BY ModulusFacts DEF Time
  <2> QED BY <1>2, <2>1 DEF Unlinked, TimersTypeOK
<1>6. timers' \in Seq(Timers)
  BY <1>2, <1>4, AfterRemoveAt
<1>7. left \in [Timers -> Int] /\ left' \in [Timers -> Int]
  <2>1. left' \in [Timers -> - 2 * MaxBusy .. MaxDelay + 1]
    BY <1>5
  <2> QED BY <2>1, LeftTypes, ModulusFacts
<1>8. /\ Ordered(RemoveAt(timers, i), left')
      /\ ToSet(RemoveAt(timers, i)) = ToSet(timers) \ {t}
  <2>1. Ordered(timers, left) /\ \A u \in Timers \ {timers[i]} : left'[u] = left[u]
    BY <1>1, <1>5, SameOrder
  <2>2. PICK after \in [Timers -> Int] : after = left'
    BY <1>7
  <2>3. \A u \in Timers \ {timers[i]} : after[u] = left[u]
    BY <2>1, <2>2
  <2>4. /\ Ordered(RemoveAt(timers, i), after)
        /\ ToSet(RemoveAt(timers, i)) = ToSet(timers) \ {timers[i]}
    BY <1>2, <1>7, <2>1, <2>3, OrderedWithout
  <2> QED BY <1>1, <2>2, <2>4
<1> QED
  BY <1>4, <1>5, <1>6, <1>8 DEF FirstIsDueFirst, Ordered, Registered

LEMMA RemoveKeeps ==
  ASSUME TimersTypeOK, OnTime, NEW t \in Timers, RemoveTimer(t)
  PROVE  TimersTypeOK' /\ OnTime'
<1>1. /\ t \in Registered /\ Unlinked(t) /\ phase \in {"work", "handler"}
      /\ UNCHANGED <<clock, phase, now, sleep, busy>>
  BY DEF RemoveTimer, ApplicationRuns
<1>2. FirstIsDueFirst /\ CountedDown /\ NotLate /\ TimeIsRecent
  BY <1>1 DEF OnTime, Running
<1>3. /\ timers' \in Seq(Timers) /\ timeout' \in [Timers -> Time]
      /\ left' \in [Timers -> - 2 * MaxBusy .. MaxDelay + 1]
      /\ FirstIsDueFirst' /\ Registered' = Registered \ {t}
      /\ \A u \in Timers \ {t} : timeout'[u] = timeout[u] /\ left'[u] = left[u]
  BY <1>1, <1>2, UnlinkKeeps
<1>4. \A u \in Registered' : u \in Registered /\ u \in Timers \ {t}
  BY <1>3, ListTypes
<1>5. TimersTypeOK'
  BY <1>1, <1>3 DEF TimersTypeOK
<1>6. CountedDown' /\ NotLate'
  BY <1>1, <1>2, <1>3, <1>4 DEF CountedDown, NotLate
<1>7. TimeIsRecent' /\ WaitsForFirst'
  BY <1>1, <1>2 DEF TimeIsRecent, WaitsForFirst
<1> QED BY <1>3, <1>5, <1>6, <1>7 DEF OnTime

LEMMA FireKeeps ==
  ASSUME TimersTypeOK, OnTime, FireTimer
  PROVE  TimersTypeOK' /\ OnTime'
<1> DEFINE t == Head(timers)
<1>1. /\ t \in Registered /\ Unlinked(t)
      /\ phase = "timers" /\ phase' = "handler"
      /\ UNCHANGED <<clock, now, sleep, busy>>
  BY ListTypes DEF FireTimer, TimerIsDue
<1> HIDE DEF t
<1>2. FirstIsDueFirst /\ CountedDown /\ NotLate /\ TimeIsRecent
  BY <1>1 DEF OnTime, Running
<1>3. /\ timers' \in Seq(Timers) /\ timeout' \in [Timers -> Time]
      /\ left' \in [Timers -> - 2 * MaxBusy .. MaxDelay + 1]
      /\ FirstIsDueFirst' /\ Registered' = Registered \ {t}
      /\ \A u \in Timers \ {t} : timeout'[u] = timeout[u] /\ left'[u] = left[u]
  BY <1>1, <1>2, UnlinkKeeps
<1>4. \A u \in Registered' : u \in Registered /\ u \in Timers \ {t}
  BY <1>3, ListTypes
<1>5. TimersTypeOK'
  BY <1>1, <1>3 DEF TimersTypeOK
<1>6. CountedDown' /\ NotLate'
  BY <1>1, <1>2, <1>3, <1>4 DEF CountedDown, NotLate
<1>7. TimeIsRecent' /\ WaitsForFirst'
  BY <1>1, <1>2 DEF TimeIsRecent, WaitsForFirst
<1> QED BY <1>3, <1>5, <1>6, <1>7 DEF OnTime

LEMMA ReadTimeKeeps ==
  ASSUME TimersTypeOK, OnTime, ReadTime
  PROVE  TimersTypeOK' /\ OnTime'
<1>1. /\ phase = "work" /\ phase' = "timers" /\ now' = clock
      /\ UNCHANGED <<clock, timers, timeout, sleep, busy, left>>
  BY DEF ReadTime
<1>2. FirstIsDueFirst /\ CountedDown /\ NotLate
  BY <1>1 DEF OnTime, Running
<1>3. TimeIsRecent'
  <2>1. 0 \in 0 .. busy /\ clock - 0 = clock
    BY LeftTypes
  <2>2. clock % ClockModulus = clock
    <3>1. clock \in 0 .. ClockModulus - 1 /\ 0 * ClockModulus + clock = clock
      BY ModulusFacts DEF TimersTypeOK, Time
    <3>2. (0 * ClockModulus + clock) % ClockModulus = clock
      BY <3>1, ModulusFacts, Remainder
    <3> QED BY <3>1, <3>2
  <2>3. now' = (clock - 0) % ClockModulus
    BY <1>1, <2>1, <2>2
  <2> QED BY <1>1, <2>1, <2>3 DEF TimeIsRecent
<1>4. TimersTypeOK'
  BY <1>1 DEF TimersTypeOK
<1>5. FirstIsDueFirst' /\ CountedDown' /\ NotLate' /\ WaitsForFirst'
  BY <1>1, <1>2 DEF FirstIsDueFirst, CountedDown, NotLate, WaitsForFirst, Registered
<1> QED BY <1>3, <1>4, <1>5 DEF OnTime

LEMMA HandlerReturnsKeeps ==
  ASSUME TimersTypeOK, OnTime, TimerHandlerReturns
  PROVE  TimersTypeOK' /\ OnTime'
<1>1. /\ phase = "handler" /\ phase' = "timers"
      /\ UNCHANGED <<clock, timers, timeout, now, sleep, busy, left>>
  BY DEF TimerHandlerReturns
<1>2. FirstIsDueFirst /\ CountedDown /\ NotLate /\ TimeIsRecent
  BY <1>1 DEF OnTime, Running
<1>3. TimersTypeOK'
  BY <1>1 DEF TimersTypeOK
<1>4. FirstIsDueFirst' /\ CountedDown' /\ NotLate'
  BY <1>1, <1>2 DEF FirstIsDueFirst, CountedDown, NotLate, Registered
<1>5. TimeIsRecent' /\ WaitsForFirst'
  BY <1>1, <1>2 DEF TimeIsRecent, WaitsForFirst
<1> QED BY <1>3, <1>4, <1>5 DEF OnTime

(* The first timer of an ordered list is the first that is due. *)
LEMMA FirstOfList ==
  ASSUME TimersTypeOK, FirstIsDueFirst, timers # <<>>
  PROVE  /\ Head(timers) \in Registered /\ Head(timers) \in Timers
         /\ \A u \in Registered : left[Head(timers)] <= left[u]
<1>1. Head(timers) = timers[1] /\ 1 \in 1 .. Len(timers) /\ timers[1] \in Timers
  BY ListTypes
<1>2. ASSUME NEW u \in Registered PROVE left[timers[1]] <= left[u]
  <2>1. PICK i \in 1 .. Len(timers) : timers[i] = u
    BY ListTypes DEF Registered, ToSet
  <2>2. CASE i = 1
    BY <1>1, <2>1, <2>2, LeftTypes
  <2>3. CASE i # 1
    BY <1>1, <2>1, <2>3, ListTypes DEF FirstIsDueFirst
  <2> QED BY <2>2, <2>3
<1> QED BY <1>1, <1>2, ListTypes

LEMMA SleepKeeps ==
  ASSUME TimersTypeOK, OnTime, GoToSleep
  PROVE  TimersTypeOK' /\ OnTime'
<1>1. /\ phase = "timers" /\ phase' = "asleep" /\ ~ TimerIsDue
      /\ sleep' = TimeUntilTimeout /\ now' = 0 /\ busy' = 0
      /\ UNCHANGED <<clock, timers, timeout, left>>
  BY DEF GoToSleep
<1>2. FirstIsDueFirst /\ CountedDown /\ NotLate /\ TimeIsRecent
  BY <1>1 DEF OnTime, Running
<1>3. PICK e \in 0 .. busy : now = (clock - e) % ClockModulus
  BY <1>1, <1>2 DEF TimeIsRecent
<1>4. e \in Int /\ 0 <= e /\ e <= MaxBusy
  BY <1>3, LeftTypes, ModulusFacts
<1>5. /\ sleep' \in -1 .. MaxDelay + 1 + MaxBusy
      /\ timers # <<>> => sleep' >= 0
      /\ \A u \in Registered : left[u] >= sleep' - MaxBusy
  <2>1. CASE timers = <<>>
    <3>1. sleep' = -1 /\ -1 \in -1 .. MaxDelay + 1 + MaxBusy
      BY <1>1, <2>1, ModulusFacts DEF TimeUntilTimeout
    <3>2. Registered = {}
      BY <2>1 DEF Registered, ToSet
    <3> QED BY <2>1, <3>1, <3>2
  <2>2. CASE timers # <<>>
    <3> DEFINE h == Head(timers)
    <3>1. h \in Registered /\ h \in Timers /\ \A u \in Registered : left[h] <= left[u]
      BY <1>2, <2>2, FirstOfList
    <3>2. Delta(timeout[h], now) = left[h] + e
      BY <1>2, <1>3, <3>1, DueAt
    <3>3. sleep' = IF left[h] + e < 0 THEN 0 ELSE left[h] + e
      BY <1>1, <2>2, <3>2 DEF TimeUntilTimeout
    <3>4. ~ (left[h] + e <= 0)
      BY <1>1, <2>2, <3>2 DEF TimerIsDue
    <3>5. left[h] \in Int /\ left[h] <= MaxDelay + 1
      BY <3>1, LeftTypes
    <3> HIDE DEF h
    <3>6. sleep' = left[h] + e /\ sleep' \in -1 .. MaxDelay + 1 + MaxBusy /\ sleep' >= 0
      BY <1>4, <3>3, <3>4, <3>5, ModulusFacts
    <3>7. ASSUME NEW u \in Registered PROVE left[u] >= sleep' - MaxBusy
      <4>1. left[u] \in Int /\ left[h] <= left[u]
        BY <3>1, ListTypes, LeftTypes
      <4> QED BY <1>4, <3>5, <3>6, <4>1, ModulusFacts
    <3> QED BY <3>6, <3>7
  <2> QED BY <2>1, <2>2
<1>6. TimersTypeOK'
  <2>1. 0 \in Time /\ 0 \in 0 .. MaxBusy
    BY ModulusFacts DEF Time
  <2> QED BY <1>1, <1>5, <2>1 DEF TimersTypeOK
<1>7. FirstIsDueFirst' /\ CountedDown'
  BY <1>1, <1>2 DEF FirstIsDueFirst, CountedDown, Registered
<1>8. NotLate' /\ TimeIsRecent' /\ WaitsForFirst'
  BY <1>1, <1>5 DEF NotLate, TimeIsRecent, WaitsForFirst, Registered
<1> QED BY <1>6, <1>7, <1>8 DEF OnTime

LEMMA WakeUpKeeps ==
  ASSUME TimersTypeOK, OnTime, WakeUp
  PROVE  TimersTypeOK' /\ OnTime'
<1>1. /\ phase = "asleep" /\ phase' = "work" /\ sleep' = -1
      /\ UNCHANGED <<clock, timers, timeout, now, busy, left>>
  BY DEF WakeUp
<1>2. FirstIsDueFirst /\ CountedDown /\ NotLate /\ WaitsForFirst
  BY <1>1 DEF OnTime, Running
<1>3. TimersTypeOK'
  <2>1. -1 \in -1 .. MaxDelay + 1 + MaxBusy
    BY ModulusFacts
  <2> QED BY <1>1, <2>1 DEF TimersTypeOK
<1>4. NotLate'
  <2>1. ASSUME NEW u \in Registered PROVE left[u] >= - busy - MaxBusy
    <3>1. timers # <<>>
      BY DEF Registered, ToSet
    <3>2. sleep >= 0 /\ busy = 0
      BY <1>1, <1>2, <3>1 DEF WaitsForFirst
    <3>3. left[u] >= sleep - MaxBusy /\ left[u] \in Int /\ sleep \in Int
      BY <1>1, <1>2, ListTypes, LeftTypes, ModulusFacts DEF NotLate, TimersTypeOK
    <3> QED BY <3>2, <3>3, ModulusFacts
  <2> QED BY <1>1, <2>1 DEF NotLate, Registered
<1>5. FirstIsDueFirst' /\ CountedDown' /\ TimeIsRecent' /\ WaitsForFirst'
  BY <1>1, <1>2 DEF FirstIsDueFirst, CountedDown, TimeIsRecent, WaitsForFirst, Registered
<1> QED BY <1>3, <1>4, <1>5 DEF OnTime

LEMMA TickKeeps ==
  ASSUME TimersTypeOK, OnTime, Tick
  PROVE  TimersTypeOK' /\ OnTime'
<1>1. /\ Running /\ IF phase = "asleep" THEN sleep # 0 ELSE busy < MaxBusy
      /\ clock' = (clock + 1) % ClockModulus
      /\ left' = [t \in Timers |-> IF t \in Registered THEN left[t] - 1 ELSE left[t]]
      /\ busy' = IF phase = "asleep" THEN busy ELSE busy + 1
      /\ sleep' = IF phase = "asleep" /\ sleep > 0 THEN sleep - 1 ELSE sleep
      /\ UNCHANGED <<timers, timeout, phase, now>>
  BY DEF Tick, Running
<1>2. FirstIsDueFirst /\ CountedDown /\ NotLate /\ TimeIsRecent /\ WaitsForFirst
  BY <1>1 DEF OnTime
<1>3. /\ clock \in Int /\ sleep \in Int /\ -1 <= sleep /\ busy \in Int
      /\ sleep <= MaxDelay + 1 + MaxBusy
  BY LeftTypes, ModulusFacts DEF TimersTypeOK
<1>4. Registered' = Registered /\ Registered \subseteq Timers
  BY <1>1, ListTypes DEF Registered
<1>5. \A u \in Registered : left'[u] = left[u] - 1 /\ left[u] \in Int
  BY <1>1, <1>4, LeftTypes
<1>6. NotLate'
  <2>1. ASSUME NEW u \in Registered
        PROVE  left[u] - 1 >= (IF phase = "asleep" THEN sleep' ELSE - busy') - MaxBusy
    <3>1. left[u] >= (IF phase = "asleep" THEN sleep ELSE - busy) - MaxBusy
      BY <1>2 DEF NotLate
    <3>2. CASE phase = "asleep"
      <4>1. sleep >= 0 /\ sleep # 0
        <5>1. timers # <<>>
          BY DEF Registered, ToSet
        <5> QED BY <1>1, <1>2, <3>2, <5>1 DEF WaitsForFirst
      <4>2. sleep' = sleep - 1
        BY <1>1, <1>3, <3>2, <4>1
      <4> QED BY <1>3, <1>5, <3>1, <3>2, <4>2, ModulusFacts
    <3>3. CASE phase # "asleep"
      <4>1. busy' = busy + 1
        BY <1>1, <3>3
      <4> QED BY <1>3, <1>5, <3>1, <3>3, <4>1, ModulusFacts
    <3> QED BY <3>2, <3>3
  <2> QED BY <1>1, <1>4, <1>5, <2>1 DEF NotLate
<1>7. left' \in [Timers -> - 2 * MaxBusy .. MaxDelay + 1]
  <2>1. ASSUME NEW u \in Timers
        PROVE  left'[u] \in - 2 * MaxBusy .. MaxDelay + 1
    <3>1. left[u] \in Int /\ - 2 * MaxBusy <= left[u] /\ left[u] <= MaxDelay + 1
      BY LeftTypes
    <3>2. CASE u \notin Registered
      BY <1>1, <3>1, <3>2, ModulusFacts
    <3>3. CASE u \in Registered
      <4>1. left'[u] >= (IF phase = "asleep" THEN sleep' ELSE - busy') - MaxBusy
        BY <1>1, <1>4, <1>6, <3>3 DEF NotLate
      <4>2. CASE phase = "asleep"
        <5>1. timers # <<>>
          BY <3>3 DEF Registered, ToSet
        <5>2. sleep > 0
          BY <1>1, <1>2, <1>3, <4>2, <5>1 DEF WaitsForFirst
        <5>3. sleep' = sleep - 1
          BY <1>1, <4>2, <5>2
        <5> QED BY <1>3, <1>5, <3>1, <3>3, <4>1, <4>2, <5>2, <5>3, ModulusFacts
      <4>3. CASE phase # "asleep"
        <5>1. busy < MaxBusy /\ busy' = busy + 1
          BY <1>1, <4>3
        <5> QED BY <1>3, <1>5, <3>1, <3>3, <4>1, <4>3, <5>1, ModulusFacts
      <4> QED BY <4>2, <4>3
    <3> QED BY <3>2, <3>3
  <2> QED BY <1>1, <2>1
<1>8. TimersTypeOK'
  <2>1. clock' \in Time
    BY <1>1, <1>3, TimeType
  <2>2. busy' \in 0 .. MaxBusy
    BY <1>1, <1>3, LeftTypes, ModulusFacts
  <2>3. sleep' \in -1 .. MaxDelay + 1 + MaxBusy
    BY <1>1, <1>3, ModulusFacts
  <2> QED BY <1>1, <1>7, <2>1, <2>2, <2>3 DEF TimersTypeOK
<1>9. FirstIsDueFirst'
  <2>1. ASSUME NEW i \in 1 .. Len(timers), NEW j \in 1 .. Len(timers), i < j
        PROVE  timers[i] # timers[j] /\ left'[timers[i]] <= left'[timers[j]]
    <3>1. timers[i] # timers[j] /\ left[timers[i]] <= left[timers[j]]
      BY <1>2, <2>1 DEF FirstIsDueFirst
    <3>2. timers[i] \in Registered /\ timers[j] \in Registered
      BY ListTypes
    <3> QED BY <1>5, <3>1, <3>2
  <2> QED BY <1>1, <2>1 DEF FirstIsDueFirst
<1>10. CountedDown'
  <2>1. ASSUME NEW u \in Registered
        PROVE  timeout[u] = (clock' + left'[u]) % ClockModulus
    <3>1. timeout[u] = (clock + left[u]) % ClockModulus
      BY <1>2 DEF CountedDown
    <3> DEFINE a == clock + 1
               b == left[u] - 1
    <3>2. a \in Int /\ b \in Int /\ a + b = clock + left[u]
      BY <1>3, <1>5
    <3>3. clock' = a % ClockModulus /\ left'[u] = b
      BY <1>1, <1>5
    <3> HIDE DEF a, b
    <3>4. ((a % ClockModulus) + b) % ClockModulus = (a + b) % ClockModulus
      BY <3>2, TimeShifts
    <3> QED BY <3>1, <3>2, <3>3, <3>4
  <2> QED BY <1>1, <1>4, <2>1 DEF CountedDown
<1>11. TimeIsRecent'
  <2>1. SUFFICES ASSUME phase \in {"timers", "handler"}
                 PROVE  \E e \in 0 .. busy' : now = (clock' - e) % ClockModulus
    BY <1>1 DEF TimeIsRecent
  <2>2. PICK e \in 0 .. busy : now = (clock - e) % ClockModulus
    BY <1>2, <2>1 DEF TimeIsRecent
  <2>3. e + 1 \in 0 .. busy' /\ e \in Int
    BY <1>1, <1>3, <2>1
  <2>4. (((clock + 1) % ClockModulus) + (- (e + 1))) % ClockModulus
          = ((clock + 1) + (- (e + 1))) % ClockModulus
    BY <1>3, <2>3, TimeShifts
  <2>5. (clock + 1) + (- (e + 1)) = clock - e
    BY <1>3, <2>3
  <2>6. clock' - (e + 1) = ((clock + 1) % ClockModulus) + (- (e + 1))
    BY <1>1, <1>3, <2>3, TimeType, ModulusFacts DEF Time
  <2>7. now = (clock' - (e + 1)) % ClockModulus
    BY <2>2, <2>4, <2>5, <2>6
  <2> QED BY <2>3, <2>7
<1>12. WaitsForFirst'
  BY <1>1, <1>2, <1>3 DEF WaitsForFirst
<1> QED BY <1>6, <1>8, <1>9, <1>10, <1>11, <1>12 DEF OnTime

-----------------------------------------------------------------------------
LEMMA TimersInitially == TimersInit => TimersTypeOK /\ OnTime
<1> SUFFICES ASSUME TimersInit PROVE TimersTypeOK /\ OnTime
  OBVIOUS
<1>1. timers = <<>> /\ phase = "work" /\ sleep = -1 /\ busy = 0
  BY DEF TimersInit
<1>2. Registered = {} /\ Len(timers) = 0
  BY <1>1 DEF Registered, ToSet
<1>3. TimersTypeOK
  <2>1. /\ 0 \in Time /\ 0 \in - 2 * MaxBusy .. MaxDelay + 1 /\ 0 \in 0 .. MaxBusy
        /\ -1 \in -1 .. MaxDelay + 1 + MaxBusy
    BY ModulusFacts DEF Time
  <2>2. timers \in Seq(Timers)
    BY <1>1
  <2> QED BY <2>1, <2>2 DEF TimersInit, TimersTypeOK
<1>4. FirstIsDueFirst
  BY <1>2 DEF FirstIsDueFirst
<1> QED
  BY <1>1, <1>2, <1>3, <1>4
  DEF OnTime, CountedDown, NotLate, TimeIsRecent, WaitsForFirst

LEMMA TimersInductive ==
  TimersTypeOK /\ OnTime /\ [TimersNext]_timerVars => TimersTypeOK' /\ OnTime'
<1> SUFFICES ASSUME TimersTypeOK, OnTime, [TimersNext]_timerVars
             PROVE  TimersTypeOK' /\ OnTime'
  OBVIOUS
<1>1. ASSUME NEW t \in Timers, StartTimer(t) PROVE TimersTypeOK' /\ OnTime'
  BY <1>1, StartKeeps
<1>2. ASSUME NEW t \in Timers, RemoveTimer(t) PROVE TimersTypeOK' /\ OnTime'
  BY <1>2, RemoveKeeps
<1>3. CASE ReadTime
  BY <1>3, ReadTimeKeeps
<1>4. CASE FireTimer
  BY <1>4, FireKeeps
<1>5. CASE TimerHandlerReturns
  BY <1>5, HandlerReturnsKeeps
<1>6. CASE GoToSleep
  BY <1>6, SleepKeeps
<1>7. CASE WakeUp
  BY <1>7, WakeUpKeeps
<1>8. CASE Tick
  BY <1>8, TickKeeps
<1>9. CASE UNCHANGED timerVars
  <2>1. UNCHANGED <<clock, timers, timeout, phase, now, sleep, busy, left>>
    BY <1>9 DEF timerVars
  <2>2. TimersTypeOK'
    BY <2>1 DEF TimersTypeOK
  <2> QED
    BY <2>1, <2>2
    DEF OnTime, Running, FirstIsDueFirst, CountedDown, NotLate, TimeIsRecent,
        WaitsForFirst, Registered
<1> QED
  BY <1>1, <1>2, <1>3, <1>4, <1>5, <1>6, <1>7, <1>8, <1>9
  DEF TimersNext, ProcessTimers

LEMMA OnTimeAlways == TimersSpec => [](TimersTypeOK /\ OnTime)
BY TimersInitially, TimersInductive, PTL DEF TimersSpec

(* Every variable of the run loop's timers keeps its type: nothing the     *)
(* loop counts, the signed differences of wrapped times included, leaves   *)
(* its range.                                                              *)
THEOREM TimersTypeCorrect == TimersSpec => []TimersTypeOK
BY OnTimeAlways, PTL

-----------------------------------------------------------------------------
(* The order of the list.                                                  *)

(* As long as no assertion stopped the loop the list is in the order in    *)
(* which timers are due and holds each once, also when handlers start      *)
(* timers that are registered: add_timer leaves a sound list or none.      *)
THEOREM OrderUntilAssertion == TimersSpec => [](Running => FirstIsDueFirst)
<1>1. OnTime => (Running => FirstIsDueFirst)
  BY DEF OnTime
<1> QED BY <1>1, OnTimeAlways, PTL

(* Handlers that start no registered timer never meet the assertion. *)
LEMMA RunsForever ==
  ASSUME ~ MayStartTwice
  PROVE  TimersSpec => []Running
<1>1. TimersInit => Running
  BY DEF TimersInit, Running
<1>2. Running /\ [TimersNext]_timerVars => Running'
  BY DEF Running, TimersNext, ProcessTimers, timerVars, StartTimer, AddTimer,
         RemoveTimer, ReadTime, FireTimer, TimerHandlerReturns, GoToSleep, WakeUp, Tick
<1> QED BY <1>1, <1>2, PTL DEF TimersSpec

(* The list is in the order in which timers are really due and holds each  *)
(* timer once (add_timer, remove_timer), for any number of timers, any     *)
(* delays and wherever the clock wraps around.                             *)
THEOREM ListInOrder ==
  ASSUME ~ MayStartTwice
  PROVE  TimersSpec => []FirstIsDueFirst
BY OrderUntilAssertion, RunsForever, PTL

(* A handler runs when the delay of its timer has passed, before that of   *)
(* any timer that is due later, and late by no more than two working       *)
(* phases (process_timers, get_time_until_timeout).                        *)
THEOREM HandlersRunOnTime == TimersSpec => FiresOnTime
<1>1. ASSUME TimersTypeOK, OnTime, FireTimer
      PROVE  /\ left[Head(timers)] \in - 2 * MaxBusy .. 0
             /\ \A t \in Registered : left[Head(timers)] <= left[t]
  <2> DEFINE h == Head(timers)
  <2>1. phase = "timers" /\ timers # <<>> /\ Delta(timeout[h], now) <= 0
    BY <1>1 DEF FireTimer, TimerIsDue
  <2>2. FirstIsDueFirst /\ CountedDown /\ TimeIsRecent
    BY <1>1, <2>1 DEF OnTime, Running
  <2>3. h \in Registered /\ h \in Timers /\ \A t \in Registered : left[h] <= left[t]
    BY <1>1, <2>1, <2>2, FirstOfList
  <2>4. PICK e \in 0 .. busy : now = (clock - e) % ClockModulus
    BY <2>1, <2>2 DEF TimeIsRecent
  <2>5. Delta(timeout[h], now) = left[h] + e
    BY <1>1, <2>2, <2>3, <2>4, DueAt
  <2>6. left[h] \in Int /\ - 2 * MaxBusy <= left[h] /\ e \in Int /\ 0 <= e
    BY <1>1, <2>3, <2>4, LeftTypes
  <2> HIDE DEF h
  <2>7. left[h] <= 0
    BY <2>1, <2>5, <2>6
  <2>8. left[h] \in - 2 * MaxBusy .. 0
    BY <2>6, <2>7, ModulusFacts
  <2> QED BY <2>3, <2>8 DEF h
<1>2. TimersTypeOK /\ OnTime =>
        [FireTimer => /\ left[Head(timers)] \in - 2 * MaxBusy .. 0
                      /\ \A t \in Registered : left[Head(timers)] <= left[t]]_timerVars
  BY <1>1
<1> QED BY <1>2, OnTimeAlways, PTL DEF FiresOnTime
=============================================================================
