----------------------------- MODULE StdinProofs -----------------------------
(***************************************************************************)
(* The handshake between the stdin task and the run loop loses, doubles    *)
(* and reorders no character, whatever is typed, however many other tasks  *)
(* call the loop and whatever they have it do.                             *)
(***************************************************************************)
EXTENDS Stdin, SequenceTheorems, TLAPS

(* Steps of the loop and of its clients leave the console alone, and none  *)
(* of them leaves the place where data sources are polled.                 *)
LEMMA ElsewhereKeeps ==
  ASSUME \/ Elsewhere(LoopProceeds) \/ Elsewhere(LoopMay)
         \/ \E c \in Clients : Elsewhere(Client(c))
  PROVE  UNCHANGED stdinVars /\ (pc = "sources" => pc' = "sources")
<1>1. UNCHANGED stdinVars
  BY DEF Elsewhere
<1>2. CASE Elsewhere(LoopProceeds)
  BY <1>2 DEF Elsewhere, LoopProceeds, Begin, LoopTakesMutex, PopCallback,
              NoCallback, HandlerRuns, HandlerReturns, CallFunction, CheckExit,
              Wait, LoopMoves
<1>3. CASE Elsewhere(LoopMay)
  BY <1>3 DEF Elsewhere, LoopMay, HandlerAsksAgain, HandlerTriggersExit,
              TimerDue, LoopMoves, loopVars
<1>4. CASE \E c \in Clients : Elsewhere(Client(c))
  BY <1>4 DEF Elsewhere, Client, AskForCallback, ClientTakesMutex, ClientAdds,
              Trigger, ExecuteCodeOnMainThread, TriggerExit, ClientMoves, loopVars
<1> QED
  BY <1>1, <1>2, <1>3, <1>4

(* The console is one of the tasks that RunLoopCalls knows of: with it, the*)
(* loop and its clients still behave as their specification says, and what *)
(* holds of that holds here (btstack_run_loop_freertos_trigger).           *)
THEOREM ConsoleIsAnotherTask == ConsoleSpec => Spec
<1>1. ConsoleNext => Next \/ UNCHANGED vars
  BY DEF ConsoleNext, Type, StdinTask, ReadByte, SetReceived, RequestPoll,
         InputProcessed, StdinProcess, NothingReceived, CallHandler,
         ClearReceived, Elsewhere, LoopStep, Next
<1>2. UNCHANGED consoleVars => UNCHANGED vars
  BY DEF consoleVars
<1>3. [ConsoleNext]_consoleVars => [Next]_vars
  BY <1>1, <1>2
<1> QED
  BY <1>3, PTL DEF ConsoleSpec, ConsoleInit, Spec

-----------------------------------------------------------------------------
LEMMA TypeInductive == StdinTypeOK /\ [ConsoleNext]_consoleVars => StdinTypeOK'
<1> SUFFICES ASSUME StdinTypeOK, [ConsoleNext]_consoleVars PROVE StdinTypeOK'
  OBVIOUS
<1> USE DEF StdinTypeOK, vars
<1>1. CASE Type
  <2>1. Input[Len(typed) + 1] \in Chars
    BY <1>1, StdinAssumption DEF Type
  <2> QED
    BY <1>1, <2>1, AppendProperties DEF Type
<1>2. CASE ReadByte
  BY <1>2, HeadTailProperties DEF ReadByte
<1>3. CASE SetReceived
  BY <1>3 DEF SetReceived
<1>4. CASE RequestPoll
  BY <1>4 DEF RequestPoll, OtherTaskTriggers, loopVars
<1>5. CASE InputProcessed
  BY <1>5 DEF InputProcessed
<1>6. CASE CallHandler
  BY <1>6, AppendProperties DEF CallHandler
<1>7. CASE NothingReceived
  BY <1>7 DEF NothingReceived, stdinVars
<1>8. CASE ClearReceived
  BY <1>8 DEF ClearReceived
<1>9. CASE \/ Elsewhere(LoopProceeds) \/ Elsewhere(LoopMay)
           \/ \E c \in Clients : Elsewhere(Client(c))
  BY <1>9, ElsewhereKeeps DEF stdinVars
<1>10. CASE UNCHANGED consoleVars
  BY <1>10 DEF consoleVars, stdinVars
<1> QED
  BY <1>1, <1>2, <1>3, <1>4, <1>5, <1>6, <1>7, <1>8, <1>9, <1>10
     DEF ConsoleNext, StdinTask, StdinProcess

(* The types, with the phases of the handshake: the flag is only set while *)
(* the stdin task waits for it (btstack_stdin_task, btstack_stdin_process).*)
THEOREM TypeCorrect == ConsoleSpec => []StdinTypeOK
<1>1. StdinInit => StdinTypeOK
  BY StdinAssumption, EmptySeq DEF StdinInit, StdinTypeOK
<1> QED
  BY <1>1, TypeInductive, PTL DEF ConsoleSpec, ConsoleInit

-----------------------------------------------------------------------------
(* The character is on its way from the moment it is read until the        *)
(* handler was called with it.                                             *)
Pending == task = "flag" \/ (received /\ ~ processing)

(* What the handler still has to be called with, in this order.            *)
ToHandle == IF Pending THEN <<character>> \o uart ELSE uart

NothingLost == typed = handled \o ToHandle

LEMMA HeadAndTail ==
  ASSUME NEW S, NEW s \in Seq(S), s # <<>>
  PROVE  /\ Head(s) \in S /\ Tail(s) \in Seq(S)
         /\ s = <<Head(s)>> \o Tail(s)
<1>1. /\ Head(s) \in S /\ Tail(s) \in Seq(S) /\ Len(Tail(s)) = Len(s) - 1
      /\ \A i \in 1 .. Len(Tail(s)) : Tail(s)[i] = s[i+1]
  BY HeadTailProperties
<1>2. Len(s) \in Nat \ {0} /\ Head(s) = s[1]
  BY EmptySeq, LenProperties
<1> DEFINE h == <<Head(s)>>
<1>3. h \in Seq(S) /\ Len(h) = 1 /\ h[1] = Head(s)
  BY <1>1
<1> DEFINE both == h \o Tail(s)
<1> HIDE DEF h
<1>4. /\ both \in Seq(S) /\ Len(both) = 1 + Len(Tail(s))
      /\ \A i \in 1 .. 1 + Len(Tail(s)) :
           both[i] = IF i <= 1 THEN h[i] ELSE Tail(s)[i - 1]
  <2>1. h \in Seq(S) /\ Tail(s) \in Seq(S)
    BY <1>1, <1>3
  <2>2. /\ both \in Seq(S) /\ Len(both) = Len(h) + Len(Tail(s))
        /\ \A i \in 1 .. Len(h) + Len(Tail(s)) :
             both[i] = IF i <= Len(h) THEN h[i] ELSE Tail(s)[i - Len(h)]
    BY ONLY <2>1, ConcatProperties
  <2> HIDE DEF both
  <2> QED
    BY ONLY <2>2, <1>3
<1> HIDE DEF both
<1>5. \A i \in 1 .. Len(s) : both[i] = s[i]
  BY <1>1, <1>2, <1>3, <1>4
<1>6. Len(both) = Len(s)
  BY <1>1, <1>2, <1>4
<1>7. both = s
  BY <1>4, <1>5, <1>6, SeqEqual
<1> QED
  BY <1>1, <1>7 DEF both, h

(* The first of those on their way goes behind those handled.              *)
LEMMA MoveFirst ==
  ASSUME NEW S, NEW s \in Seq(S), NEW t \in Seq(S), NEW e \in S
  PROVE  Append(s, e) \o t = s \o (<<e>> \o t)
<1>1. <<e>> \in Seq(S)
  OBVIOUS
<1> QED
  BY <1>1, AppendIsConcat, ConcatAssociative

LEMMA NothingLostInductive ==
  StdinTypeOK /\ NothingLost /\ [ConsoleNext]_consoleVars => NothingLost'
<1> SUFFICES ASSUME StdinTypeOK, NothingLost, [ConsoleNext]_consoleVars
             PROVE  NothingLost'
  OBVIOUS
<1>1. /\ uart \in Seq(Chars) /\ handled \in Seq(Chars) /\ character \in Chars
      /\ <<character>> \in Seq(Chars) /\ received \in BOOLEAN
      /\ received => task \in {"trigger", "wait"}
      /\ processing \in BOOLEAN /\ (processing => received)
  BY DEF StdinTypeOK
<1>2. ToHandle \in Seq(Chars)
  BY <1>1, ConcatProperties DEF ToHandle
<1>3. CASE Type
  <2>1. PICK c \in Chars : typed' = Append(typed, c) /\ uart' = Append(uart, c)
    <3>1. Input[Len(typed) + 1] \in Chars
      BY <1>3, StdinAssumption DEF Type, StdinTypeOK
    <3> QED BY <1>3, <3>1 DEF Type
  <2>2. handled' = handled /\ character' = character /\ (Pending' <=> Pending)
    BY <1>3 DEF Type, Pending
  <2> DEFINE last == <<c>>
  <2>3. last \in Seq(Chars)
    BY <2>1
  <2>4. typed' = typed \o last /\ uart' = uart \o last
    BY <2>1, AppendIsConcat DEF StdinTypeOK
  <2> HIDE DEF last
  <2>5. ToHandle' = ToHandle \o last
    <3> DEFINE first == <<character>>
    <3>1. first \in Seq(Chars)
      BY <1>1
    <3>2. ToHandle = IF Pending THEN first \o uart ELSE uart
      BY DEF ToHandle
    <3>3. ToHandle' = IF Pending THEN first \o (uart \o last) ELSE uart \o last
      BY <2>2, <2>4 DEF ToHandle
    <3> HIDE DEF first
    <3>4. (first \o uart) \o last = first \o (uart \o last)
      BY <1>1, <2>3, <3>1, ConcatAssociative
    <3> QED BY <3>2, <3>3, <3>4
  <2>6. (handled \o ToHandle) \o last = handled \o (ToHandle \o last)
    BY <1>1, <1>2, <2>3, ConcatAssociative
  <2> QED
    BY <2>2, <2>4, <2>5, <2>6 DEF NothingLost
<1>4. CASE ReadByte
  <2>1. /\ task = "read" /\ uart # <<>> /\ task' = "flag"
        /\ character' = Head(uart) /\ uart' = Tail(uart)
        /\ typed' = typed /\ handled' = handled
    BY <1>4 DEF ReadByte
  <2>2. ~ Pending /\ Pending'
    BY <1>1, <2>1 DEF Pending
  <2>3. ToHandle' = ToHandle
    BY <1>1, <2>1, <2>2, HeadAndTail DEF ToHandle
  <2> QED
    BY <2>1, <2>3 DEF NothingLost
<1>5. CASE CallHandler
  <2>1. /\ received /\ ~ processing /\ processing' /\ received' = received
        /\ task' = task
        /\ handled' = Append(handled, character) /\ uart' = uart
        /\ typed' = typed
    BY <1>5 DEF CallHandler
  <2>2. Pending /\ ~ Pending'
    BY <1>1, <2>1 DEF Pending
  <2>3. ToHandle = <<character>> \o uart /\ ToHandle' = uart
    BY <2>1, <2>2 DEF ToHandle
  <2> QED
    BY <1>1, <2>1, <2>3, MoveFirst DEF NothingLost
<1>6. ASSUME Pending' <=> Pending, UNCHANGED <<uart, character, typed, handled>>
      PROVE  NothingLost'
  BY <1>6 DEF NothingLost, ToHandle
<1>7. CASE SetReceived
  BY <1>1, <1>6, <1>7 DEF SetReceived, Pending
<1>8. CASE RequestPoll \/ InputProcessed
  BY <1>1, <1>6, <1>8 DEF RequestPoll, InputProcessed, Pending
<1>9. CASE UNCHANGED stdinVars
  BY <1>6, <1>9 DEF stdinVars, Pending
<1>10. CASE ClearReceived
  BY <1>1, <1>6, <1>10 DEF ClearReceived, Pending
<1>11. CASE \/ Elsewhere(LoopProceeds) \/ Elsewhere(LoopMay)
            \/ \E c \in Clients : Elsewhere(Client(c))
  BY <1>9, <1>11, ElsewhereKeeps
<1>12. CASE NothingReceived \/ UNCHANGED consoleVars
  BY <1>9, <1>12 DEF NothingReceived, consoleVars
<1> QED
  BY <1>3, <1>4, <1>5, <1>7, <1>8, <1>10, <1>11, <1>12
     DEF ConsoleNext, StdinTask, StdinProcess

(* What was handled is what was typed first, and no more than one character*)
(* is neither handled nor in the UART.                                     *)
LEMMA NothingLostIsInOrder == StdinTypeOK /\ NothingLost => HandledInOrder
<1> SUFFICES ASSUME StdinTypeOK, NothingLost PROVE HandledInOrder
  OBVIOUS
<1>1. /\ uart \in Seq(Chars) /\ handled \in Seq(Chars)
      /\ <<character>> \in Seq(Chars) /\ Len(<<character>>) = 1
  BY DEF StdinTypeOK
<1>2. ToHandle \in Seq(Chars) /\ Len(ToHandle) <= Len(uart) + 1
  BY <1>1, ConcatProperties, LenProperties DEF ToHandle
<1>3. Len(handled) \in Nat /\ Len(uart) \in Nat /\ Len(ToHandle) \in Nat
  BY <1>1, <1>2, LenProperties
<1>4. /\ typed = handled \o ToHandle
      /\ Len(typed) = Len(handled) + Len(ToHandle)
  BY <1>1, <1>2, ConcatProperties DEF NothingLost
<1>5. SubSeq(handled, 1, Len(handled)) = SubSeq(typed, 1, Len(handled))
  <2>1. CASE Len(handled) = 0
    BY <2>1, SubSeqEmpty
  <2>2. CASE Len(handled) # 0
    <3>1. 1 \in 1 .. Len(handled) /\ Len(handled) \in 1 .. Len(handled)
      BY <1>3, <2>2
    <3> QED BY <1>1, <1>2, <1>4, <3>1, SubSeqOfConcat1
  <2> QED BY <2>1, <2>2
<1> QED
  BY <1>2, <1>3, <1>4, <1>5 DEF HandledInOrder, IsPrefix

(* Every character reaches the handler once, unchanged and in the order    *)
(* typed (btstack_stdin_task, btstack_stdin_process).                      *)
THEOREM InOrder == ConsoleSpec => []HandledInOrder
<1>1. StdinInit => NothingLost
  BY ConcatEmptySeq DEF StdinInit, NothingLost, ToHandle, Pending
<1> QED
  BY <1>1, TypeCorrect, NothingLostInductive, NothingLostIsInOrder, PTL
  DEF ConsoleSpec, ConsoleInit
=============================================================================
