----------------------------- MODULE DV4Proofs ------------------------------
(***************************************************************************)
(* Theorems about DV4Mini, for any application commands, any answers of    *)
(* the stick, any period of the watchdog and any number of sessions; and   *)
(* about DV4Server, for a file of any length and any stick: the invariant  *)
(* of the driver holds because main() uses it as DV4Mini allows.           *)
(***************************************************************************)
EXTENDS DV4Server, SequenceTheorems, TLAPS

-----------------------------------------------------------------------------
(* The inductive invariant.                                                *)

\* The writer of a command holds m_lckTx; a stick that can be reached has got
\* just the pieces that were written so far.
LineInv ==
  /\ \A t \in Senders : (txLock = t) <=> (pc[t] = "write")
  /\ \A t \in Senders : pc[t] # "write" => piece[t] = 1
  /\ \A t \in Senders : pc[t] = "write" => piece[t] <= Pieces(Head(todo[t]))
  /\ WholeCommands
  /\ plugged /\ (port = "closed" \/ txLock = NoThread) => line = <<>>
  /\ plugged /\ port = "open" =>
       \A t \in Senders : txLock = t =>
         /\ Len(line) = piece[t] - 1
         /\ \A i \in 1 .. Len(line) : line[i].cmd = Head(todo[t])

\* IDLE means that there is no thread; where open() and close() are says which
\* threads run.
ThreadInv ==
  /\ PortOpenWhileRunning
  /\ wdState = "IDLE" => pc[Wd] \in NotRunning
  /\ rxState = "IDLE" => pc[Rx] \in NotRunning
  /\ pc[Main] \in {"openPort", "createWd", "closePort"} =>
       pc[Wd] \in NotRunning /\ pc[Rx] \in NotRunning
  /\ pc[Main] \in {"createRx", "closeWd", "joinWd"} => pc[Rx] \in NotRunning
  /\ pc[Main] \in {"createWd", "createRx"} => port = "open"

\* The watchdog leaves its loop only after it was asked to, which is not before
\* the receive thread has ended or could not be created.
StopInv ==
  /\ WatchdogOutlivesReceiver
  /\ pc[Main] = "createRx" => wdState = "RUNNING"
  /\ pc[Wd] \notin {"lock", "write"} => todo[Wd] = <<>>
  /\ wdState = "RUNNING" =>
       /\ pc[Wd] \in {"start", "loop", "lock", "write"}
       /\ \A i \in 1 .. Len(todo[Wd]) : todo[Wd][i] # "LED_OFF"

\* A state other than IDLE without a thread to join is left by a close().
JoinInv ==
  /\ StrayJoinNeedsClose
  /\ pc[Main] \in {"stopRx", "joinRx"} => rxState # "IDLE"
  /\ pc[Main] = "joinWd" => wdState # "IDLE"
  /\ pc[Rx] \notin NotRunning => pc[Wd] \notin {"none", "joined"}
  /\ rxState # "IDLE" /\ pc[Rx] \in {"none", "joined"} =>
       closed \/ pc[Main] \in {"closeWd", "joinWd", "closePort"}
  /\ wdState # "IDLE" /\ pc[Wd] \in {"none", "joined"} =>
       closed \/ pc[Main] = "closePort"

\* While the application can send to an open port both threads run, and the
\* watchdog switches the LED off after the last command of the application.
LedInv ==
  /\ pc[Main] \in {"lock", "write"} => result
  /\ result /\ port = "open" /\ pc[Main] \in {"app", "lock", "write"} =>
       rxState = "RUNNING" /\ pc[Rx] \in {"loop", "read", "handle", "put"}
  /\ plugged /\ pc[Wd] \in {"exit"} \cup NotRunning => ~led

IInv == TypeOK /\ LineInv /\ ThreadInv /\ StopInv /\ JoinInv /\ LedInv

\* The part of TypeOK about the places of the threads.
PcOK ==
  /\ pc \in [Threads -> MainPcs \cup WdPcs \cup RxPcs]
  /\ pc[Main] \in MainPcs /\ pc[Wd] \in WdPcs /\ pc[Rx] \in RxPcs

-----------------------------------------------------------------------------
(* Sequences of commands.                                                  *)

\* What is left to send is a sequence of commands, and it is empty only after the
\* last one.
LEMMA TailOf ==
  ASSUME NEW S, NEW s \in Seq(S), s # <<>>
  PROVE  /\ Head(s) \in S /\ Tail(s) \in Seq(S)
         /\ Len(s) = 1 <=> Tail(s) = <<>>
         /\ \A i \in 1 .. Len(Tail(s)) : Tail(s)[i] = s[i + 1]
<1>1. Head(s) \in S /\ Tail(s) \in Seq(S)
  BY HeadTailProperties
<1>2. Len(s) = Len(Tail(s)) + 1
  BY HeadTailProperties
<1>3. Tail(s) = <<>> <=> Len(Tail(s)) = 0
  BY <1>1, EmptySeq
<1>4. \A i \in 1 .. Len(Tail(s)) : Tail(s)[i] = s[i + 1]
  BY HeadTailProperties
<1> QED
  BY <1>1, <1>2, <1>3, <1>4

\* One or two commands are a sequence of commands with something to send.
LEMMA ShortSeq ==
  ASSUME NEW S, NEW a \in S, NEW b \in S
  PROVE  /\ <<a>> \in Seq(S) /\ <<a>> # <<>>
         /\ <<a, b>> \in Seq(S) /\ <<a, b>> # <<>>
OBVIOUS

-----------------------------------------------------------------------------
(* Each step preserves each part of the invariant.                         *)

\* A piece beyond the last one of a command is excluded by LineInv.
LEMMA TypeStep ==
  ASSUME IInv, [Next]_vars
  PROVE  TypeOK'
<1> TypeOK
  BY DEF IInv
<1> USE DEF At, Goto, Threads, Senders, Main, Wd, Rx, NoThread, ThreadStates,
       MainPcs, WdPcs, RxPcs, NotRunning, stateVars, objVars, sendVars,
       stickVars, endVars
<1>1. ASSUME NEW t \in Senders, SendLock(t) PROVE TypeOK'
  BY <1>1 DEF SendLock, TypeOK, PcOK
<1>2. ASSUME NEW t \in Senders, SendWrite(t) PROVE TypeOK'
  <2> DEFINE c == Head(todo[t])
  <2>1. /\ c \in Commands /\ Tail(todo[t]) \in Seq(Commands)
        /\ Len(todo[t]) # 1 => Tail(todo[t]) # <<>>
    <3>1. todo[t] \in Seq(Commands) /\ todo[t] # <<>>
      BY <1>2 DEF SendWrite, TypeOK
    <3> QED
      BY <3>1, TailOf
  <2>2. Pieces(c) \in {3, 4} /\ piece[t] \in 1 .. 4 /\ piece[t] <= Pieces(c)
    BY <1>2 DEF SendWrite, Pieces, IInv, LineInv, TypeOK
  <2>3. /\ led' \in BOOLEAN /\ owed' \in BOOLEAN
    BY <1>2, Zenon DEF SendWrite, Written, TypeOK
  <2> HIDE DEF c
  <2>4. line' \in Seq([cmd : Commands, piece : 1 .. 3])
    <3>1. line \in Seq([cmd : Commands, piece : 1 .. 3]) /\ piece[t] \in 1 .. 4
      BY DEF TypeOK
    <3>2. CASE line' = line
      BY <3>1, <3>2
    <3>3. CASE line' = <<>>
      BY <3>3
    <3>4. CASE /\ piece[t] # Pieces(c)
               /\ line' = Append(line, [cmd |-> c, piece |-> piece[t]])
      <4>1. [cmd |-> c, piece |-> piece[t]] \in [cmd : Commands, piece : 1 .. 3]
        BY <3>4, <2>1, <2>2
      <4> QED
        BY <3>1, <3>4, <4>1
    <3> QED
      BY <1>2, <3>2, <3>3, <3>4 DEF SendWrite, Written, c
  <2>5. piece' \in [Senders -> 1 .. 4] /\ todo' \in [Senders -> Seq(Commands)]
    <3>1. piece \in [Senders -> 1 .. 4] /\ todo \in [Senders -> Seq(Commands)]
      BY DEF TypeOK
    <3>2. piece' \in [Senders -> 1 .. 4]
      BY <1>2, <2>2, <3>1 DEF SendWrite, c
    <3>3. todo' \in [Senders -> Seq(Commands)]
      BY <1>2, <2>1, <3>1 DEF SendWrite
    <3> QED
      BY <3>2, <3>3
  <2>6. txLock' \in Senders \cup {NoThread}
    BY <1>2 DEF SendWrite, TypeOK
  <2>7. PcOK'
    BY <1>2 DEF PcOK, SendWrite, TypeOK, After
  <2>8. \A s \in Senders : pc'[s] \in {"lock", "write"} => todo'[s] # <<>>
    BY <1>2, <2>1 DEF SendWrite, TypeOK, After, c
  <2> QED
    BY <1>2, <2>3, <2>4, <2>5, <2>6, <2>7, <2>8 DEF SendWrite, TypeOK, PcOK
<1>3. ASSUME NEW c \in AppCommands, AppCommand(c) PROVE TypeOK'
  BY <1>3, CommandsAssumption DEF AppCommand, TypeOK, PcOK
<1>4. ASSUME NEW o \in {"close", "destroy"}, AppClose(o) PROVE TypeOK'
  <2>1. stray' \in BOOLEAN
    BY <1>4, Zenon DEF AppClose
  <2> QED
    BY <1>4, <2>1 DEF AppClose, TypeOK, PcOK
<1>5. CASE AppOpen
  BY <1>5 DEF AppOpen, TypeOK, PcOK
<1>6. CASE AppSetSink
  BY <1>6 DEF AppSetSink, TypeOK, PcOK
<1>7. CASE OpenPort
  <2>1. result' \in BOOLEAN
    BY <1>7, Zenon DEF OpenPort, TypeOK
  <2>2. PcOK'
    BY <1>7 DEF PcOK, TypeOK, OpenPort
  <2>3. reply' \in {reply, <<>>} /\ reply \in Seq(Messages)
    BY <1>7 DEF OpenPort, TypeOK
  <2>4. reply' \in Seq(Messages)
    BY <1>7, <2>3, EmptySeq
  <2> QED
    BY <1>7, <2>1, <2>2, <2>3, <2>4 DEF OpenPort, TypeOK, PcOK
<1>8. CASE CreateWd
  <2>1. result' \in BOOLEAN
    BY <1>8, Zenon DEF CreateWd, TypeOK
  <2>2. PcOK'
    <3>1. \/ pc' = [pc EXCEPT ![Main] = "createRx", ![Wd] = "start"]
          \/ pc' = [pc EXCEPT ![Main] = "app", ![Wd] = "none"]
      BY <1>8 DEF CreateWd
    <3> QED
      BY <3>1 DEF PcOK, TypeOK
  <2>3. wdCount' \in 0 .. WatchdogPeriod - 1
    BY <1>8, PeriodAssumption DEF CreateWd, TypeOK
  <2> QED
    BY <1>8, <2>1, <2>2, <2>3 DEF CreateWd, TypeOK, PcOK
<1>9. CASE CreateRx
  <2>1. result' \in BOOLEAN
    BY <1>9, Zenon DEF CreateRx, TypeOK
  <2>2. PcOK'
    BY <1>9 DEF PcOK, TypeOK, CreateRx
  <2> QED
    BY <1>9, <2>1, <2>2 DEF CreateRx, TypeOK, PcOK
<1>10. CASE CloseRx
  BY <1>10 DEF CloseRx, TypeOK, PcOK
<1>11. CASE StopRx
  BY <1>11 DEF StopRx, TypeOK, PcOK
<1>12. CASE JoinRx
  <2>1. stray' \in BOOLEAN
    BY <1>12, Zenon DEF JoinRx, Join, TypeOK
  <2>2. PcOK'
    BY <1>12 DEF PcOK, TypeOK, JoinRx, Join
  <2> QED
    BY <1>12, <2>1, <2>2 DEF JoinRx, Join, TypeOK, PcOK
<1>13. CASE CloseWd
  BY <1>13 DEF CloseWd, TypeOK, PcOK
<1>14. CASE JoinWd
  <2>1. stray' \in BOOLEAN
    BY <1>14, Zenon DEF JoinWd, Join, TypeOK
  <2>2. PcOK'
    BY <1>14 DEF PcOK, TypeOK, JoinWd, Join
  <2> QED
    BY <1>14, <2>1, <2>2 DEF JoinWd, Join, TypeOK, PcOK
<1>15. CASE ClosePort
  BY <1>15 DEF ClosePort, TypeOK, PcOK
<1>16. CASE WdStart
  BY <1>16 DEF WdStart, Commands, Bare, TypeOK, PcOK
<1>17. CASE WdPoll
  <2>1. wdCount' \in 0 .. WatchdogPeriod - 1
    BY <1>17, PeriodAssumption DEF WdPoll, TypeOK
  <2>2. todo'[Wd] \in Seq(Commands) /\ todo'[Wd] # <<>>
    <3>1. \A s \in {<<"ADFGETDATA", "ADFWATCHDOG">>, <<"ADFGETDATA">>} :
            s \in Seq(Commands) /\ s # <<>>
      <4>1. "ADFGETDATA" \in Commands /\ "ADFWATCHDOG" \in Commands
        BY DEF Commands, Bare
      <4> QED
        BY <4>1, ShortSeq, Zenon
    <3>2. todo \in [Senders -> Seq(Commands)]
      BY DEF TypeOK
    <3>3. todo'[Wd] \in {<<"ADFGETDATA", "ADFWATCHDOG">>, <<"ADFGETDATA">>}
      BY <1>17, <3>2 DEF WdPoll
    <3> QED
      BY <3>1, <3>3, Zenon
  <2>3. todo' = [todo EXCEPT ![Wd] = todo'[Wd]]
    BY <1>17 DEF WdPoll, TypeOK
  <2> QED
    BY <1>17, <2>1, <2>2, <2>3 DEF WdPoll, TypeOK, PcOK
<1>18. CASE WdStops
  BY <1>18 DEF WdStops, Commands, Bare, TypeOK, PcOK
<1>19. CASE WdExit
  BY <1>19 DEF WdExit, TypeOK, PcOK
<1>20. CASE RxLoopTest
  BY <1>20 DEF RxLoopTest, TypeOK, PcOK
<1>21. CASE RxRead
  <2>1. batch' \in Seq(Messages) /\ reply' \in Seq(Messages)
    <3>1. <<"ADFWATCHDOG">> \in Seq(Messages) /\ <<>> \in Seq(Messages)
      BY DEF Messages
    <3> QED
      BY <1>21, <3>1 DEF RxRead, TypeOK
  <2>2. simMode' \in BOOLEAN
    BY <1>21, Zenon DEF RxRead, TypeOK
  <2> QED
    BY <1>21, <2>1, <2>2 DEF RxRead, TypeOK, PcOK
<1>22. CASE RxHandle
  BY <1>22 DEF RxHandle, Messages, TypeOK, PcOK
<1>23. CASE RxPut
  BY <1>23 DEF RxPut, TypeOK, PcOK
<1>24. CASE RxHandled
  BY <1>24 DEF RxHandled, TypeOK, PcOK
<1>25. CASE RxExit
  BY <1>25 DEF RxExit, TypeOK, PcOK
<1>26. CASE StickAnswers
  <2>1. owed' \in BOOLEAN
    BY <1>26, Zenon DEF StickAnswers
  <2> QED
    BY <1>26, <2>1, BatchesAssumption DEF StickAnswers, TypeOK, PcOK
<1>27. CASE Unplug
  <2>1. plugged' \in BOOLEAN
    BY <1>27, Zenon DEF Unplug
  <2> QED
    BY <1>27, <2>1 DEF Unplug, TypeOK, PcOK
<1>28. CASE Terminated
  BY <1>28 DEF Terminated, TypeOK, PcOK, vars
<1>29. CASE UNCHANGED vars
  BY <1>29 DEF TypeOK, PcOK, vars
<1> QED
  BY <1>1, <1>2, <1>3, <1>4, <1>5, <1>6, <1>7, <1>8, <1>9, <1>10, <1>11,
     <1>12, <1>13, <1>14, <1>15, <1>16, <1>17, <1>18, <1>19, <1>20, <1>21,
     <1>22, <1>23, <1>24, <1>25, <1>26, <1>27, <1>28, <1>29
  DEF Next, AppCall, MainStep, WdStep, RxStep, SendStep, Senders

\* Threads are created and joined only by Main, at the places that ThreadInv names.
LEMMA ThreadStep ==
  ASSUME IInv, [Next]_vars
  PROVE  ThreadInv'
<1> USE DEF At, Goto, Threads, Senders, Main, Wd, Rx, NoThread, ThreadStates,
       MainPcs, WdPcs, RxPcs, NotRunning, IInv, TypeOK, ThreadInv,
       PortOpenWhileRunning, stateVars, objVars, sendVars, stickVars, endVars
<1>1. ASSUME NEW t \in Senders, SendLock(t) PROVE ThreadInv'
  BY <1>1 DEF SendLock
<1>2. ASSUME NEW t \in Senders, SendWrite(t) PROVE ThreadInv'
  BY <1>2 DEF SendWrite, Written, After
<1>3. ASSUME NEW c \in AppCommands, AppCommand(c) PROVE ThreadInv'
  BY <1>3 DEF AppCommand
<1>4. ASSUME NEW o \in {"close", "destroy"}, AppClose(o) PROVE ThreadInv'
  BY <1>4 DEF AppClose
<1>5. CASE AppOpen
  BY <1>5 DEF AppOpen
<1>6. CASE AppSetSink
  BY <1>6 DEF AppSetSink
<1>7. CASE OpenPort
  BY <1>7 DEF OpenPort
<1>8. CASE CreateWd
  BY <1>8 DEF CreateWd
<1>9. CASE CreateRx
  BY <1>9 DEF CreateRx
<1>10. CASE CloseRx
  BY <1>10 DEF CloseRx
<1>11. CASE StopRx
  BY <1>11 DEF StopRx
<1>12. CASE JoinRx
  BY <1>12 DEF Join, JoinRx
<1>13. CASE CloseWd
  BY <1>13 DEF CloseWd
<1>14. CASE JoinWd
  BY <1>14 DEF Join, JoinWd
<1>15. CASE ClosePort
  BY <1>15 DEF ClosePort
<1>16. CASE WdStart
  BY <1>16 DEF WdStart
<1>17. CASE WdPoll
  BY <1>17 DEF WdPoll
<1>18. CASE WdStops
  BY <1>18 DEF WdStops
<1>19. CASE WdExit
  BY <1>19 DEF WdExit
<1>20. CASE RxLoopTest
  BY <1>20 DEF RxLoopTest
<1>21. CASE RxRead
  BY <1>21 DEF RxRead
<1>22. CASE RxHandle
  BY <1>22 DEF RxHandle
<1>23. CASE RxPut
  BY <1>23 DEF RxPut
<1>24. CASE RxHandled
  BY <1>24 DEF RxHandled
<1>25. CASE RxExit
  BY <1>25 DEF RxExit
<1>26. CASE StickAnswers
  BY <1>26 DEF StickAnswers
<1>27. CASE Unplug
  BY <1>27 DEF Unplug
<1>28. CASE Terminated
  BY <1>28 DEF Terminated, vars
<1>29. CASE UNCHANGED vars
  BY <1>29 DEF vars
<1> QED
  BY <1>1, <1>2, <1>3, <1>4, <1>5, <1>6, <1>7, <1>8, <1>9, <1>10, <1>11,
     <1>12, <1>13, <1>14, <1>15, <1>16, <1>17, <1>18, <1>19, <1>20, <1>21,
     <1>22, <1>23, <1>24, <1>25, <1>26, <1>27, <1>28, <1>29
  DEF Next, AppCall, MainStep, WdStep, RxStep, SendStep, Senders

\* The watchdog drops out of its loop only in another state than RUNNING.
LEMMA StopStep ==
  ASSUME IInv, [Next]_vars
  PROVE  StopInv'
<1> USE DEF At, Goto, Threads, Senders, Main, Wd, Rx, NoThread, ThreadStates,
       MainPcs, WdPcs, RxPcs, NotRunning, stateVars, objVars, sendVars,
       stickVars, endVars
<1>1. ASSUME NEW t \in Senders, SendLock(t) PROVE StopInv'
  BY <1>1
     DEF SendLock, ThreadInv, StopInv, WatchdogOutlivesReceiver, TypeOK, IInv
<1>2. ASSUME NEW t \in Senders, SendWrite(t) PROVE StopInv'
  <2>1. /\ pc'[Rx] = pc[Rx] /\ wdState' = wdState
        /\ pc'[Main] = "createRx" => pc[Main] = "createRx"
    BY <1>2 DEF SendWrite, After, TypeOK, IInv
  <2>2. CASE t = Main
    <3>1. todo'[Wd] = todo[Wd] /\ pc'[Wd] = pc[Wd]
      BY <1>2, <2>2 DEF SendWrite, TypeOK, IInv
    <3> QED
      BY <2>1, <3>1 DEF IInv, StopInv, WatchdogOutlivesReceiver
  <2>3. CASE t = Wd
    <3>1. todo[Wd] \in Seq(Commands) /\ todo[Wd] # <<>>
      BY <1>2, <2>3 DEF SendWrite, TypeOK, IInv
    <3>2. CASE piece[Wd] = Pieces(Head(todo[Wd]))
      <4>1. /\ todo'[Wd] = Tail(todo[Wd])
            /\ pc'[Wd] = IF Len(todo[Wd]) = 1 THEN After(Wd, Head(todo[Wd]))
                                             ELSE "lock"
        BY <1>2, <2>3, <3>2 DEF SendWrite, TypeOK, IInv
      <4>2. wdState = "RUNNING" =>
              /\ Head(todo[Wd]) # "LED_OFF"
              /\ \A i \in 1 .. Len(Tail(todo[Wd])) : Tail(todo[Wd])[i] # "LED_OFF"
        <5>1. Head(todo[Wd]) = todo[Wd][1] /\ 1 \in 1 .. Len(todo[Wd])
          BY <3>1, EmptySeq
        <5> QED
          BY <3>1, <5>1, TailOf DEF IInv, StopInv
      <4>3. pc'[Wd] \notin {"lock", "write"} => todo'[Wd] = <<>>
        BY <3>1, <4>1, TailOf
      <4> QED
        BY <2>1, <4>1, <4>2, <4>3
           DEF IInv, StopInv, WatchdogOutlivesReceiver, After
    <3>3. CASE piece[Wd] # Pieces(Head(todo[Wd]))
      <4>1. todo'[Wd] = todo[Wd] /\ pc'[Wd] = pc[Wd]
        BY <1>2, <2>3, <3>3 DEF SendWrite, TypeOK, IInv
      <4> QED
        BY <2>1, <4>1 DEF IInv, StopInv, WatchdogOutlivesReceiver
    <3> QED
      BY <3>2, <3>3
  <2> QED
    BY <2>2, <2>3
<1>3. ASSUME NEW c \in AppCommands, AppCommand(c) PROVE StopInv'
  BY <1>3
     DEF AppCommand, ThreadInv, StopInv, WatchdogOutlivesReceiver, TypeOK, IInv
<1>4. ASSUME NEW o \in {"close", "destroy"}, AppClose(o) PROVE StopInv'
  BY <1>4
     DEF AppClose, ThreadInv, StopInv, WatchdogOutlivesReceiver, TypeOK, IInv
<1>5. CASE AppOpen
  BY <1>5
     DEF AppOpen, ThreadInv, StopInv, WatchdogOutlivesReceiver, TypeOK, IInv
<1>6. CASE AppSetSink
  BY <1>6
     DEF AppSetSink, ThreadInv, StopInv, WatchdogOutlivesReceiver, TypeOK, IInv
<1>7. CASE OpenPort
  BY <1>7
     DEF OpenPort, ThreadInv, StopInv, WatchdogOutlivesReceiver, TypeOK, IInv
<1>8. CASE CreateWd
  <2>1. Len(todo[Wd]) = 0
    <3>1. todo[Wd] = <<>>
      BY <1>8
         DEF CreateWd, TypeOK, ThreadInv, StopInv, WatchdogOutlivesReceiver,
             IInv
    <3> QED
      BY <3>1, EmptySeq
  <2>2. todo' = todo /\ \A i \in 1 .. Len(todo[Wd]) : todo[Wd][i] # "LED_OFF"
    BY <1>8, <2>1 DEF CreateWd
  <2> QED
    BY <1>8, <2>2
       DEF CreateWd, TypeOK, ThreadInv, StopInv, WatchdogOutlivesReceiver, IInv
<1>9. CASE CreateRx
  BY <1>9
     DEF CreateRx, ThreadInv, StopInv, WatchdogOutlivesReceiver, TypeOK, IInv
<1>10. CASE CloseRx
  BY <1>10
     DEF CloseRx, ThreadInv, StopInv, WatchdogOutlivesReceiver, TypeOK, IInv
<1>11. CASE StopRx
  BY <1>11
     DEF StopRx, ThreadInv, StopInv, WatchdogOutlivesReceiver, TypeOK, IInv
<1>12. CASE JoinRx
  BY <1>12
     DEF Join, JoinRx, ThreadInv, StopInv, WatchdogOutlivesReceiver, TypeOK,
         IInv
<1>13. CASE CloseWd
  BY <1>13
     DEF CloseWd, ThreadInv, StopInv, WatchdogOutlivesReceiver, TypeOK, IInv
<1>14. CASE JoinWd
  BY <1>14
     DEF Join, JoinWd, ThreadInv, StopInv, WatchdogOutlivesReceiver, TypeOK,
         IInv
<1>15. CASE ClosePort
  BY <1>15
     DEF ClosePort, ThreadInv, StopInv, WatchdogOutlivesReceiver, TypeOK, IInv
<1>16. CASE WdStart
  BY <1>16
     DEF WdStart, ThreadInv, StopInv, WatchdogOutlivesReceiver, TypeOK, IInv
<1>17. CASE WdPoll
  <2>1. \A i \in 1 .. Len(todo'[Wd]) : todo'[Wd][i] # "LED_OFF"
    <3>1. todo'[Wd] \in {<<"ADFGETDATA", "ADFWATCHDOG">>, <<"ADFGETDATA">>}
      BY <1>17 DEF WdPoll, TypeOK, IInv
    <3> QED
      BY <3>1
  <2> QED
    BY <1>17, <2>1
       DEF WdPoll, ThreadInv, StopInv, WatchdogOutlivesReceiver, TypeOK, IInv
<1>18. CASE WdStops
  BY <1>18
     DEF WdStops, ThreadInv, StopInv, WatchdogOutlivesReceiver, TypeOK, IInv
<1>19. CASE WdExit
  BY <1>19
     DEF WdExit, ThreadInv, StopInv, WatchdogOutlivesReceiver, TypeOK, IInv
<1>20. CASE RxLoopTest
  BY <1>20
     DEF RxLoopTest, ThreadInv, StopInv, WatchdogOutlivesReceiver, TypeOK, IInv
<1>21. CASE RxRead
  BY <1>21
     DEF RxRead, ThreadInv, StopInv, WatchdogOutlivesReceiver, TypeOK, IInv
<1>22. CASE RxHandle
  BY <1>22
     DEF RxHandle, ThreadInv, StopInv, WatchdogOutlivesReceiver, TypeOK, IInv
<1>23. CASE RxPut
  BY <1>23
     DEF RxPut, ThreadInv, StopInv, WatchdogOutlivesReceiver, TypeOK, IInv
<1>24. CASE RxHandled
  BY <1>24
     DEF RxHandled, ThreadInv, StopInv, WatchdogOutlivesReceiver, TypeOK, IInv
<1>25. CASE RxExit
  BY <1>25
     DEF RxExit, ThreadInv, StopInv, WatchdogOutlivesReceiver, TypeOK, IInv
<1>26. CASE StickAnswers
  BY <1>26
     DEF StickAnswers, ThreadInv, StopInv, WatchdogOutlivesReceiver, TypeOK,
         IInv
<1>27. CASE Unplug
  BY <1>27
     DEF Unplug, ThreadInv, StopInv, WatchdogOutlivesReceiver, TypeOK, IInv
<1>28. CASE Terminated
  BY <1>28
     DEF Terminated, ThreadInv, StopInv, WatchdogOutlivesReceiver, TypeOK,
         IInv, vars
<1>29. CASE UNCHANGED vars
  BY <1>29 DEF ThreadInv, StopInv, WatchdogOutlivesReceiver, TypeOK, IInv, vars
<1> QED
  BY <1>1, <1>2, <1>3, <1>4, <1>5, <1>6, <1>7, <1>8, <1>9, <1>10, <1>11,
     <1>12, <1>13, <1>14, <1>15, <1>16, <1>17, <1>18, <1>19, <1>20, <1>21,
     <1>22, <1>23, <1>24, <1>25, <1>26, <1>27, <1>28, <1>29
  DEF Next, AppCall, MainStep, WdStep, RxStep, SendStep, Senders

\* A joined thread leaves its state behind only when close() goes on to its end.
LEMMA JoinStep ==
  ASSUME IInv, [Next]_vars
  PROVE  JoinInv'
<1> USE DEF At, Goto, Threads, Senders, Main, Wd, Rx, NoThread, ThreadStates,
       MainPcs, WdPcs, RxPcs, NotRunning, IInv, TypeOK, ThreadInv, StopInv,
       JoinInv, StrayJoinNeedsClose, stateVars, objVars, sendVars, stickVars,
       endVars
<1>1. ASSUME NEW t \in Senders, SendLock(t) PROVE JoinInv'
  BY <1>1 DEF SendLock
<1>2. ASSUME NEW t \in Senders, SendWrite(t) PROVE JoinInv'
  BY <1>2 DEF SendWrite, Written, After
<1>3. ASSUME NEW c \in AppCommands, AppCommand(c) PROVE JoinInv'
  BY <1>3 DEF AppCommand
<1>4. ASSUME NEW o \in {"close", "destroy"}, AppClose(o) PROVE JoinInv'
  BY <1>4 DEF AppClose
<1>5. CASE AppOpen
  BY <1>5 DEF AppOpen
<1>6. CASE AppSetSink
  BY <1>6 DEF AppSetSink
<1>7. CASE OpenPort
  BY <1>7 DEF OpenPort
<1>8. CASE CreateWd
  BY <1>8 DEF CreateWd
<1>9. CASE CreateRx
  BY <1>9 DEF CreateRx
<1>10. CASE CloseRx
  BY <1>10 DEF CloseRx
<1>11. CASE StopRx
  BY <1>11 DEF StopRx
<1>12. CASE JoinRx
  BY <1>12 DEF Join, JoinRx
<1>13. CASE CloseWd
  BY <1>13 DEF CloseWd
<1>14. CASE JoinWd
  BY <1>14 DEF Join, JoinWd
<1>15. CASE ClosePort
  BY <1>15 DEF ClosePort
<1>16. CASE WdStart
  BY <1>16 DEF WdStart
<1>17. CASE WdPoll
  BY <1>17 DEF WdPoll
<1>18. CASE WdStops
  BY <1>18 DEF WdStops
<1>19. CASE WdExit
  BY <1>19 DEF WdExit
<1>20. CASE RxLoopTest
  BY <1>20 DEF RxLoopTest
<1>21. CASE RxRead
  BY <1>21 DEF RxRead
<1>22. CASE RxHandle
  BY <1>22 DEF RxHandle
<1>23. CASE RxPut
  BY <1>23 DEF RxPut
<1>24. CASE RxHandled
  BY <1>24 DEF RxHandled
<1>25. CASE RxExit
  BY <1>25 DEF RxExit
<1>26. CASE StickAnswers
  BY <1>26 DEF StickAnswers
<1>27. CASE Unplug
  BY <1>27 DEF Unplug
<1>28. CASE Terminated
  BY <1>28 DEF Terminated, vars
<1>29. CASE UNCHANGED vars
  BY <1>29 DEF vars
<1> QED
  BY <1>1, <1>2, <1>3, <1>4, <1>5, <1>6, <1>7, <1>8, <1>9, <1>10, <1>11,
     <1>12, <1>13, <1>14, <1>15, <1>16, <1>17, <1>18, <1>19, <1>20, <1>21,
     <1>22, <1>23, <1>24, <1>25, <1>26, <1>27, <1>28, <1>29
  DEF Next, AppCall, MainStep, WdStep, RxStep, SendStep, Senders

\* The application sends to an open port only while the watchdog is in its loop.
LEMMA LedStep ==
  ASSUME IInv, [Next]_vars
  PROVE  LedInv'
<1> USE DEF At, Goto, Threads, Senders, Main, Wd, Rx, NoThread, ThreadStates,
       MainPcs, WdPcs, RxPcs, NotRunning, IInv, TypeOK, ThreadInv,
       PortOpenWhileRunning, StopInv, WatchdogOutlivesReceiver, LedInv,
       stateVars, objVars, sendVars, stickVars, endVars
<1>1. ASSUME NEW t \in Senders, SendLock(t) PROVE LedInv'
  BY <1>1 DEF SendLock
<1>2. ASSUME NEW t \in Senders, SendWrite(t) PROVE LedInv'
  <2>1. /\ UNCHANGED <<port, rxState, result, plugged>>
        /\ pc[t] = "write" /\ \A s \in Threads \ {t} : pc'[s] = pc[s]
        /\ pc'[t] \in {"write", "lock", After(t, Head(todo[t]))}
    BY <1>2 DEF SendWrite
  <2>2. After(Main, Head(todo[t])) = "app"
    BY DEF After
  <2>3. CASE t = Main
    <3>1. port = "open" => wdState = "RUNNING"
      BY <2>1, <2>3
    <3>2. port = "open" => pc'[Wd] \notin {"exit"} \cup NotRunning
      BY <2>1, <2>3, <3>1
    <3>3. port # "open" => led' = led
      BY <1>2 DEF SendWrite, Written
    <3>4. plugged' /\ pc'[Wd] \in {"exit"} \cup NotRunning => ~led'
      <4>1. pc'[Wd] = pc[Wd] /\ plugged' = plugged
        BY <2>1, <2>3
      <4> QED
        BY <4>1, <3>2, <3>3
    <3>5. /\ pc'[Main] \in {"lock", "write"} => result'
          /\ result' /\ port' = "open" /\ pc'[Main] \in {"app", "lock", "write"} =>
               rxState' = "RUNNING" /\ pc'[Rx] \in {"loop", "read", "handle", "put"}
      BY <2>1, <2>2, <2>3
    <3> QED
      BY <3>4, <3>5
  <2>4. CASE t = Wd
    <3>1. port = "open"
      BY <2>1, <2>4
    <3>2. pc'[Wd] \in {"write", "lock", "loop", "exit"}
      BY <2>1, <2>4 DEF After
    <3>3. pc'[Wd] = "exit" =>
            Head(todo[Wd]) = "LED_OFF" /\ piece[Wd] = Pieces(Head(todo[Wd]))
      BY <1>2, <2>4 DEF SendWrite, After
    <3>4. pc'[Wd] = "exit" /\ plugged => ~led'
      BY <1>2, <2>4, <3>1, <3>3 DEF SendWrite, Written
    <3> QED
      BY <2>1, <2>4, <3>2, <3>4
  <2> QED
    BY <2>3, <2>4
<1>3. ASSUME NEW c \in AppCommands, AppCommand(c) PROVE LedInv'
  BY <1>3 DEF AppCommand
<1>4. ASSUME NEW o \in {"close", "destroy"}, AppClose(o) PROVE LedInv'
  BY <1>4 DEF AppClose
<1>5. CASE AppOpen
  BY <1>5 DEF AppOpen
<1>6. CASE AppSetSink
  BY <1>6 DEF AppSetSink
<1>7. CASE OpenPort
  BY <1>7 DEF OpenPort
<1>8. CASE CreateWd
  BY <1>8 DEF CreateWd
<1>9. CASE CreateRx
  BY <1>9 DEF CreateRx
<1>10. CASE CloseRx
  BY <1>10 DEF CloseRx
<1>11. CASE StopRx
  BY <1>11 DEF StopRx
<1>12. CASE JoinRx
  BY <1>12 DEF Join, JoinRx
<1>13. CASE CloseWd
  BY <1>13 DEF CloseWd
<1>14. CASE JoinWd
  BY <1>14 DEF Join, JoinWd
<1>15. CASE ClosePort
  BY <1>15 DEF ClosePort
<1>16. CASE WdStart
  BY <1>16 DEF WdStart
<1>17. CASE WdPoll
  BY <1>17 DEF WdPoll
<1>18. CASE WdStops
  BY <1>18 DEF WdStops
<1>19. CASE WdExit
  BY <1>19 DEF WdExit
<1>20. CASE RxLoopTest
  BY <1>20 DEF RxLoopTest
<1>21. CASE RxRead
  BY <1>21 DEF RxRead
<1>22. CASE RxHandle
  BY <1>22 DEF RxHandle
<1>23. CASE RxPut
  BY <1>23 DEF RxPut
<1>24. CASE RxHandled
  BY <1>24 DEF RxHandled
<1>25. CASE RxExit
  BY <1>25 DEF RxExit
<1>26. CASE StickAnswers
  BY <1>26 DEF StickAnswers
<1>27. CASE Unplug
  BY <1>27 DEF Unplug
<1>28. CASE Terminated
  BY <1>28 DEF Terminated, vars
<1>29. CASE UNCHANGED vars
  BY <1>29 DEF vars
<1> QED
  BY <1>1, <1>2, <1>3, <1>4, <1>5, <1>6, <1>7, <1>8, <1>9, <1>10, <1>11,
     <1>12, <1>13, <1>14, <1>15, <1>16, <1>17, <1>18, <1>19, <1>20, <1>21,
     <1>22, <1>23, <1>24, <1>25, <1>26, <1>27, <1>28, <1>29
  DEF Next, AppCall, MainStep, WdStep, RxStep, SendStep, Senders

\* Only the holder of m_lckTx adds to the line, one piece after the other.
LEMMA LineStep ==
  ASSUME IInv, [Next]_vars
  PROVE  LineInv'
<1> USE DEF At, Goto, Threads, Senders, Main, Wd, Rx, NoThread, ThreadStates,
       MainPcs, WdPcs, RxPcs, NotRunning, stateVars, objVars, sendVars,
       stickVars, endVars
<1>1. ASSUME NEW t \in Senders, SendLock(t) PROVE LineInv'
  <2>1. piece[t] = 1 /\ Pieces(Head(todo[t])) >= 3
    BY <1>1 DEF SendLock, IInv, LineInv, Pieces
  <2>2. plugged => line = <<>> /\ Len(line) = 0
    BY <1>1, EmptySeq DEF SendLock, TxFree, IInv, LineInv
  <2>3. WholeCommands'
    BY <1>1 DEF SendLock, IInv, LineInv, WholeCommands
  <2>4. txLock' = t /\ txLock = NoThread /\ pc' = [pc EXCEPT ![t] = "write"]
    BY <1>1 DEF SendLock, TxFree
  <2>5. UNCHANGED <<piece, todo, plugged, port, line>>
    BY <1>1 DEF SendLock
  <2>6. plugged => \A i \in 1 .. Len(line) : line[i].cmd = Head(todo[t])
    BY <2>2
  <2>7. \A s \in Senders : /\ (txLock' = s) <=> (pc'[s] = "write")
                           /\ pc'[s] # "write" => piece'[s] = 1
                           /\ pc'[s] = "write" => s = t
    BY <2>4, <2>5 DEF TypeOK, IInv, LineInv
  <2>8. plugged' => /\ line' = <<>> /\ Len(line') = piece'[t] - 1
                    /\ \A i \in 1 .. Len(line') : line'[i].cmd = Head(todo'[t])
    BY <2>1, <2>2, <2>5, <2>6
  <2>9. 1 <= Pieces(Head(todo[t])) /\ piece'[t] = 1 /\ todo' = todo
    BY <2>1, <2>5 DEF Pieces
  <2> HIDE DEF Senders
  <2> QED
    BY <2>3, <2>7, <2>8, <2>9 DEF LineInv
<1>2. ASSUME NEW t \in Senders, SendWrite(t) PROVE LineInv'
  <2> DEFINE c == Head(todo[t])
             Reached == port = "open" /\ plugged
  <2>1. /\ txLock = t /\ Pieces(c) \in {3, 4}
        /\ piece[t] \in 1 .. 4 /\ piece[t] <= Pieces(c)
        /\ line \in Seq([cmd : Commands, piece : 1 .. 3])
        /\ \A s \in Senders : s # t => pc[s] # "write" /\ piece[s] = 1
    BY <1>2 DEF SendWrite, IInv, LineInv, TypeOK, Pieces
  <2>2. port' = port /\ plugged' = plugged
    BY <1>2 DEF SendWrite
  <2>3. port \in {"open", "closed"} /\ WholeCommands
    BY DEF IInv, TypeOK, LineInv
  <2>4. plugged /\ ~Reached => line = <<>>
    BY <2>3 DEF IInv, LineInv
  <2> HIDE DEF c
  <2>5. CASE piece[t] = Pieces(c)
    <3>1. /\ txLock' = NoThread /\ piece' = [piece EXCEPT ![t] = 1]
          /\ \A s \in Senders : pc'[s] # "write"
      BY <1>2, <2>1, <2>5 DEF SendWrite, After, IInv, TypeOK, c
    <3>2. \A s \in Senders : piece'[s] = 1
      BY <2>1, <3>1 DEF IInv, TypeOK
    <3>3. line' = IF Reached THEN <<>> ELSE line
      BY <1>2, <2>3, <2>5 DEF SendWrite, Written, c
    <3>4. WholeCommands' /\ (plugged' => line' = <<>>)
      BY <2>2, <2>3, <2>4, <3>3 DEF WholeCommands
    <3> QED
      BY <3>1, <3>2, <3>4 DEF LineInv
  <2>6. CASE piece[t] # Pieces(c)
    <3>1. /\ txLock' = txLock /\ pc' = pc /\ todo' = todo
          /\ piece' = [piece EXCEPT ![t] = @ + 1]
      BY <1>2, <2>6 DEF SendWrite, c
    <3>2. piece'[t] = piece[t] + 1 /\ \A s \in Senders : s # t => piece'[s] = piece[s]
      BY <3>1 DEF IInv, TypeOK
    <3>3. CASE Reached
      <4> DEFINE e == [cmd |-> c, piece |-> piece[t]]
      <4>1. line' = Append(line, e)
        BY <1>2, <2>6, <3>3 DEF SendWrite, Written, c
      <4>2. /\ Len(line) = piece[t] - 1
            /\ \A i \in 1 .. Len(line) : line[i].cmd = c
        BY <2>1, <3>3 DEF IInv, LineInv, c
      <4>3. \A i \in 1 .. Len(line) : line[i] = [cmd |-> c, piece |-> i]
        BY <2>1, <2>3, <4>2 DEF WholeCommands
      <4>4. /\ Len(line') = piece[t]
            /\ \A i \in 1 .. Len(line') : line'[i] = [cmd |-> c, piece |-> i]
        <5>1. Len(line') = Len(line) + 1 /\ line'[Len(line) + 1] = e
          BY <2>1, <4>1
        <5>2. \A i \in 1 .. Len(line) : line'[i] = line[i]
          BY <2>1, <4>1
        <5> QED
          BY <2>1, <4>2, <4>3, <5>1, <5>2
      <4>5. ASSUME NEW i \in 1 .. Len(line') PROVE line'[i].cmd = c
        <5>1. line'[i] = [cmd |-> c, piece |-> i]
          BY <4>4
        <5> QED
          BY <5>1
      <4>6. WholeCommands'
        <5>1. Len(line') >= 1 /\ Len(line') \in Nat => line'[1].cmd = c
          BY <4>5
        <5>2. Len(line') >= 1 /\ Len(line') \in Nat
          BY <2>1, <4>4
        <5> QED
          BY <4>4, <5>1, <5>2 DEF WholeCommands
      <4> QED
        BY <1>2, <2>1, <2>2, <2>6, <3>1, <3>2, <3>3, <4>4, <4>5, <4>6
           DEF IInv, LineInv, c
    <3>4. CASE ~Reached
      <4>1. line' = line
        BY <1>2, <2>3, <3>4 DEF SendWrite, Written
      <4> QED
        BY <1>2, <2>1, <2>2, <2>3, <2>4, <2>6, <3>1, <3>2, <3>4, <4>1
           DEF IInv, LineInv, WholeCommands, c
    <3> QED
      BY <3>3, <3>4
  <2> QED
    BY <2>5, <2>6
<1>3. ASSUME NEW c \in AppCommands, AppCommand(c) PROVE LineInv'
  BY <1>3
     DEF AppCommand, ThreadInv, PortOpenWhileRunning, LineInv, WholeCommands,
         TypeOK, IInv
<1>4. ASSUME NEW o \in {"close", "destroy"}, AppClose(o) PROVE LineInv'
  BY <1>4
     DEF AppClose, ThreadInv, PortOpenWhileRunning, LineInv, WholeCommands,
         TypeOK, IInv
<1>5. CASE AppOpen
  BY <1>5
     DEF AppOpen, ThreadInv, PortOpenWhileRunning, LineInv, WholeCommands,
         TypeOK, IInv
<1>6. CASE AppSetSink
  BY <1>6
     DEF AppSetSink, ThreadInv, PortOpenWhileRunning, LineInv, WholeCommands,
         TypeOK, IInv
<1>7. CASE OpenPort
  BY <1>7
     DEF OpenPort, ThreadInv, PortOpenWhileRunning, LineInv, WholeCommands,
         TypeOK, IInv
<1>8. CASE CreateWd
  BY <1>8
     DEF CreateWd, ThreadInv, PortOpenWhileRunning, LineInv, WholeCommands,
         TypeOK, IInv
<1>9. CASE CreateRx
  BY <1>9
     DEF CreateRx, ThreadInv, PortOpenWhileRunning, LineInv, WholeCommands,
         TypeOK, IInv
<1>10. CASE CloseRx
  BY <1>10
     DEF CloseRx, ThreadInv, PortOpenWhileRunning, LineInv, WholeCommands,
         TypeOK, IInv
<1>11. CASE StopRx
  BY <1>11
     DEF StopRx, ThreadInv, PortOpenWhileRunning, LineInv, WholeCommands,
         TypeOK, IInv
<1>12. CASE JoinRx
  BY <1>12
     DEF Join, JoinRx, ThreadInv, PortOpenWhileRunning, LineInv, WholeCommands,
         TypeOK, IInv
<1>13. CASE CloseWd
  BY <1>13
     DEF CloseWd, ThreadInv, PortOpenWhileRunning, LineInv, WholeCommands,
         TypeOK, IInv
<1>14. CASE JoinWd
  BY <1>14
     DEF Join, JoinWd, ThreadInv, PortOpenWhileRunning, LineInv, WholeCommands,
         TypeOK, IInv
<1>15. CASE ClosePort
  BY <1>15
     DEF ClosePort, ThreadInv, PortOpenWhileRunning, LineInv, WholeCommands,
         TypeOK, IInv
<1>16. CASE WdStart
  BY <1>16
     DEF WdStart, ThreadInv, PortOpenWhileRunning, LineInv, WholeCommands,
         TypeOK, IInv
<1>17. CASE WdPoll
  BY <1>17
     DEF WdPoll, ThreadInv, PortOpenWhileRunning, LineInv, WholeCommands,
         TypeOK, IInv
<1>18. CASE WdStops
  BY <1>18
     DEF WdStops, ThreadInv, PortOpenWhileRunning, LineInv, WholeCommands,
         TypeOK, IInv
<1>19. CASE WdExit
  BY <1>19
     DEF WdExit, ThreadInv, PortOpenWhileRunning, LineInv, WholeCommands,
         TypeOK, IInv
<1>20. CASE RxLoopTest
  BY <1>20
     DEF RxLoopTest, ThreadInv, PortOpenWhileRunning, LineInv, WholeCommands,
         TypeOK, IInv
<1>21. CASE RxRead
  BY <1>21
     DEF RxRead, ThreadInv, PortOpenWhileRunning, LineInv, WholeCommands,
         TypeOK, IInv
<1>22. CASE RxHandle
  BY <1>22
     DEF RxHandle, ThreadInv, PortOpenWhileRunning, LineInv, WholeCommands,
         TypeOK, IInv
<1>23. CASE RxPut
  BY <1>23
     DEF RxPut, ThreadInv, PortOpenWhileRunning, LineInv, WholeCommands,
         TypeOK, IInv
<1>24. CASE RxHandled
  BY <1>24
     DEF RxHandled, ThreadInv, PortOpenWhileRunning, LineInv, WholeCommands,
         TypeOK, IInv
<1>25. CASE RxExit
  BY <1>25
     DEF RxExit, ThreadInv, PortOpenWhileRunning, LineInv, WholeCommands,
         TypeOK, IInv
<1>26. CASE StickAnswers
  BY <1>26
     DEF StickAnswers, ThreadInv, PortOpenWhileRunning, LineInv, WholeCommands,
         TypeOK, IInv
<1>27. CASE Unplug
  BY <1>27
     DEF Unplug, ThreadInv, PortOpenWhileRunning, LineInv, WholeCommands,
         TypeOK, IInv
<1>28. CASE Terminated
  BY <1>28
     DEF Terminated, ThreadInv, PortOpenWhileRunning, LineInv, WholeCommands,
         TypeOK, IInv, vars
<1>29. CASE UNCHANGED vars
  BY <1>29
     DEF ThreadInv, PortOpenWhileRunning, LineInv, WholeCommands, TypeOK, IInv,
         vars
<1> QED
  BY <1>1, <1>2, <1>3, <1>4, <1>5, <1>6, <1>7, <1>8, <1>9, <1>10, <1>11,
     <1>12, <1>13, <1>14, <1>15, <1>16, <1>17, <1>18, <1>19, <1>20, <1>21,
     <1>22, <1>23, <1>24, <1>25, <1>26, <1>27, <1>28, <1>29
  DEF Next, AppCall, MainStep, WdStep, RxStep, SendStep, Senders

-----------------------------------------------------------------------------
(* The invariant, and what follows from it.                                *)

\* A fresh object with a stick that is plugged in.
LEMMA Initially == Init => IInv
<1> SUFFICES ASSUME Init PROVE IInv
  OBVIOUS
<1> USE DEF Init, Threads, Senders, Main, Wd, Rx, NoThread
<1>1. TypeOK
  <2>1. simMode \in BOOLEAN /\ MaxOpens \in Nat /\ 0 \in 0 .. WatchdogPeriod - 1
    BY PeriodAssumption, SimModesAssumption
  <2>2. todo \in [Senders -> Seq(Commands)] /\ piece \in [Senders -> 1 .. 4]
    BY EmptySeq
  <2>3. /\ line \in Seq([cmd : Commands, piece : 1 .. 3])
        /\ batch \in Seq(Messages) /\ reply \in Seq(Messages)
    BY EmptySeq
  <2>4. /\ plugged \in BOOLEAN /\ owed \in BOOLEAN /\ led \in BOOLEAN
        /\ sink \in BOOLEAN /\ result \in BOOLEAN
        /\ stray \in BOOLEAN /\ closed \in BOOLEAN
    BY Zenon
  <2> QED
    BY <2>1, <2>2, <2>3, <2>4 DEF TypeOK, MainPcs, WdPcs, RxPcs, ThreadStates
<1>2. LineInv
  BY DEF LineInv, WholeCommands
<1>3. ThreadInv /\ StopInv /\ JoinInv /\ LedInv
  BY DEF ThreadInv, PortOpenWhileRunning, StopInv, WatchdogOutlivesReceiver,
         JoinInv, StrayJoinNeedsClose, LedInv, NotRunning
<1> QED
  BY <1>1, <1>2, <1>3 DEF IInv

LEMMA Inductive == Spec => []IInv
<1>1. ASSUME IInv, [Next]_vars PROVE IInv'
  BY <1>1, TypeStep, LineStep, ThreadStep, StopStep, JoinStep, LedStep DEF IInv
<1> QED
  BY Initially, <1>1, PTL DEF Spec

\* Every variable has its type in every behaviour of the driver; a thread in
\* sendCmd() has a command to send.
THEOREM TypeCorrect == Spec => []TypeOK
<1>1. IInv => TypeOK
  BY DEF IInv
<1> QED
  BY Inductive, <1>1, PTL

\* sendCmd(): the commands of the application and of the watchdog never mix on the
\* serial line, whatever the application sends and whenever the stick is unplugged.
THEOREM CommandsStayWhole == Spec => []WholeCommands
<1>1. IInv => WholeCommands
  BY DEF IInv, LineInv
<1> QED
  BY Inductive, <1>1, PTL

\* open(), close() and the destructor: no thread of the driver uses a closed port.
THEOREM PortStaysOpen == Spec => []PortOpenWhileRunning
<1>1. IInv => PortOpenWhileRunning
  BY DEF IInv, ThreadInv
<1> QED
  BY Inductive, <1>1, PTL

\* runReceiveThread(): the watchdog polls the stick as long as the receive thread
\* can wait for it.
THEOREM WatchdogStays == Spec => []WatchdogOutlivesReceiver
<1>1. IInv => WatchdogOutlivesReceiver
  BY DEF IInv, StopInv
<1> QED
  BY Inductive, <1>1, PTL

\* runWatchdogThread() and close(): a closed stick has its LED off.
THEOREM LedIsOff == Spec => []LedOffAfterClose
<1>1. IInv => LedOffAfterClose
  BY DEF IInv, TypeOK, ThreadInv, PortOpenWhileRunning, LedInv,
     LedOffAfterClose,
         NotRunning
<1> QED
  BY Inductive, <1>1, PTL

\* open() and close(): the first close() joins only threads that exist.
THEOREM JoinsExist == Spec => []StrayJoinNeedsClose
<1>1. IInv => StrayJoinNeedsClose
  BY DEF IInv, JoinInv
<1> QED
  BY Inductive, <1>1, PTL

-----------------------------------------------------------------------------
(* dv4mini-server.                                                         *)

\* A step of main() or of the threads is one the driver's specification allows.
LEMMA StepIsDriverStep == ASSUME [ServerNext]_allVars PROVE [Next]_vars
<1>1. CASE ServerStep
  BY <1>1, ServerCommandsAssumption
  DEF ServerStep, Open, Opened, SwitchLed, DeclareSink, SetSink, OpenFile, Play,
      Flush, Close, Return, Destroy, Next, AppCall
<1>2. CASE DriverStep
  BY <1>2 DEF DriverStep, Next
<1>3. CASE UNCHANGED allVars
  BY <1>3 DEF allVars
<1> QED
  BY <1>1, <1>2, <1>3 DEF ServerNext

\* What main() does with the driver is a behaviour of DV4Mini.
THEOREM ServerUsesDriver == ServerSpec => Spec
<1>1. ServerInit => Init
  BY DEF ServerInit
<1>2. [ServerNext]_allVars => [Next]_vars
  BY StepIsDriverStep
<1> QED
  BY <1>1, <1>2, PTL DEF ServerSpec, Spec

LEMMA DriverInvariant == ServerSpec => []IInv
BY ServerUsesDriver, Inductive, PTL

-----------------------------------------------------------------------------
(* The sink, the port and the place of main().                             *)

SinkInv ==
  /\ pc[Rx] = "put" => sink
  /\ sink => place \in {"file", "play", "flush", "close", "return", "destroy",
                        "done"}
  /\ place \in {"rxSink", "file", "play", "flush", "close", "return"} =>
       fsink = "alive"
  /\ failure \in {"open", "sink"} => ~sink
  /\ failure # "no" => place \in {"return", "destroy", "done"}
  /\ failure = "no" /\ place = "return" =>
       \/ pc[Main] \in {"closeRx", "stopRx", "joinRx", "closeWd", "joinWd",
                        "closePort"}
       \/ port = "closed"
  /\ failure = "no" /\ place \in {"destroy", "done"} => port = "closed"
  /\ pc[Main] = "openPort" => place = "opened"
  /\ place \in Places /\ failure \in {"no", "open", "sink", "file"}
  /\ pc[Main] = "destroyed" => port = "closed"

\* A step of main() between or at its calls.
LEMMA ServerStepKeeps ==
  ASSUME IInv, SinkInv, ServerStep PROVE SinkInv'
<1> USE DEF Calls, Then, At, Goto, Main, Wd, Rx, Threads, SinkInv, Places,
        vars, objVars, stateVars, endVars, sendVars, stickVars
<1>1. pc \in [Threads -> MainPcs \cup WdPcs \cup RxPcs]
  BY DEF IInv, TypeOK
<1>2. CASE Open
  BY <1>1, <1>2 DEF Open, AppOpen
<1>3. CASE Opened
  BY <1>1, <1>3 DEF Opened, AppCommand
<1>4. CASE SwitchLed
  BY <1>1, <1>4 DEF SwitchLed, AppCommand
<1>5. CASE DeclareSink
  BY <1>1, <1>5 DEF DeclareSink
<1>6. CASE SetSink
  <2>1. failure' = "no" /\ place' = "file" /\ fsink' = "alive" /\ pc' = pc
    BY <1>6 DEF SetSink, AppSetSink
  <2> QED
    BY <1>1, <1>6, <2>1 DEF SetSink
<1>7. CASE OpenFile
  BY <1>1, <1>7 DEF OpenFile
<1>8. CASE Play
  BY <1>1, <1>8 DEF Play, AppCommand
<1>9. CASE Flush
  BY <1>1, <1>9 DEF Flush, AppCommand
<1>10. CASE Close
  BY <1>1, <1>10 DEF Close, AppClose
<1>11. CASE Return
  BY <1>1, <1>11 DEF Return
<1>12. CASE Destroy
  BY <1>1, <1>12 DEF Destroy, AppClose
<1> QED
  BY <1>2, <1>3, <1>4, <1>5, <1>6, <1>7, <1>8, <1>9, <1>10, <1>11, <1>12
  DEF ServerStep

\* The driver leaves the sink alone; only a successful open() opens the port.
LEMMA DriverStepKeeps ==
  ASSUME IInv, SinkInv, DriverStep PROVE SinkInv'
<1> USE DEF At, Goto, Main, Wd, Rx, Threads, Senders, SinkInv, serverVars,
        vars, objVars, stateVars, endVars, sendVars, stickVars
<1>1. pc \in [Threads -> MainPcs \cup WdPcs \cup RxPcs]
  BY DEF IInv, TypeOK
<1>2. UNCHANGED serverVars
  BY DEF DriverStep
<1>3. ASSUME NEW t \in Senders, SendStep(t) PROVE SinkInv'
  BY <1>1, <1>2, <1>3 DEF SendStep, SendLock, SendWrite, After
<1>4. CASE OpenPort
  BY <1>1, <1>2, <1>4 DEF OpenPort
<1>5. CASE CreateWd \/ CreateRx
  BY <1>1, <1>2, <1>5 DEF CreateWd, CreateRx
<1>6. CASE CloseRx \/ StopRx \/ JoinRx \/ CloseWd \/ JoinWd
  BY <1>1, <1>2, <1>6 DEF CloseRx, StopRx, JoinRx, CloseWd, JoinWd, Join
<1>7. CASE ClosePort
  BY <1>1, <1>2, <1>7 DEF ClosePort
<1>8. CASE WdStart \/ WdPoll \/ WdStops \/ WdExit
  BY <1>1, <1>2, <1>8 DEF WdStart, WdPoll, WdStops, WdExit
<1>9. CASE RxStep
  BY <1>1, <1>2, <1>9
  DEF RxStep, RxLoopTest, RxRead, RxHandle, RxPut, RxHandled, RxExit
<1>10. CASE StickAnswers \/ Unplug \/ Terminated
  BY <1>1, <1>2, <1>10 DEF StickAnswers, Unplug, Terminated
<1> QED
  BY <1>3, <1>4, <1>5, <1>6, <1>7, <1>8, <1>9, <1>10
  DEF DriverStep, MainStep, WdStep

LEMMA ServerInductive == ServerSpec => [](IInv /\ SinkInv)
<1>1. ServerInit => SinkInv
  BY DEF ServerInit, Init, SinkInv, Places, Main, Rx, Threads
<1>2. ASSUME IInv, SinkInv, [ServerNext]_allVars PROVE SinkInv'
  <2>1. CASE UNCHANGED allVars
    BY <1>2, <2>1 DEF allVars, serverVars, vars, objVars, stateVars, SinkInv
  <2> QED
    BY <1>2, <2>1, ServerStepKeeps, DriverStepKeeps DEF ServerNext
<1> QED
  BY <1>1, <1>2, DriverInvariant, PTL DEF ServerSpec

\* dv4mini-server: the receive thread finds the FileSink alive on every way out of
\* main() but one.
THEOREM SinkIsAlive == ServerSpec => []SinkOutlivesReceiver
<1>1. IInv /\ SinkInv => SinkOutlivesReceiver
  BY DEF IInv, ThreadInv, PortOpenWhileRunning, SinkInv, SinkOutlivesReceiver,
         NotRunning, Places, Rx
<1> QED
  BY ServerInductive, <1>1, PTL

\* dv4mini-server: whatever main() returns for, it leaves no thread behind, the port
\* closed and the LED off.
THEOREM EndIsClean == ServerSpec => []CleanEnd
<1>1. IInv /\ SinkInv => CleanEnd
  BY DEF IInv, ThreadInv, PortOpenWhileRunning, LedInv, SinkInv, CleanEnd,
         NotRunning, Main, Wd, Rx
<1> QED
  BY ServerInductive, <1>1, PTL

=============================================================================
