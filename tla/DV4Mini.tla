------------------------------ MODULE DV4Mini -------------------------------
(***************************************************************************)
(* The driver of the DV4Mini radio stick, src/src/lib/dv4mini/dv4mini.cpp: *)
(* an application thread (Main), the watchdog thread (Wd), which polls the *)
(* stick, and the receive thread (Rx), which takes its answers.  All of    *)
(* Main and Wd's commands go over one serial line, four write() calls      *)
(* each.  The application opens the object only when the port is closed.   *)
(*                                                                         *)
(* The stick is not part of the repository: it answers a whole request     *)
(* with the bytes of one or more messages, and it can be unplugged.        *)
(***************************************************************************)
EXTENDS Integers, Sequences

CONSTANTS
  AppCommands,    \* the commands the application sends
  Batches,        \* what one read() of the port can hold, as messages
  SimModes,       \* what m_bSimulationMode can hold: no constructor sets it
  WatchdogPeriod, \* rounds of the watchdog from one watchdog request to the next
  MaxOpens        \* bound: calls of open() in a behaviour

Main == "Main"
Wd == "Wd"
Rx == "Rx"
Threads == {Main, Wd, Rx}
Senders == {Main, Wd}
NoThread == "NoThread"

\* Commands without parameters are written in three pieces, the others in four.
Bare == {"ADFGETDATA", "ADFWATCHDOG", "FLUSHTXBUF"}
Commands == Bare \cup {"SETADFMODE", "ADFSETPOWER", "ADFSETSEED", "SETADFQRG",
                       "ADFSETTXBUF", "ADFWRITE", "LED_ON", "LED_OFF"}
Requests == {"ADFGETDATA", "ADFWATCHDOG"}
Pieces(c) == IF c \in Bare THEN 3 ELSE 4

\* SHORT is a watchdog message of less than two bytes, OTHER any other message
\* or a part of one.
Messages == {"ADFWATCHDOG", "ADFGETDATA", "SHORT", "OTHER"}

ASSUME CommandsAssumption == AppCommands \subseteq Commands \ {"LED_OFF"}
ASSUME BatchesAssumption == Batches \subseteq Seq(Messages)
ASSUME SimModesAssumption == SimModes \subseteq BOOLEAN
ASSUME PeriodAssumption == WatchdogPeriod \in Nat \ {0} /\ MaxOpens \in Nat

VARIABLES
  pc,       \* where each thread is
  op,       \* the call of close() being executed: the application's or the destructor's
  wdState,  \* m_WatchdogThreadState
  rxState,  \* m_ReceiveThreadState
  port,     \* m_Port: "open" or "closed"
  simMode,  \* m_bSimulationMode
  sink,     \* m_pRxSink is set
  result,   \* what the last open() returned
  opens,    \* number of calls of open()
  txLock,   \* the holder of m_lckTx
  todo,     \* per sender: commands to send before it goes on
  piece,    \* per sender: the piece of its command that is written next
  wdCount,  \* iCount of the watchdog
  batch,    \* rxBuffer: messages read and not handled yet
  plugged,  \* the stick is plugged in
  line,     \* pieces the stick has got since the last whole command
  led,      \* the LED of the stick is on
  owed,     \* the stick has an answer to give
  reply,    \* messages in the port's input buffer
  dead,     \* what has ended the process: "no", "assert" or "join"
  stray,    \* this close() has joined a thread that does not exist
  closed    \* a close() has returned

stateVars == <<wdState, rxState>>
objVars == <<port, simMode, sink, result, opens>>
sendVars == <<txLock, todo, piece, wdCount>>
stickVars == <<plugged, line, led, owed, reply>>
endVars == <<dead, stray, closed>>
vars == <<pc, op, stateVars, objVars, sendVars, batch, stickVars, endVars>>

ThreadStates == {"IDLE", "RUNNING", "REQUESTSTOP", "STOPPED"}
MainPcs == {"app", "openPort", "createWd", "createRx", "lock", "write",
            "closeRx", "stopRx", "joinRx", "closeWd", "joinWd", "closePort",
            "destroyed"}
WdPcs == {"none", "start", "lock", "write", "loop", "exit", "ended", "joined"}
RxPcs == {"none", "loop", "read", "handle", "put", "exit", "ended", "joined"}
NotRunning == {"none", "ended", "joined"}

At(t, label) == dead = "no" /\ pc[t] = label
Goto(t, label) == pc' = [pc EXCEPT ![t] = label]

-----------------------------------------------------------------------------
(* sendCmd(), run by Main and Wd.                                          *)

\* Where a thread goes on after its last command.
After(t, c) == CASE t = Main -> "app"
                 [] t = Wd -> IF c = "LED_OFF" THEN "exit" ELSE "loop"

\* Mutant: commands are written without the lock.
TxUnlocked == TRUE

TxFree == txLock = NoThread

SendLock(t) ==
  /\ At(t, "lock") /\ TxFree
  /\ txLock' = t /\ Goto(t, "write")
  /\ UNCHANGED <<op, stateVars, objVars, todo, piece, wdCount, batch, stickVars,
                 endVars>>

\* One transmit(): the result of write() is ignored, and it writes nothing when
\* the port is closed or the stick is gone.
Written(t, c) ==
  IF port = "closed" \/ ~plugged
    THEN UNCHANGED <<line, led, owed>>
    ELSE IF piece[t] = Pieces(c)
      THEN /\ line' = <<>>
           /\ led' = (c = "LED_ON" \/ (led /\ c # "LED_OFF"))
           /\ owed' = (owed \/ c \in Requests)
      ELSE /\ line' = Append(line, [cmd |-> c, piece |-> piece[t]])
           /\ UNCHANGED <<led, owed>>

\* The lock is released after the last piece.
SendWrite(t) ==
  LET c == Head(todo[t])
  IN  /\ At(t, "write")
      /\ Written(t, c)
      /\ IF piece[t] = Pieces(c)
           THEN /\ txLock' = NoThread
                /\ todo' = [todo EXCEPT ![t] = Tail(@)]
                /\ piece' = [piece EXCEPT ![t] = 1]
                /\ Goto(t, IF Len(todo[t]) = 1 THEN After(t, c) ELSE "lock")
           ELSE /\ piece' = [piece EXCEPT ![t] = @ + 1]
                /\ UNCHANGED <<pc, txLock, todo>>
      /\ UNCHANGED <<op, stateVars, objVars, wdCount, batch, plugged, reply,
                     endVars>>

-----------------------------------------------------------------------------
(* The application thread.                                                 *)

AppOpen ==
  /\ At(Main, "app") /\ port = "closed" /\ opens < MaxOpens
  /\ opens' = opens + 1 /\ Goto(Main, "openPort")
  /\ UNCHANGED <<op, stateVars, port, simMode, sink, result, sendVars, batch,
                 stickVars, endVars>>

\* Commands are sent only when the last open() has succeeded.
AppCommand(c) ==
  /\ At(Main, "app") /\ result
  /\ todo' = [todo EXCEPT ![Main] = <<c>>] /\ Goto(Main, "lock")
  /\ UNCHANGED <<op, stateVars, objVars, txLock, piece, wdCount, batch,
                 stickVars, endVars>>

\* setRxSink() with a sink; the receive thread may be running.
AppSetSink ==
  /\ At(Main, "app")
  /\ sink' = TRUE
  /\ UNCHANGED <<pc, op, stateVars, port, simMode, result, opens, sendVars,
                 batch, stickVars, endVars>>

\* close() called by the application, or by the destructor.
AppClose(o) ==
  /\ At(Main, "app")
  /\ op' = o /\ stray' = FALSE /\ Goto(Main, "closeRx")
  /\ UNCHANGED <<stateVars, objVars, sendVars, batch, stickVars, dead, closed>>

\* RS232Port::open(), which flushes the input.
OpenPort ==
  /\ At(Main, "openPort")
  /\ \/ /\ plugged
        /\ port' = "open" /\ reply' = <<>> /\ Goto(Main, "createWd")
        /\ UNCHANGED result
     \/ /\ result' = FALSE /\ Goto(Main, "app")
        /\ UNCHANGED <<port, reply>>
  /\ UNCHANGED <<op, stateVars, simMode, sink, opens, sendVars, batch, plugged,
                 line, led, owed, endVars>>

\* The watchdog counts from 0.
CreateWd ==
  /\ At(Main, "createWd")
  /\ \/ /\ wdState' = "RUNNING" /\ wdCount' = 0
        /\ pc' = [pc EXCEPT ![Main] = "createRx", ![Wd] = "start"]
        /\ UNCHANGED result
     \/ /\ wdState' = "IDLE" /\ result' = FALSE
        /\ pc' = [pc EXCEPT ![Main] = "app", ![Wd] = "none"]
        /\ UNCHANGED wdCount
  /\ UNCHANGED <<op, rxState, port, simMode, sink, opens, txLock, todo, piece,
                 batch, stickVars, endVars>>

\* Mutant: a receive thread that could not be created is not recorded as IDLE.
CreateRxKeepsState ==
  /\ At(Main, "createRx")
  /\ rxState' = "RUNNING"
  /\ \/ /\ result' = TRUE
        /\ pc' = [pc EXCEPT ![Main] = "app", ![Rx] = "loop"]
        /\ UNCHANGED wdState
     \/ /\ wdState' = "REQUESTSTOP" /\ result' = FALSE
        /\ pc' = [pc EXCEPT ![Main] = "app", ![Rx] = "none"]
  /\ UNCHANGED <<op, port, simMode, sink, opens, sendVars, batch, stickVars,
                 endVars>>

CreateRx ==
  /\ At(Main, "createRx")
  /\ \/ /\ rxState' = "RUNNING" /\ result' = TRUE
        /\ pc' = [pc EXCEPT ![Main] = "app", ![Rx] = "loop"]
        /\ UNCHANGED wdState
     \/ /\ rxState' = "IDLE" /\ wdState' = "REQUESTSTOP" /\ result' = FALSE
        /\ pc' = [pc EXCEPT ![Main] = "app", ![Rx] = "none"]
  /\ UNCHANGED <<op, port, simMode, sink, opens, sendVars, batch, stickVars,
                 endVars>>

\* The tests of the thread states in close().
CloseRx ==
  /\ At(Main, "closeRx")
  /\ Goto(Main, IF rxState # "IDLE" THEN "stopRx" ELSE "closeWd")
  /\ UNCHANGED <<op, stateVars, objVars, sendVars, batch, stickVars, endVars>>

\* Mutant: the watchdog is asked to stop together with the receive thread.
StopBoth ==
  /\ At(Main, "stopRx")
  /\ rxState' = "REQUESTSTOP" /\ wdState' = "REQUESTSTOP" /\ Goto(Main, "joinRx")
  /\ UNCHANGED <<op, objVars, sendVars, batch, stickVars, endVars>>

StopRx ==
  /\ At(Main, "stopRx")
  /\ rxState' = "REQUESTSTOP" /\ Goto(Main, "joinRx")
  /\ UNCHANGED <<op, wdState, objVars, sendVars, batch, stickVars, endVars>>

\* pthread_join() of a thread that has ended.  Joining one that was joined before
\* or never created is undefined: the call returns, or the process dies.
Join(t) ==
  \/ /\ pc[t] = "ended"
     /\ pc' = [pc EXCEPT ![t] = "joined",
                         ![Main] = IF t = Rx THEN "closeWd" ELSE "closePort"]
     /\ UNCHANGED <<dead, stray>>
  \/ /\ pc[t] \in {"none", "joined"}
     /\ Goto(Main, IF t = Rx THEN "closeWd" ELSE "closePort")
     /\ dead' \in {"no", "join"} /\ stray' = TRUE

JoinRx ==
  /\ At(Main, "joinRx") /\ Join(Rx)
  /\ UNCHANGED <<op, stateVars, objVars, sendVars, batch, stickVars, closed>>

\* Mutant: the watchdog is not waited for.
CloseWdUnjoined ==
  /\ At(Main, "closeWd")
  /\ Goto(Main, "closePort")
  /\ UNCHANGED <<op, stateVars, objVars, sendVars, batch, stickVars, endVars>>

CloseWd ==
  /\ At(Main, "closeWd")
  /\ Goto(Main, IF wdState # "IDLE" THEN "joinWd" ELSE "closePort")
  /\ UNCHANGED <<op, stateVars, objVars, sendVars, batch, stickVars, endVars>>

JoinWd ==
  /\ At(Main, "joinWd") /\ Join(Wd)
  /\ UNCHANGED <<op, stateVars, objVars, sendVars, batch, stickVars, closed>>

\* The thread states stay as they are.
ClosePort ==
  /\ At(Main, "closePort")
  /\ port' = "closed" /\ closed' = TRUE /\ op' = "none"
  /\ Goto(Main, IF op = "destroy" THEN "destroyed" ELSE "app")
  /\ UNCHANGED <<stateVars, simMode, sink, result, opens, sendVars, batch,
                 stickVars, dead, stray>>

-----------------------------------------------------------------------------
(* runWatchdogThread().                                                    *)

WdStart ==
  /\ At(Wd, "start")
  /\ todo' = [todo EXCEPT ![Wd] = <<"SETADFMODE", "ADFSETPOWER", "ADFSETSEED">>]
  /\ Goto(Wd, "lock")
  /\ UNCHANGED <<op, stateVars, objVars, txLock, piece, wdCount, batch,
                 stickVars, endVars>>

\* Mutant: the counter is not set back.
WdPollUncounted ==
  /\ At(Wd, "loop") /\ wdState = "RUNNING"
  /\ IF wdCount + 1 >= WatchdogPeriod
       THEN /\ todo' = [todo EXCEPT ![Wd] = <<"ADFGETDATA", "ADFWATCHDOG">>]
            /\ wdCount' = wdCount + 1
       ELSE /\ todo' = [todo EXCEPT ![Wd] = <<"ADFGETDATA">>]
            /\ wdCount' = wdCount + 1
  /\ Goto(Wd, "lock")
  /\ UNCHANGED <<op, stateVars, objVars, txLock, piece, batch, stickVars,
                 endVars>>

WdPoll ==
  /\ At(Wd, "loop") /\ wdState = "RUNNING"
  /\ IF wdCount + 1 >= WatchdogPeriod
       THEN /\ todo' = [todo EXCEPT ![Wd] = <<"ADFGETDATA", "ADFWATCHDOG">>]
            /\ wdCount' = 0
       ELSE /\ todo' = [todo EXCEPT ![Wd] = <<"ADFGETDATA">>]
            /\ wdCount' = wdCount + 1
  /\ Goto(Wd, "lock")
  /\ UNCHANGED <<op, stateVars, objVars, txLock, piece, batch, stickVars,
                 endVars>>

\* Mutant: the LED is left as it is.
WdStopsLit ==
  /\ At(Wd, "loop") /\ wdState # "RUNNING"
  /\ Goto(Wd, "exit")
  /\ UNCHANGED <<op, stateVars, objVars, sendVars, batch, stickVars, endVars>>

\* The loop has ended: setLED(false).
WdStops ==
  /\ At(Wd, "loop") /\ wdState # "RUNNING"
  /\ todo' = [todo EXCEPT ![Wd] = <<"LED_OFF">>] /\ Goto(Wd, "lock")
  /\ UNCHANGED <<op, stateVars, objVars, txLock, piece, wdCount, batch,
                 stickVars, endVars>>

WdExit ==
  /\ At(Wd, "exit")
  /\ wdState' = "STOPPED" /\ Goto(Wd, "ended")
  /\ UNCHANGED <<op, rxState, objVars, sendVars, batch, stickVars, endVars>>

-----------------------------------------------------------------------------
(* runReceiveThread().                                                     *)

RxLoopTest ==
  /\ At(Rx, "loop")
  /\ Goto(Rx, IF rxState = "RUNNING" THEN "read" ELSE "exit")
  /\ UNCHANGED <<op, stateVars, objVars, sendVars, batch, stickVars, endVars>>

\* read() blocks until the stick has sent something; it fails, and there is
\* nothing to handle, when the port is closed or the stick is gone.
RxRead ==
  /\ At(Rx, "read")
  /\ \/ /\ simMode
        /\ batch' = <<"ADFWATCHDOG">> /\ UNCHANGED reply
     \/ /\ ~simMode /\ port = "open" /\ plugged /\ reply # <<>>
        /\ batch' = reply /\ reply' = <<>>
     \/ /\ ~simMode /\ (port = "closed" \/ ~plugged)
        /\ UNCHANGED <<batch, reply>>
  /\ Goto(Rx, "handle")
  /\ UNCHANGED <<op, stateVars, objVars, sendVars, plugged, line, led, owed,
                 endVars>>

\* receiveCmd() of the next message of the buffer: data goes to the sink, if one
\* is set, and a short watchdog message fails an assert().
RxHandle ==
  /\ At(Rx, "handle") /\ batch # <<>>
  /\ Goto(Rx, IF Head(batch) = "ADFGETDATA" /\ sink THEN "put" ELSE "handle")
  /\ batch' = Tail(batch)
  /\ dead' = IF Head(batch) = "SHORT" THEN "assert" ELSE dead
  /\ UNCHANGED <<op, stateVars, objVars, sendVars, stickVars, stray, closed>>

\* m_pRxSink->put().
RxPut ==
  /\ At(Rx, "put")
  /\ Goto(Rx, "handle")
  /\ UNCHANGED <<op, stateVars, objVars, sendVars, batch, stickVars, endVars>>

RxHandled ==
  /\ At(Rx, "handle") /\ batch = <<>>
  /\ Goto(Rx, "loop")
  /\ UNCHANGED <<op, stateVars, objVars, sendVars, batch, stickVars, endVars>>

\* Only here the watchdog is asked to stop.
RxExit ==
  /\ At(Rx, "exit")
  /\ rxState' = "STOPPED" /\ wdState' = "REQUESTSTOP" /\ Goto(Rx, "ended")
  /\ UNCHANGED <<op, objVars, sendVars, batch, stickVars, endVars>>

-----------------------------------------------------------------------------
(* The stick.                                                              *)

StickAnswers ==
  /\ dead = "no" /\ plugged /\ owed /\ reply = <<>>
  /\ reply' \in Batches /\ owed' = FALSE
  /\ UNCHANGED <<pc, op, stateVars, objVars, sendVars, batch, plugged, line,
                 led, endVars>>

Unplug ==
  /\ dead = "no" /\ plugged
  /\ plugged' = FALSE
  /\ UNCHANGED <<pc, op, stateVars, objVars, sendVars, batch, line, led, owed,
                 reply, endVars>>

-----------------------------------------------------------------------------
(* The specification.                                                      *)

\* The object is gone, or the process is.
Terminated ==
  /\ dead # "no" \/ pc[Main] = "destroyed"
  /\ UNCHANGED vars

Init ==
  /\ pc = [t \in Threads |-> IF t = Main THEN "app" ELSE "none"]
  /\ op = "none"
  /\ wdState = "IDLE" /\ rxState = "IDLE"
  /\ port = "closed" /\ simMode \in SimModes /\ sink = FALSE
  /\ result = FALSE /\ opens = 0
  /\ txLock = NoThread
  /\ todo = [t \in Senders |-> <<>>]
  /\ piece = [t \in Senders |-> 1]
  /\ wdCount = 0 /\ batch = <<>>
  /\ plugged = TRUE /\ line = <<>> /\ led = FALSE
  /\ owed = FALSE /\ reply = <<>>
  /\ dead = "no" /\ stray = FALSE /\ closed = FALSE

AppCall ==
  \/ AppOpen
  \/ \E c \in AppCommands : AppCommand(c)
  \/ AppSetSink
  \/ \E o \in {"close", "destroy"} : AppClose(o)

SendStep(t) == SendLock(t) \/ SendWrite(t)

MainStep ==
  \/ OpenPort \/ CreateWd \/ CreateRx
  \/ CloseRx \/ StopRx \/ JoinRx \/ CloseWd \/ JoinWd \/ ClosePort
  \/ SendStep(Main)

WdStep == WdStart \/ WdPoll \/ WdStops \/ WdExit \/ SendStep(Wd)

RxStep ==
  RxLoopTest \/ RxRead \/ RxHandle \/ RxPut \/ RxHandled \/ RxExit

Next ==
  \/ AppCall \/ MainStep \/ WdStep \/ RxStep
  \/ StickAnswers \/ Unplug \/ Terminated

\* The scheduler runs the three threads, a stick that is plugged in answers, and
\* no thread is kept from m_lckTx for ever: the watchdog sleeps between its polls.
Fairness ==
  /\ WF_vars(MainStep) /\ WF_vars(WdStep) /\ WF_vars(RxStep)
  /\ WF_vars(StickAnswers)
  /\ SF_vars(SendLock(Main)) /\ SF_vars(SendLock(Wd))

Spec == Init /\ [][Next]_vars

-----------------------------------------------------------------------------
(* Properties.                                                             *)

\* The type invariant; a sender has a command while it is sending.
TypeOK ==
  /\ pc \in [Threads -> MainPcs \cup WdPcs \cup RxPcs]
  /\ pc[Main] \in MainPcs /\ pc[Wd] \in WdPcs /\ pc[Rx] \in RxPcs
  /\ op \in {"none", "close", "destroy"}
  /\ wdState \in ThreadStates /\ rxState \in ThreadStates
  /\ port \in {"open", "closed"}
  /\ simMode \in BOOLEAN /\ sink \in BOOLEAN /\ result \in BOOLEAN
  /\ opens \in Nat
  /\ txLock \in Senders \cup {NoThread}
  /\ todo \in [Senders -> Seq(Commands)]
  /\ \A t \in Senders : pc[t] \in {"lock", "write"} => todo[t] # <<>>
  /\ piece \in [Senders -> 1 .. 4]
  /\ wdCount \in 0 .. WatchdogPeriod - 1
  /\ batch \in Seq(Messages) /\ reply \in Seq(Messages)
  /\ plugged \in BOOLEAN /\ owed \in BOOLEAN /\ led \in BOOLEAN
  /\ line \in Seq([cmd : Commands, piece : 1 .. 3])
  /\ dead \in {"no", "assert", "join"}
  /\ stray \in BOOLEAN /\ closed \in BOOLEAN

\* The pieces on the line are those of one command, in order: the commands of the
\* application and of the watchdog never mix, also when the stick is unplugged in
\* the middle of one or the port is closed and opened again.
WholeCommands ==
  \A i \in 1 .. Len(line) : line[i] = [cmd |-> line[1].cmd, piece |-> i]

\* No thread uses the port, or the object, after close() has closed the port.
PortOpenWhileRunning ==
  \A t \in {Wd, Rx} : pc[t] \notin NotRunning => port = "open"

\* As long as the receive thread can block in read() the watchdog polls the stick:
\* only the stick's answers bring it back to the test of its state.
WatchdogOutlivesReceiver ==
  pc[Rx] \in {"loop", "read", "handle", "put"} => wdState = "RUNNING"

\* A stick that was opened and closed again is left with its LED off, although the
\* application could turn it on until it called close().
LedOffAfterClose ==
  port = "closed" /\ plugged => ~led

\* However open() ended, the first close() joins no thread that does not exist;
\* only a close() after another one, as in the destructor, can.
StrayJoinNeedsClose == stray => closed
=============================================================================
