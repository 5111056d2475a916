--------------------------- MODULE HomebrewClient ---------------------------
(***************************************************************************)
(* The Homebrew repeater client of src/src/lib/homebrew/homebrewclient.cpp:*)
(* one application thread (Main) that calls open(), close(),               *)
(* getRxPacket(), sendTxPacket() and finally the destructor, and the       *)
(* receive thread (Rx) that open() starts and close() joins.  They share   *)
(* the object's members without a lock, except for the packet queue, which *)
(* m_lckRxQueue protects.                                                  *)
(*                                                                         *)
(* A step is the code between two accesses that the other thread can see.  *)
(* The network is the most general one: in every call of recvfrom() any    *)
(* datagram of any sender may arrive, or none before the timeout.          *)
(* HomebrewSession replaces it by a master and a lossy network.            *)
(***************************************************************************)
EXTENDS Integers, Sequences, HomebrewConfig

CONSTANTS
  Hosts,      \* addresses a datagram can come from and open() can be given
  NoAddr,     \* the address of an IPAddr that was never set, 0.0.0.0
  Dialects,   \* the protocol dialects the application asks for
  Configs,    \* the configurations the application may set
  MaxQueue,   \* m_iMaxPacketRxQueueSize
  MaxOpens,   \* bound: sockets opened in a behaviour
  MaxPackets, \* bound: DMR packets accepted in a behaviour
  MaxTime     \* bound: the last second of the clock

ASSUME HostsAssumption == NoAddr \notin Hosts
ASSUME DialectsAssumption == Dialects \subseteq {"CLASSIC", "MMDVM"}
ASSUME ConfigsAssumption == Configs \subseteq Config
ASSUME BoundsAssumption ==
  MaxQueue \in Nat /\ MaxOpens \in Nat /\ MaxPackets \in Nat /\ MaxTime \in Nat

Main == "Main"
Rx == "Rx"
Threads == {Main, Rx}
NoThread == "NoThread"

VARIABLES
  pc,          \* where each thread is
  call,        \* the operation Main is executing, and its arguments
  threadState, \* m_eReceiveThreadState
  phase,       \* m_ePhase
  server,      \* m_ServerAddr
  dialect,     \* m_iDialect
  config,      \* what the values of the configuration print
  sockfd,      \* m_sock.sockfd: the session's socket, or -1
  opens,       \* sockets opened so far; a socket is named by its number
  queue,       \* m_PacketRxQueue
  rxLock,      \* the holder of m_lckRxQueue
  front,       \* per thread: p of getRxPacket()
  packet,      \* p of runReceiveThread(): the packet just received
  lastPing,    \* tLastPingTime
  lastPong,    \* m_tLastPongTime
  now,         \* time(NULL)
  aborted,     \* a failed assert() has ended the process
  toServer,    \* datagrams handed to sendto() on an open socket
  received,    \* number of DMR packets accepted so far
  delivered,   \* packets getRxPacket() has returned to the application
  notice       \* this session's receive thread has seen MSTCL

callVars == <<call, server, dialect, config, opens>>
wireVars == <<sockfd, toServer>>
clockVars == <<lastPing, lastPong, now>>
pipeVars == <<queue, rxLock, front, packet, received, delivered>>
\* All that taking a packet to the application leaves alone.
restVars == <<callVars, threadState, phase, wireVars, clockVars, aborted, notice>>
\* All that open() and close() leave alone.
stillVars == <<clockVars, aborted, notice, pipeVars>>
vars == <<pc, restVars, pipeVars>>

ThreadStates == {"IDLE", "RUNNING", "REQUESTSTOP", "STOPPED"}
Phases == {"CP_DISCONNECTED", "CP_LOGIN", "CP_AUTH", "CP_CONFIG", "CP_DATA"}
InKinds == {"RPTACK", "MSTCL", "MSTPONG", "DMRD", "OTHER"}  \* OTHER: any other kind
OutKinds == {"RPTL", "RPTK", "RPTC", "RPTP", "RPTCL", "DMRD"}
Inbound == [kind : InKinds, from : Hosts]
Outbound == [kind : OutKinds, to : Hosts \cup {NoAddr}, sock : Nat]
Packet == [id : Nat, from : Hosts, sock : Nat]
NoPacket == [id |-> 0]

MainPcs == {"app", "close", "stop", "join", "resolve", "socket", "create",
            "destroy", "destroyed", "getLock", "getFront", "getErase"}
RxPcs == {"none", "start", "loop", "recv", "lock", "check", "getLock",
          "getFront", "getErase", "push", "logout", "closeSock", "exit",
          "ended"}

NoCall == [op |-> "none", host |-> NoAddr, dialect |-> "CLASSIC"]

At(t, label) == ~aborted /\ pc[t] = label
Goto(t, label) == pc' = [pc EXCEPT ![t] = label]

Datagram(kind) == [kind |-> kind, to |-> server, sock |-> sockfd]

\* Mutant: a datagram for descriptor -1 is sent.
SentUnchecked(kinds) == toServer \cup {Datagram(k) : k \in kinds}

\* HomebrewClient::send(): sendto() on descriptor -1 fails and sends nothing.
Sent(kinds) ==
  IF sockfd = -1 THEN toServer ELSE toServer \cup {Datagram(k) : k \in kinds}

-----------------------------------------------------------------------------
(* The application thread: open(), close() and the destructor.             *)

\* The setters of the repeater's data; the programs call them before open(), when
\* there is no receive thread to print what they set.
AppConfigure(c) ==
  /\ At(Main, "app") /\ threadState = "IDLE"
  /\ config' = c
  /\ UNCHANGED <<pc, call, server, dialect, opens, threadState, phase, wireVars,
                 stillVars>>

AppOpen(h, d) ==
  /\ At(Main, "app") /\ opens < MaxOpens
  /\ call' = [op |-> "open", host |-> h, dialect |-> d] /\ Goto(Main, "close")
  /\ UNCHANGED <<server, dialect, config, opens, threadState, phase, wireVars,
                 stillVars>>

\* close() called by the application, or by the destructor.
AppClose(op) ==
  /\ At(Main, "app")
  /\ call' = [NoCall EXCEPT !.op = op] /\ Goto(Main, "close")
  /\ UNCHANGED <<server, dialect, config, opens, threadState, phase, wireVars,
                 stillVars>>

AfterClose ==
  CASE call.op = "open" -> "resolve"
    [] call.op = "close" -> "app"
    [] call.op = "destroy" -> "destroy"

\* No receive thread was ever started, or close() has already joined it.
CloseIdle ==
  /\ At(Main, "close") /\ threadState = "IDLE"
  /\ phase' = "CP_DISCONNECTED" /\ Goto(Main, AfterClose)
  /\ UNCHANGED <<callVars, threadState, wireVars, stillVars>>

\* Mutant: close() asks the thread to stop but does not wait for it.
CloseWithoutJoin ==
  /\ At(Main, "close") /\ threadState # "IDLE"
  /\ threadState' = "REQUESTSTOP" /\ Goto(Main, AfterClose)
  /\ UNCHANGED <<callVars, phase, wireVars, stillVars>>

CloseActive ==
  /\ At(Main, "close") /\ threadState # "IDLE"
  /\ Goto(Main, "stop")
  /\ UNCHANGED <<restVars, pipeVars>>

\* The write races with the receive thread's own writes of the member.
CloseStop ==
  /\ At(Main, "stop")
  /\ threadState' = "REQUESTSTOP" /\ Goto(Main, "join")
  /\ UNCHANGED <<callVars, phase, wireVars, stillVars>>

\* pthread_join() returns once the thread has ended.
CloseJoin ==
  /\ At(Main, "join") /\ pc[Rx] = "ended"
  /\ pc' = [pc EXCEPT ![Main] = AfterClose, ![Rx] = "none"]
  /\ threadState' = "IDLE"
  /\ phase' = "CP_DISCONNECTED"
  /\ UNCHANGED <<callVars, wireVars, stillVars>>

\* The result of setbyhostname() is ignored: when the name does not resolve
\* the address of the previous open() stays in m_ServerAddr.
OpenResolve ==
  /\ At(Main, "resolve")
  /\ server' \in {call.host, server}
  /\ dialect' = call.dialect /\ Goto(Main, "socket")
  /\ UNCHANGED <<call, config, opens, threadState, phase, wireVars, stillVars>>

\* AbstractSocket::open() closes the descriptor it still holds, then asks for
\* a new one, which the system may refuse.
OpenSocket ==
  /\ At(Main, "socket")
  /\ \/ /\ opens' = opens + 1
        /\ sockfd' = opens + 1
        /\ Goto(Main, "create")
     \/ /\ sockfd' = -1
        /\ Goto(Main, "app")
        /\ UNCHANGED opens
  /\ UNCHANGED <<call, server, dialect, config, threadState, phase, toServer,
                 stillVars>>

\* pthread_create() may fail; the socket then stays open.
OpenCreate ==
  /\ At(Main, "create")
  /\ \/ /\ threadState' = "RUNNING"
        /\ pc' = [pc EXCEPT ![Main] = "app", ![Rx] = "start"]
        /\ notice' = FALSE
     \/ /\ threadState' = "IDLE"
        /\ Goto(Main, "app")
        /\ UNCHANGED notice
  /\ UNCHANGED <<callVars, phase, wireVars, clockVars, aborted, pipeVars>>

\* The members are destroyed after the destructor's close().
Destroy ==
  /\ At(Main, "destroy")
  /\ sockfd' = -1 /\ Goto(Main, "destroyed")
  /\ UNCHANGED <<callVars, threadState, phase, toServer, stillVars>>

\* sendTxPacket() asks neither for the phase nor for the thread's state.
AppSend ==
  /\ At(Main, "app")
  /\ toServer' = Sent({"DMRD"})
  /\ UNCHANGED <<pc, callVars, threadState, phase, sockfd, stillVars>>

AppGet ==
  /\ At(Main, "app")
  /\ Goto(Main, "getLock")
  /\ UNCHANGED <<restVars, pipeVars>>

-----------------------------------------------------------------------------
(* getRxPacket(), run by Main for the application and by Rx to evict.      *)

AfterGet(t) == IF t = Main THEN "app" ELSE "push"

\* Mutant: the queue is used without its lock.
LockIgnored == TRUE

\* m_lckRxQueue has default attributes: it is not recursive, and a thread
\* that locks it twice waits for itself.
LockFree == rxLock = NoThread

GetLock(t) ==
  /\ At(t, "getLock") /\ LockFree
  /\ rxLock' = t /\ Goto(t, "getFront")
  /\ UNCHANGED <<restVars, queue, front, packet, received, delivered>>

GetEmpty(t) ==
  /\ At(t, "getFront") /\ queue = <<>>
  /\ rxLock' = NoThread /\ Goto(t, AfterGet(t))
  /\ UNCHANGED <<restVars, queue, front, packet, received, delivered>>

GetFront(t) ==
  /\ At(t, "getFront") /\ queue # <<>>
  /\ front' = [front EXCEPT ![t] = Head(queue)] /\ Goto(t, "getErase")
  /\ UNCHANGED <<restVars, queue, rxLock, packet, received, delivered>>

Erased == Tail(queue)

\* Main hands the packet to the application, Rx deletes it.
GetErase(t) ==
  /\ At(t, "getErase")
  /\ queue' = Erased
  /\ rxLock' = NoThread
  /\ delivered' = IF t = Main THEN Append(delivered, front[t]) ELSE delivered
  /\ front' = [front EXCEPT ![t] = NoPacket] /\ Goto(t, AfterGet(t))
  /\ UNCHANGED <<restVars, packet, received>>

-----------------------------------------------------------------------------
(* runReceiveThread().                                                     *)

\* Mutant: the whole login is sent at once, without waiting for the answers.
RxStartEager ==
  /\ At(Rx, "start")
  /\ phase' = "CP_LOGIN"
  /\ toServer' = Sent({"RPTL", "RPTK", "RPTC"})
  /\ lastPing' = 0 /\ lastPong' = now
  /\ Goto(Rx, "loop")
  /\ UNCHANGED <<callVars, threadState, sockfd, now, aborted, notice, pipeVars>>

RxStart ==
  /\ At(Rx, "start")
  /\ phase' = "CP_LOGIN"
  /\ toServer' = Sent({"RPTL"})
  /\ lastPing' = 0 /\ lastPong' = now
  /\ Goto(Rx, "loop")
  /\ UNCHANGED <<callVars, threadState, sockfd, now, aborted, notice, pipeVars>>

\* Mutant: the thread leaves its loop without logging out.
LoopWithoutLogout == IF threadState = "RUNNING" THEN "recv" ELSE "closeSock"

\* Mutant: the loop does not look at the requested state.
LoopForever == "recv"

AfterLoopTest == IF threadState = "RUNNING" THEN "recv" ELSE "logout"

\* The condition of the receive loop.
RxLoopTest ==
  /\ At(Rx, "loop")
  /\ Goto(Rx, AfterLoopTest)
  /\ UNCHANGED <<restVars, pipeVars>>

\* After every return of recvfrom(), and before its result is looked at, a
\* connected client pings the server once in each second of the clock.
PingDue == phase = "CP_DATA" /\ now # lastPing
PingThenSend(kinds) ==
  /\ toServer' = Sent(kinds \cup (IF PingDue THEN {"RPTP"} ELSE {}))
  /\ lastPing' = IF PingDue THEN now ELSE lastPing

\* A timeout, an error, or a datagram that is discarded: its sender is unknown,
\* or the MMDVM dialect has no branch for its kind.
RxNothing ==
  /\ At(Rx, "recv")
  /\ PingThenSend({}) /\ Goto(Rx, "loop")
  /\ UNCHANGED <<callVars, threadState, phase, sockfd, lastPong, now, aborted,
                 notice, pipeVars>>

\* Mutant: the sender is not tested.
AcceptedFromAnyone(d) == At(Rx, "recv")

\* A datagram gets past the test of its sender.
Accepted(d) == At(Rx, "recv") /\ d.from = server

\* The branch of the MMDVM dialect that a datagram takes.
Received(d, kind) == Accepted(d) /\ dialect = "MMDVM" /\ d.kind = kind

\* The classic dialect has no receive path: assert(false).
RxClassic(d) ==
  /\ Accepted(d) /\ dialect = "CLASSIC"
  /\ aborted' = TRUE
  /\ UNCHANGED <<pc, callVars, threadState, phase, wireVars, clockVars, notice,
                 pipeVars>>

\* Mutant: one acknowledgement is taken for the answer to both key and
\* configuration.
AckNextSkips == [CP_DISCONNECTED |-> "CP_DISCONNECTED", CP_LOGIN |-> "CP_AUTH",
                 CP_AUTH |-> "CP_DATA", CP_CONFIG |-> "CP_DATA",
                 CP_DATA |-> "CP_DATA"]

\* The phase after an acknowledgement, and what the client answers.
AckNext == [CP_DISCONNECTED |-> "CP_DISCONNECTED", CP_LOGIN |-> "CP_AUTH",
            CP_AUTH |-> "CP_CONFIG", CP_CONFIG |-> "CP_DATA",
            CP_DATA |-> "CP_DATA"]

\* Mutant: the configuration is sent with the challenge's answer.
AckReplyEarly ==
  [CP_DISCONNECTED |-> {}, CP_LOGIN |-> {"RPTK", "RPTC"}, CP_AUTH |-> {},
   CP_CONFIG |-> {}, CP_DATA |-> {}]

AckReply == [CP_DISCONNECTED |-> {}, CP_LOGIN |-> {"RPTK"},
             CP_AUTH |-> {"RPTC"}, CP_CONFIG |-> {}, CP_DATA |-> {}]

\* The step an acknowledgement ends, and the next one the client asks for.
AckAnswered ==
  /\ phase = "CP_AUTH" => ConfigLength(config) = AssertedLength
  /\ phase' = AckNext[phase]
  /\ PingThenSend(AckReply[phase]) /\ Goto(Rx, "loop")
  /\ UNCHANGED <<callVars, threadState, sockfd, lastPong, now, aborted, notice,
                 pipeVars>>

\* A configuration that does not print as AssertedLength characters: the assert()
\* behind sprintf() fails.
AckMisfit ==
  /\ phase = "CP_AUTH" /\ ConfigLength(config) # AssertedLength
  /\ phase' = "CP_CONFIG" /\ aborted' = TRUE
  /\ UNCHANGED <<pc, callVars, threadState, wireVars, clockVars, notice, pipeVars>>

RxAck(d) == Received(d, "RPTACK") /\ (AckAnswered \/ AckMisfit)

\* The master is going to shut down.
RxMasterClose(d) ==
  /\ Received(d, "MSTCL")
  /\ threadState' = "REQUESTSTOP" /\ notice' = TRUE
  /\ PingThenSend({}) /\ Goto(Rx, "loop")
  /\ UNCHANGED <<callVars, phase, sockfd, lastPong, now, aborted, pipeVars>>

RxPong(d) ==
  /\ Received(d, "MSTPONG")
  /\ lastPong' = now
  /\ PingThenSend({}) /\ Goto(Rx, "loop")
  /\ UNCHANGED <<callVars, threadState, phase, sockfd, now, aborted, notice,
                 pipeVars>>

\* DMR data is taken in every phase.
RxData(d) ==
  /\ Received(d, "DMRD") /\ received < MaxPackets
  /\ received' = received + 1
  /\ packet' = [id |-> received + 1, from |-> d.from, sock |-> sockfd]
  /\ PingThenSend({}) /\ Goto(Rx, "lock")
  /\ UNCHANGED <<callVars, threadState, phase, sockfd, lastPong, now, aborted,
                 notice, queue, rxLock, front, delivered>>

RxLock ==
  /\ At(Rx, "lock") /\ LockFree
  /\ rxLock' = Rx /\ Goto(Rx, "check")
  /\ UNCHANGED <<restVars, queue, front, packet, received, delivered>>

\* Mutant: the limit is tested one packet too early.
OverLimitEarly == Len(queue) >= MaxQueue

OverLimit == Len(queue) > MaxQueue

\* A queue above its limit: getRxPacket() is called to evict the oldest, with
\* m_lckRxQueue held.
RxCheck ==
  /\ At(Rx, "check")
  /\ Goto(Rx, IF OverLimit THEN "getLock" ELSE "push")
  /\ UNCHANGED <<restVars, pipeVars>>

RxPush ==
  /\ At(Rx, "push")
  /\ queue' = Append(queue, packet)
  /\ rxLock' = NoThread
  /\ packet' = NoPacket /\ Goto(Rx, "loop")
  /\ UNCHANGED <<restVars, front, received, delivered>>

RxLogout ==
  /\ At(Rx, "logout")
  /\ toServer' = Sent({"RPTCL"}) /\ Goto(Rx, "closeSock")
  /\ UNCHANGED <<callVars, threadState, phase, sockfd, stillVars>>

RxCloseSocket ==
  /\ At(Rx, "closeSock")
  /\ sockfd' = -1
  /\ phase' = "CP_DISCONNECTED" /\ Goto(Rx, "exit")
  /\ UNCHANGED <<callVars, threadState, toServer, stillVars>>

\* The thread's last access to the object.
RxExit ==
  /\ At(Rx, "exit")
  /\ threadState' = "STOPPED" /\ Goto(Rx, "ended")
  /\ UNCHANGED <<callVars, phase, wireVars, stillVars>>

-----------------------------------------------------------------------------
(* The specification.                                                      *)

\* The clock; a time(NULL) read is the value of now in the step that reads it.
Tick ==
  /\ ~aborted
  /\ now < MaxTime
  /\ now' = now + 1
  /\ UNCHANGED <<pc, callVars, threadState, phase, wireVars, lastPing, lastPong,
                 aborted, notice, pipeVars>>

\* The object is gone, or the process is.
Terminated ==
  /\ aborted \/ pc[Main] = "destroyed"
  /\ UNCHANGED vars

Init ==
  /\ pc = [t \in Threads |-> IF t = Main THEN "app" ELSE "none"]
  /\ call = NoCall
  /\ threadState = "IDLE"
  /\ phase = "CP_DISCONNECTED"
  /\ server = NoAddr
  /\ dialect = "CLASSIC"
  /\ config = NewConfig
  /\ sockfd = -1
  /\ opens = 0
  /\ queue = <<>>
  /\ rxLock = NoThread
  /\ front = [t \in Threads |-> NoPacket]
  /\ packet = NoPacket
  /\ lastPing = 0
  /\ lastPong = 0
  /\ now = 1
  /\ aborted = FALSE
  /\ toServer = {}
  /\ received = 0
  /\ delivered = <<>>
  /\ notice = FALSE

\* What the application may start, in any order.
AppControl ==
  \/ \E c \in Configs : AppConfigure(c)
  \/ \E h \in Hosts, d \in Dialects : AppOpen(h, d)
  \/ \E op \in {"close", "destroy"} : AppClose(op)
  \/ AppGet

AppCall == AppControl \/ AppSend

GetStep(t) == GetLock(t) \/ GetEmpty(t) \/ GetFront(t) \/ GetErase(t)

\* What Main does inside a call.
MainStep ==
  \/ CloseIdle \/ CloseActive \/ CloseStop \/ CloseJoin
  \/ OpenResolve \/ OpenSocket \/ OpenCreate \/ Destroy
  \/ GetStep(Main)

RxReceive(d) ==
  RxClassic(d) \/ RxAck(d) \/ RxMasterClose(d) \/ RxPong(d) \/ RxData(d)

\* What the receive thread does between two calls of recvfrom().
RxLocal ==
  \/ RxStart \/ RxLoopTest \/ RxLock \/ RxCheck \/ RxPush
  \/ GetStep(Rx)
  \/ RxLogout \/ RxCloseSocket \/ RxExit

RxStep == RxLocal \/ RxNothing \/ \E d \in Inbound : RxReceive(d)

Next == AppCall \/ MainStep \/ RxStep \/ Tick \/ Terminated

\* The scheduler runs both threads, and recvfrom() returns after 500 ms; what
\* the application calls, and when, is up to the application.
Fairness == WF_vars(MainStep) /\ WF_vars(RxStep)

Spec == Init /\ [][Next]_vars
FairSpec == Spec /\ Fairness

-----------------------------------------------------------------------------
(* Properties.                                                             *)

\* The type invariant.  No datagram carries the descriptor -1: not one that the
\* threads send, nor a packet received, whenever the socket is opened and closed.
TypeOK ==
  /\ pc \in [Threads -> MainPcs \cup RxPcs]
  /\ pc[Main] \in MainPcs
  /\ pc[Rx] \in RxPcs
  /\ call \in [op : {"none", "open", "close", "destroy"},
               host : Hosts \cup {NoAddr}, dialect : {"CLASSIC", "MMDVM"}]
  /\ threadState \in ThreadStates
  /\ phase \in Phases
  /\ server \in Hosts \cup {NoAddr}
  /\ dialect \in {"CLASSIC", "MMDVM"}
  /\ config \in Config
  /\ opens \in Nat
  /\ sockfd \in {-1} \cup 1 .. opens
  /\ queue \in Seq(Packet)
  /\ rxLock \in Threads \cup {NoThread}
  /\ front \in [Threads -> Packet \cup {NoPacket}]
  /\ packet \in Packet \cup {NoPacket}
  /\ lastPing \in Nat /\ lastPong \in Nat /\ now \in Nat
  /\ aborted \in BOOLEAN
  /\ toServer \subseteq Outbound
  /\ received \in Nat
  /\ delivered \in Seq(Packet)
  /\ notice \in BOOLEAN

\* The receive thread holds a packet that is not in the queue yet.
Holding == pc[Rx] \in {"lock", "check", "getLock", "getFront", "getErase", "push"}
Pipe == IF Holding THEN Append(queue, packet) ELSE queue

Ids(packets) == [i \in 1 .. Len(packets) |-> packets[i].id]

\* The receive thread calls getRxPacket() only with one packet more than the
\* limit queued, and then holds the lock that getRxPacket() takes.
SelfDeadlockOnlyWhenFull ==
  pc[Rx] = "getLock" => rxLock = Rx /\ Len(queue) = MaxQueue + 1

\* An assert() of the receive thread fails only in the classic dialect, which has
\* no receive path, and with a value that is wider than its column: never the one
\* at its start, however the last session ended, nor the one on the length of the
\* configuration when every value fits.
AssertsHold ==
  /\ pc[Rx] = "start" => phase = "CP_DISCONNECTED"
  /\ aborted => dialect = "CLASSIC" \/ ~Fits(config)

\* open() starts no second receive thread, and neither open() nor the destructor
\* touches the members a receive thread uses before that thread has ended.
JoinedBeforeReuse ==
  pc[Main] \in {"resolve", "socket", "create", "destroy", "destroyed"}
    => pc[Rx] = "none"

\* What the server has been sent on the session's socket is what the phase says:
\* each handshake datagram after the one it answers, pings only when connected.
SentOn(s) == {d.kind : d \in {e \in toServer : e.sock = s}} \ {"DMRD"}
SentInPhase ==
  [CP_DISCONNECTED |-> {{}}, CP_LOGIN |-> {{"RPTL"}},
   CP_AUTH |-> {{"RPTL", "RPTK"}}, CP_CONFIG |-> {{"RPTL", "RPTK", "RPTC"}},
   CP_DATA |-> {{"RPTL", "RPTK", "RPTC"}, {"RPTL", "RPTK", "RPTC", "RPTP"}}]
WireMatchesPhase ==
  ~aborted /\ pc[Rx] \in RxPcs \ {"none", "closeSock", "exit", "ended"}
    => SentOn(sockfd) \in SentInPhase[phase]

\* A session that logged in has logged out before its socket is closed.
ClosedSessionsLoggedOut ==
  \A s \in (1 .. opens) \ {sockfd} :
    "RPTL" \in SentOn(s) => "RPTCL" \in SentOn(s)

\* Every packet the application gets or will get was sent by the server that
\* its session logged in to, whatever other hosts send to the socket.
SenderChecked ==
  LET all == delivered \o Pipe
  IN  \A i \in 1 .. Len(all) :
        [kind |-> "RPTL", to |-> all[i].from, sock |-> all[i].sock] \in toServer

\* Once a session has logged out nothing follows on its socket, unless the master
\* ended it: then the application can still be sending DMR data.
LogoutIsLast ==
  [][\A d \in toServer' \ toServer :
       "RPTCL" \in SentOn(d.sock) => d.kind = "DMRD" /\ notice]_vars

\* The packet path implements the abstract pipe: no packet is lost, repeated or
\* reordered on its way from recvfrom() through the queue to the application, also
\* when getRxPacket() runs between the receive thread's accesses to the queue, and
\* across close() and open().
PipeRefined == INSTANCE RxPipe
  WITH Limit <- MaxQueue + 1, pipe <- Ids(Pipe), accepted <- received,
       handed <- Ids(delivered)
ImplementsPipe == PipeRefined!PipeSpec

\* No assert() fails in the receive thread.
NoAssertFails == ~aborted

\* Every call returns: close() does not wait forever for the receive thread, nor
\* getRxPacket() for the lock.
CallsReturn ==
  pc[Main] \notin {"app", "destroyed"} ~> pc[Main] \in {"app", "destroyed"}

\* A master that announces its shutdown gets a logout, and the thread ends.
NoticeStops == notice ~> pc[Rx] \in {"ended", "none"}
=============================================================================
