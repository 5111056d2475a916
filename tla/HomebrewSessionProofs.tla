------------------------ MODULE HomebrewSessionProofs ------------------------
(***************************************************************************)
(* Proofs about HomebrewSession, for any number of sessions: on a network  *)
(* that reorders and loses datagrams but does not duplicate them, client   *)
(* and master agree on the steps of the login, and no session that was     *)
(* closed is connected at the master.                                      *)
(***************************************************************************)
EXTENDS HomebrewSession, HomebrewClientProofs

\* The places of a receive thread that has sent its login.
LoggedIn == RxActive \ {"start"}

HasAck(s) == [kind |-> "RPTACK", sock |-> s] \in toClient
Seen(kind, s) == \E d \in handled : d.kind = kind /\ d.sock = s

MasterTypeOK ==
  /\ peer \in [Sockets -> Peer]
  /\ granted \in [Sockets -> 0 .. 3]
  /\ handled \subseteq {d \in toServer : d.to = Server}
  /\ toClient \subseteq [kind : InKinds, sock : Sockets]

\* Only open() opens a socket, and never more than MaxOpens.
OpensInv ==
  /\ opens <= MaxOpens
  /\ pc[Main] \in {"resolve", "socket"} => call.op = "open"
  /\ pc[Main] \in {"close", "stop", "join", "resolve", "socket"} /\ call.op = "open" =>
       opens < MaxOpens

\* Each step that was granted has used up its datagram; a key or a configuration is
\* sent only when the step before it was granted; and a master that has taken a
\* logout knows of a login at most, whose key will never come.
PeerInv ==
  \A s \in Sockets :
    /\ peer[s] # "unknown" => granted[s] = LoginRank[peer[s]]
    /\ granted[s] >= 1 => Seen("RPTL", s)
    /\ granted[s] >= 2 => Seen("RPTK", s)
    /\ granted[s] >= 3 => Seen("RPTC", s)
    /\ HasAck(s) => granted[s] >= 1
    /\ "RPTK" \in OnWire[s] => granted[s] >= 1
    /\ "RPTC" \in OnWire[s] => granted[s] >= 2
    /\ Seen("RPTCL", s) /\ peer[s] # "unknown" =>
         peer[s] = "login" /\ "RPTK" \notin OnWire[s]

\* The master is one step ahead of a client exactly when its acknowledgement is on
\* the way, and the client has sent nothing that its phase does not ask for.
Rank == PhaseRank[phase]
AgreeInv ==
  pc[Rx] \in LoggedIn =>
    /\ phase # "CP_DISCONNECTED"
    /\ granted[sockfd] - Rank \in {0, 1}
    /\ ~aborted => (HasAck(sockfd) <=> granted[sockfd] = Rank + 1)
    /\ "RPTK" \in OnWire[sockfd] => Rank >= 1
    /\ "RPTC" \in OnWire[sockfd] => Rank >= 2

MasterInv == MasterTypeOK /\ OpensInv /\ PeerInv /\ AgreeInv

\* What RxReceive expects of a datagram.
KindsInv == \A d \in toClient : d.kind \in InKinds

-----------------------------------------------------------------------------
(* The client of a session is a HomebrewClient.                            *)

LEMMA ReceiveIsInbound ==
  ASSUME KindsInv, NEW d \in toClient
  PROVE  [kind |-> d.kind, from |-> Server] \in Inbound
BY ServerAssumption DEF KindsInv, Inbound

\* A step of the session is one the client's specification allows.
LEMMA StepIsClientStep ==
  ASSUME KindsInv, [SessionNext]_sessionVars
  PROVE  [Next]_vars
<1>1. CASE ClientStep
  BY <1>1 DEF ClientStep, Next, AppCall, RxStep
<1>2. ASSUME NEW d \in toClient, Receive(d) PROVE Next
  BY <1>2, ReceiveIsInbound DEF Receive, Next, RxStep
<1>3. ASSUME NEW d \in toClient, Ignore(d) PROVE Next
  BY <1>3 DEF Ignore, Next, RxStep
<1>4. CASE MasterStep
  BY <1>4 DEF MasterStep
<1>5. CASE Terminated
  BY <1>5 DEF Terminated
<1>6. CASE UNCHANGED sessionVars
  BY <1>6 DEF sessionVars
<1> QED
  BY <1>1, <1>2, <1>3, <1>4, <1>5, <1>6 DEF SessionNext, ClientReceives

LEMMA KindsStep == KindsInv /\ [SessionNext]_sessionVars => KindsInv'
<1> SUFFICES ASSUME KindsInv, [SessionNext]_sessionVars PROVE KindsInv'
  OBVIOUS
<1> USE DEF KindsInv, InKinds
<1>1. CASE ClientStep \/ (Terminated /\ UNCHANGED masterVars) \/ UNCHANGED sessionVars
  BY <1>1 DEF ClientStep, masterVars, sessionVars
<1>2. ASSUME NEW d \in toClient, Receive(d) \/ Ignore(d) PROVE KindsInv'
  BY <1>2 DEF Receive, Ignore
<1>3. ASSUME NEW d \in toServer, MasterHandles(d) PROVE KindsInv'
  BY <1>3 DEF MasterHandles, MasterGrants, MasterRefuses, MasterPongs, MasterForgets, Answer
<1>4. ASSUME NEW s \in Sockets, MasterSends(s) \/ MasterShutsDown(s) PROVE KindsInv'
  BY <1>4 DEF MasterSends, MasterShutsDown
<1> QED
  BY <1>1, <1>2, <1>3, <1>4
  DEF SessionNext, ClientReceives, MasterStep, MasterAnswers, InFlight

LEMMA KindsInductive == SessionSpec => []KindsInv
<1>1. SessionInit => KindsInv
  BY DEF SessionInit, KindsInv
<1> QED
  BY <1>1, KindsStep, PTL DEF SessionSpec

\* Everything proved about HomebrewClient, for any network, holds in a session.
THEOREM SessionUsesClient == SessionSpec => Spec
<1>1. SessionInit => Init
  BY DEF SessionInit
<1>2. KindsInv /\ [SessionNext]_sessionVars => [Next]_vars
  BY StepIsClientStep
<1> QED
  BY <1>1, <1>2, KindsInductive, PTL DEF SessionSpec, Spec

LEMMA ClientInvariant == SessionSpec => []FullInv
BY SessionUsesClient, FullInductive, PTL

-----------------------------------------------------------------------------
(* What a step of the client does to the session.                          *)

\* Sockets are counted by open(), which asks for one only below the bound.
LEMMA OpensStep == IInv /\ OpensInv /\ [Next]_vars => OpensInv'
<1> SUFFICES ASSUME IInv, OpensInv, [Next]_vars PROVE OpensInv'
  OBVIOUS
<1> USE DEF IInv, TypeOK, ThreadInv, OpensInv, callVars, wireVars, clockVars, pipeVars, restVars,
            stillVars, At, Goto, MainPcs, RxPcs, Main, Rx, Threads
<1>0. MaxOpens \in Nat
  BY BoundsAssumption
<1>1. CASE AppCall
  BY <1>1
  DEF AppCall, AppControl, AppConfigure, AppOpen, AppClose, AppSend, AppGet, NoCall
<1>2. CASE CloseIdle \/ CloseActive \/ CloseStop
  BY <1>2 DEF CloseIdle, CloseActive, CloseStop, AfterClose
<1>3. CASE CloseJoin
  BY <1>3 DEF CloseJoin, AfterClose
<1>4. CASE OpenResolve \/ Destroy \/ OpenCreate
  BY <1>4 DEF OpenResolve, Destroy, OpenCreate
<1>5. CASE OpenSocket
  BY <1>0, <1>5 DEF OpenSocket
<1>6. ASSUME NEW t \in Threads, GetStep(t) PROVE OpensInv'
  BY <1>6 DEF GetStep, GetLock, GetEmpty, GetFront, GetErase, AfterGet
<1>7. ASSUME RxLocal \/ RxNothing, ~GetStep(Rx) PROVE OpensInv'
  BY <1>7 DEF RxLocal, RxStart, RxLoopTest, RxLock, RxCheck, RxPush, RxLogout,
              RxCloseSocket, RxExit, RxNothing
<1>8. ASSUME NEW d \in Inbound, RxReceive(d) PROVE OpensInv'
  BY <1>8 DEF RxReceive, Received, Accepted, RxClassic, RxAck, AckAnswered,
              AckMisfit, RxMasterClose, RxPong, RxData
<1>9. CASE Tick \/ UNCHANGED vars
  BY <1>9 DEF Tick, vars
<1> QED
  BY <1>1, <1>2, <1>3, <1>4, <1>5, <1>6, <1>7, <1>8, <1>9
  DEF Next, MainStep, RxStep, Terminated

\* While the receive thread can send, it keeps its socket.
LEMMA SenderStays ==
  ASSUME IInv, [Next]_vars, pc[Rx] \in {"start", "recv", "logout"}
  PROVE  sockfd' = sockfd /\ pc'[Rx] \in RxActive
<1> USE DEF IInv, TypeOK, ThreadInv, JoinedBeforeReuse, RxActive, callVars, wireVars,
            clockVars, pipeVars, restVars, stillVars, At, Goto, MainPcs, RxPcs, Main,
            Rx, Threads
<1>1. CASE AppCall \/ Tick \/ UNCHANGED vars
  BY <1>1
  DEF AppCall, AppControl, AppConfigure, AppOpen, AppClose, AppSend, AppGet, Tick, vars
<1>2. CASE MainStep
  BY <1>2
  DEF MainStep, CloseIdle, CloseActive, CloseStop, CloseJoin, OpenResolve, OpenSocket,
      OpenCreate, Destroy, GetStep, GetLock, GetEmpty, GetFront, GetErase
<1>3. CASE RxLocal \/ RxNothing
  BY <1>3 DEF RxLocal, RxStart, RxLoopTest, RxLock, RxCheck, RxPush, RxLogout,
     RxCloseSocket, RxExit, RxNothing, GetStep, GetLock, GetEmpty, GetFront, GetErase
<1>4. ASSUME NEW d \in Inbound, RxReceive(d)
      PROVE  sockfd' = sockfd /\ pc'[Rx] \in RxActive
  BY <1>4 DEF RxReceive, RxClassic, RxAck, AckAnswered, AckMisfit, RxMasterClose,
              RxPong, RxData
<1> QED
  BY <1>1, <1>2, <1>3, <1>4 DEF Next, RxStep, Terminated

\* Taking a datagram leaves the other datagrams on the way to the client.
LEMMA TakesOne ==
  ASSUME ~Duplication, NEW d \in toClient, Receive(d) \/ Ignore(d)
  PROVE  /\ d.sock = sockfd
         /\ toClient' = toClient \ {d}
         /\ UNCHANGED <<peer, granted, handled>>
BY DEF Receive, Ignore

\* What keeps client and master in step: a step that leaves both, and the wire's
\* login, as they are.
LEMMA AgreeKept ==
  ASSUME AgreeInv, UNCHANGED <<sockfd, phase, granted>>, pc[Rx] \in LoggedIn,
         aborted => aborted',
         aborted' \/ (HasAck(sockfd)' <=> HasAck(sockfd)),
         OnWire'[sockfd] \cap {"RPTK", "RPTC"} = OnWire[sockfd] \cap {"RPTK", "RPTC"}
  PROVE  AgreeInv'
BY DEF AgreeInv, Rank

\* On the wire of a receive loop there is what its phase asks for.
LEMMA WireOfPhase ==
  ASSUME WireInv', TypeOK', ~aborted', pc'[Rx] \in LoggedIn \ {"closeSock"}
  PROVE  /\ phase' # "CP_DISCONNECTED" /\ Rank' \in 0 .. 3
         /\ "RPTK" \in OnWire'[sockfd'] => Rank' >= 1
         /\ "RPTC" \in OnWire'[sockfd'] => Rank' >= 2
<1>1. OnWire'[sockfd'] \in SentInPhase[phase'] /\ "RPTL" \in OnWire'[sockfd']
  BY DEF WireInv, LoggedIn
<1>2. ASSUME NEW p \in Phases, NEW X \in SentInPhase[p], "RPTL" \in X
      PROVE  /\ p # "CP_DISCONNECTED" /\ PhaseRank[p] \in 0 .. 3
             /\ "RPTK" \in X => PhaseRank[p] >= 1
             /\ "RPTC" \in X => PhaseRank[p] >= 2
  <2>1. CASE p = "CP_DISCONNECTED" \/ p = "CP_LOGIN" \/ p = "CP_AUTH"
    BY <1>2, <2>1 DEF SentInPhase, PhaseRank
  <2>2. CASE p = "CP_CONFIG" \/ p = "CP_DATA"
    BY <2>2 DEF PhaseRank
  <2> QED
    BY <2>1, <2>2 DEF Phases
<1>3. phase' \in Phases
  BY DEF TypeOK
<1> QED
  BY <1>1, <1>2, <1>3 DEF Rank

\* In a step of the receive loop that leaves the phase alone, the datagrams that
\* may be sent are pings.
LEMMA AgreeLoop ==
  ASSUME AgreeInv, WireInv', TypeOK', pc[Rx] = "recv", ~aborted, ~aborted',
         pc'[Rx] \in {"loop", "lock"}, UNCHANGED <<sockfd, phase, granted>>,
         HasAck(sockfd)' <=> HasAck(sockfd)
  PROVE  AgreeInv'
BY WireOfPhase DEF AgreeInv, LoggedIn, RxActive, RxPcs, Rank

\* The acknowledgement that the client takes is the one for its step.
LEMMA AgreeAck ==
  ASSUME MasterTypeOK, AgreeInv, WireInv', TypeOK, TypeOK', pc[Rx] = "recv", ~aborted,
         UNCHANGED <<sockfd, granted>>, sockfd \in Sockets,
         HasAck(sockfd), ~HasAck(sockfd)',
         \/ ~aborted' /\ pc'[Rx] = "loop" /\ phase' = AckNext[phase]
         \/ /\ aborted' /\ UNCHANGED <<pc, toServer>>
            /\ phase = "CP_AUTH" /\ phase' = "CP_CONFIG"
  PROVE  AgreeInv'
<1>1. /\ granted[sockfd] = Rank + 1 /\ granted[sockfd] \in 0 .. 3
      /\ phase \in {"CP_LOGIN", "CP_AUTH", "CP_CONFIG"}
  BY DEF MasterTypeOK, AgreeInv, LoggedIn, RxActive, RxPcs, Rank, PhaseRank, TypeOK,
         Phases
<1>2. CASE ~aborted'
  <2>1. Rank' = Rank + 1 /\ Rank \in 0 .. 2
    BY <1>1, <1>2 DEF Rank, PhaseRank, AckNext
  <2> QED
    BY <1>1, <1>2, <2>1, WireOfPhase DEF AgreeInv, LoggedIn, RxActive, RxPcs
<1>3. CASE aborted'
  <2>1. OnWire' = OnWire
    BY <1>3, NothingSent
  <2> QED
    BY <1>1, <1>3, <2>1 DEF AgreeInv, LoggedIn, RxActive, RxPcs, Rank, PhaseRank
<1> QED
  BY <1>2, <1>3

\* The master has seen only what was sent.
LEMMA SeenIsSent ==
  ASSUME MasterTypeOK, NEW s \in Int, NEW kind, Seen(kind, s), kind # "DMRD"
  PROVE  kind \in OnWire[s]
BY DEF MasterTypeOK, Seen, OnWire, SentOn

\* The master knows nothing of a socket on which nothing was sent.
LEMMA FreshSocket ==
  ASSUME MasterTypeOK, PeerInv, NEW s \in Sockets, s \in Int, OnWire[s] = {}
  PROVE  granted[s] = 0 /\ ~HasAck(s)
<1>1. ~Seen("RPTL", s)
  BY SeenIsSent
<1> QED
  BY <1>1 DEF MasterTypeOK, PeerInv

LEMMA SentOnSocket ==
  ASSUME TypeOK, NEW K \in SUBSET OutKinds, toServer' = Sent(K), sockfd # -1
  PROVE  OnWire'[sockfd] = OnWire[sockfd] \cup (K \ {"DMRD"})
<1>1. OnWire' = [OnWire EXCEPT ![sockfd] = @ \cup (K \ {"DMRD"})]
  BY SentAdds
<1>2. sockfd \in DOMAIN OnWire
  BY DEF OnWire, TypeOK
<1> QED
  BY <1>1, <1>2

\* Any step of the client.
LEMMA AgreeReceives ==
  ASSUME ~Duplication, FullInv, MasterInv, WireInv', TypeOK',
         NEW d \in toClient, Receive(d) \/ Ignore(d)
  PROVE  AgreeInv'
<1> DEFINE in == [kind |-> d.kind, from |-> Server]
<1>1. /\ d.sock = sockfd /\ toClient' = toClient \ {d}
      /\ UNCHANGED <<peer, granted, handled>>
  BY TakesOne
<1>2. /\ pc[Rx] = "recv" /\ ~aborted /\ sockfd' = sockfd
      /\ DOMAIN pc = Threads /\ Rx \in Threads
      /\ sockfd \in Sockets
  BY DEF Receive, Ignore, RxReceive, RxNothing, RxClassic, RxAck, AckAnswered, AckMisfit,
         RxMasterClose, RxPong, RxData, Received, Accepted, At, FullInv, IInv, TypeOK,
         MasterInv, MasterTypeOK, wireVars, Threads
<1>3. d = [kind |-> d.kind, sock |-> sockfd]
  BY <1>1 DEF MasterInv, MasterTypeOK
<1>4. HasAck(sockfd)' <=> HasAck(sockfd) /\ d.kind # "RPTACK"
  BY <1>1, <1>2, <1>3 DEF HasAck
<1>5. CASE Ignore(d)
  BY <1>1, <1>2, <1>4, <1>5, AgreeLoop
  DEF Ignore, RxNothing, Goto, MasterInv
<1>6. CASE RxClassic(in)
  BY <1>1, <1>2, <1>6, NothingSent, AgreeKept
  DEF RxClassic, wireVars, LoggedIn, RxActive, RxPcs, MasterInv
<1>7. CASE RxMasterClose(in) \/ RxPong(in) \/ RxData(in)
  BY <1>1, <1>2, <1>4, <1>7, AgreeLoop
  DEF RxMasterClose, RxPong, RxData, Received, Goto, MasterInv
<1>8. CASE RxAck(in)
  BY <1>1, <1>2, <1>3, <1>4, <1>8, AgreeAck
  DEF RxAck, AckAnswered, AckMisfit, Received, Goto, wireVars, MasterInv, HasAck,
      FullInv, IInv
<1> QED
  BY <1>5, <1>6, <1>7, <1>8 DEF Receive, RxReceive

LEMMA AgreeSteps ==
  ASSUME FullInv, MasterInv, WireInv', TypeOK', ClientStep
  PROVE  AgreeInv'
<1> USE DEF FullInv, IInv, TypeOK, ThreadInv, JoinedBeforeReuse, LoggedIn, RxActive,
            callVars, wireVars, clockVars, pipeVars, restVars, stillVars, At, Goto,
            MainPcs, RxPcs, Main, Rx, Threads
<1>1. UNCHANGED <<granted, toClient>>
  BY DEF ClientStep, masterVars
<1>2. ASSUME pc[Rx] \in LoggedIn, UNCHANGED <<sockfd, phase, toServer, aborted>>
      PROVE  AgreeInv'
  BY <1>1, <1>2, NothingSent, AgreeKept DEF MasterInv, HasAck
<1>3. ASSUME pc'[Rx] = pc[Rx], UNCHANGED <<sockfd, phase, toServer, aborted>>
      PROVE  AgreeInv'
  BY <1>2, <1>3 DEF AgreeInv
<1>4. ASSUME pc'[Rx] \in {"none", "start", "exit", "ended"} PROVE AgreeInv'
  BY <1>4 DEF AgreeInv
<1>5. CASE AppControl \/ Tick
  BY <1>3, <1>5
  DEF AppControl, AppConfigure, AppOpen, AppClose, AppGet, Tick
<1>6. CASE MainStep
  BY <1>3, <1>4, <1>6
  DEF MainStep, CloseIdle, CloseActive, CloseStop, CloseJoin, OpenResolve, OpenSocket,
      OpenCreate, Destroy, GetStep, GetLock, GetEmpty, GetFront, GetErase
<1>7. CASE RxLoopTest \/ RxLock \/ RxCheck \/ RxPush \/ GetStep(Rx)
  BY <1>2, <1>7
  DEF RxLoopTest, RxLock, RxCheck, RxPush, GetStep, GetLock, GetEmpty, GetFront, GetErase
<1>8. CASE RxCloseSocket \/ RxExit
  BY <1>4, <1>8 DEF RxCloseSocket, RxExit
<1>9. CASE RxNothing
  BY <1>1, <1>9, AgreeLoop DEF RxNothing, MasterInv, HasAck
<1>10. CASE RxLogout
  <2>1. {"RPTCL"} \in SUBSET OutKinds
    BY DEF OutKinds
  <2>4. TypeOK /\ sockfd # -1 /\ toServer' = Sent({"RPTCL"})
    BY <1>10 DEF RxLogout, ReceiverHasSocket
  <2>3. OnWire'[sockfd] = OnWire[sockfd] \cup {"RPTCL"}
    <3>1. OnWire'[sockfd] = OnWire[sockfd] \cup ({"RPTCL"} \ {"DMRD"})
      BY <2>1, <2>4, SentOnSocket
    <3> QED
      BY <3>1
  <2> QED
    BY <1>1, <1>10, <2>3, AgreeKept DEF RxLogout, MasterInv, HasAck
<1>11. CASE RxStart
  <2>1. sockfd' = sockfd /\ sockfd \in Sockets /\ sockfd \in Int /\ OnWire[sockfd] = {}
    BY <1>11 DEF RxStart, WireInv, ReceiverHasSocket, MasterInv, OpensInv, Sockets
  <2>2. granted[sockfd] = 0 /\ ~HasAck(sockfd)
    BY <2>1, FreshSocket DEF MasterInv
  <2>3. pc'[Rx] = "loop" /\ phase' = "CP_LOGIN" /\ ~aborted'
    BY <1>11 DEF RxStart
  <2> QED
    BY <1>1, <2>1, <2>2, <2>3, WireOfPhase DEF AgreeInv, HasAck, Rank, PhaseRank
<1> QED
  BY <1>5, <1>6, <1>7, <1>8, <1>9, <1>10, <1>11 DEF ClientStep, RxLocal

\* A key or a configuration is sent by a client that the master has granted the
\* step before it, and by none that has logged out.
LEMMA PeerSteps ==
  ASSUME FullInv, MasterInv, WireInv', TypeOK', AgreeInv', [Next]_vars,
         UNCHANGED <<peer, granted, handled>>, toClient' \subseteq toClient
  PROVE  PeerInv'
<1>1. \A s : Seen("RPTL", s)' = Seen("RPTL", s) /\ Seen("RPTK", s)' = Seen("RPTK", s)
             /\ Seen("RPTC", s)' = Seen("RPTC", s) /\ Seen("RPTCL", s)' = Seen("RPTCL", s)
  BY DEF Seen
<1>2. \A s : HasAck(s)' => HasAck(s)
  BY DEF HasAck
<1>3. ASSUME NEW s \in Sockets, s \in Int, NEW kind \in {"RPTK", "RPTC"},
             kind \in OnWire'[s], kind \notin OnWire[s]
      PROVE  /\ kind = "RPTK" => granted[s] >= 1
             /\ kind = "RPTC" => granted[s] >= 2
             /\ ~Seen("RPTCL", s)
  <2>1. PICK e \in toServer' : e.sock = s /\ e.kind = kind
    BY <1>3 DEF OnWire, SentOn
  <2>2. e \notin toServer
    BY <1>3, <2>1 DEF OnWire, SentOn
  <2>3. s = sockfd /\ ~aborted /\ pc[Rx] \in {"start", "recv", "logout"}
    BY <2>1, <2>2, StepSends DEF FullInv, SendsOwn
  <2>4. sockfd' = sockfd /\ pc'[Rx] \in RxActive
    BY <2>3, SenderStays DEF FullInv
  <2>5. pc'[Rx] # "start"
    BY <1>3, <2>3, <2>4 DEF WireInv, RxActive, FullInv, ReceiverHasSocket, IInv, ThreadInv
  <2>6. /\ granted[s] - Rank' \in {0, 1} /\ phase' # "CP_DISCONNECTED"
        /\ kind = "RPTK" => Rank' >= 1
        /\ kind = "RPTC" => Rank' >= 2
    BY <1>3, <2>3, <2>4, <2>5 DEF AgreeInv, LoggedIn
  <2>7. Rank' \in 0 .. 3 /\ granted[s] \in Nat
    BY <2>6 DEF Rank, PhaseRank, TypeOK, Phases, MasterInv, MasterTypeOK
  <2>8. "RPTCL" \notin OnWire[s]
    <3>1. OnWire[sockfd] \in SentInPhase[phase] /\ phase \in Phases
      BY <2>3 DEF FullInv, WireInv, IInv, TypeOK, RxActive, RxPcs
    <3>2. \A p \in Phases : \A X \in SentInPhase[p] : "RPTCL" \notin X
      BY DEF Phases, SentInPhase
    <3> QED
      BY <2>3, <3>1, <3>2
  <2> QED
    BY <1>3, <2>6, <2>7, <2>8, SeenIsSent DEF MasterInv
<1>4. ASSUME NEW s \in Sockets PROVE s \in Int
  BY BoundsAssumption DEF Sockets
<1> QED
  BY <1>1, <1>2, <1>3, <1>4 DEF MasterInv, PeerInv

-----------------------------------------------------------------------------
(* What a step of the master does.                                         *)

\* The datagrams in flight to the master.
LEMMA FlightType ==
  ASSUME FullInv, OpensInv, NEW d \in InFlight
  PROVE  /\ d \in toServer /\ d \notin handled /\ d.to = Server
         /\ d.sock \in Sockets /\ d.sock \in Int
         /\ d.kind # "DMRD" => d.kind \in OnWire[d.sock]
<1>1. d \in toServer /\ d \notin handled /\ d.to = Server
  BY DEF InFlight
<1>2. d.sock \in 1 .. opens
  BY <1>1 DEF FullInv, AddressInv
<1>3. d.sock \in Sockets /\ d.sock \in Int
  BY <1>2, BoundsAssumption DEF OpensInv, Sockets, FullInv, IInv, TypeOK
<1> QED
  BY <1>1, <1>3 DEF OnWire, SentOn

\* The one login datagram of a kind and a socket has not been answered while it is
\* in flight.
LEMMA UnseenInFlight ==
  ASSUME FullInv, MasterInv, NEW d \in InFlight
  PROVE  ~Seen(d.kind, d.sock)
<1> SUFFICES ASSUME NEW e \in handled, e.kind = d.kind, e.sock = d.sock PROVE FALSE
  BY DEF Seen
<1>1. e \in Outbound /\ d \in Outbound /\ e.to = d.to
  BY DEF MasterInv, MasterTypeOK, FullInv, IInv, TypeOK, InFlight
<1>2. e = d
  BY <1>1 DEF Outbound
<1> QED
  BY <1>2 DEF InFlight

LEMMA GrantSteps ==
  ASSUME ~Duplication, FullInv, MasterInv, UNCHANGED vars, NEW d \in InFlight,
         MasterGrants(d)
  PROVE  MasterTypeOK' /\ PeerInv' /\ AgreeInv'
<1> DEFINE s0 == d.sock
           k0 == d.kind
<1>1. /\ d \in toServer /\ d.to = Server /\ s0 \in Sockets /\ s0 \in Int
      /\ k0 \in {"RPTL", "RPTK", "RPTC"} /\ k0 \in OnWire[s0] /\ ~Seen(k0, s0)
  BY FlightType, UnseenInFlight DEF MasterGrants, Expected, MasterInv
<1>2. /\ UNCHANGED <<pc, phase, sockfd, opens, toServer, aborted>> /\ OnWire' = OnWire
  BY NothingSent DEF vars, restVars, wireVars, callVars
<1>3. /\ peer \in [Sockets -> Peer] /\ granted \in [Sockets -> 0 .. 3]
      /\ handled' = handled \cup {d}
      /\ toClient' = toClient \cup {[kind |-> "RPTACK", sock |-> s0]}
      /\ peer' = [peer EXCEPT ![s0] = Granted[k0]]
      /\ granted' = [granted EXCEPT ![s0] = LoginRank[Granted[k0]]]
      /\ peer[s0] = Expected[k0]
  BY DEF MasterGrants, Consumed, Answer, MasterInv, MasterTypeOK
<1>4. \/ k0 = "RPTL" /\ granted[s0] = 0 /\ peer[s0] = "unknown"
         /\ peer'[s0] = "login" /\ granted'[s0] = 1
      \/ k0 = "RPTK" /\ granted[s0] = 1 /\ peer[s0] = "login"
         /\ peer'[s0] = "auth" /\ granted'[s0] = 2
      \/ k0 = "RPTC" /\ granted[s0] = 2 /\ peer[s0] = "auth"
         /\ peer'[s0] = "connected" /\ granted'[s0] = 3
  <2>1. \/ k0 = "RPTL" /\ peer[s0] = "unknown" /\ peer'[s0] = "login" /\ granted'[s0] = 1
        \/ k0 = "RPTK" /\ peer[s0] = "login" /\ peer'[s0] = "auth" /\ granted'[s0] = 2
        \/ k0 = "RPTC" /\ peer[s0] = "auth" /\ peer'[s0] = "connected" /\ granted'[s0] = 3
    BY <1>1, <1>3 DEF Expected, Granted, LoginRank
  <2>2. granted[s0] \in 0 .. 3 /\ (granted[s0] >= 1 => Seen("RPTL", s0))
        /\ (peer[s0] # "unknown" => granted[s0] = LoginRank[peer[s0]])
    BY <1>1, <1>3 DEF MasterInv, PeerInv
  <2> QED
    BY <1>1, <2>1, <2>2 DEF LoginRank
<1>5. /\ peer' \in [Sockets -> Peer] /\ granted' \in [Sockets -> 0 .. 3]
      /\ \A s \in Sockets : s # s0 => peer'[s] = peer[s] /\ granted'[s] = granted[s]
  BY <1>1, <1>3, <1>4 DEF Peer
<1>6. \A k, s : Seen(k, s)' <=> Seen(k, s) \/ (k = k0 /\ s = s0)
  BY <1>3 DEF Seen
<1>7. \A s : HasAck(s)' <=> HasAck(s) \/ s = s0
  BY <1>3 DEF HasAck
<1>8. MasterTypeOK'
  <2>1. [kind |-> "RPTACK", sock |-> s0] \in [kind : InKinds, sock : Sockets]
    BY <1>1 DEF InKinds
  <2> QED
    BY <1>1, <1>2, <1>3, <1>5, <2>1 DEF MasterInv, MasterTypeOK
<1>9. PeerInv'
  <2> SUFFICES ASSUME NEW s \in Sockets
      PROVE /\ peer'[s] # "unknown" => granted'[s] = LoginRank[peer'[s]]
            /\ granted'[s] >= 1 => Seen("RPTL", s)'
            /\ granted'[s] >= 2 => Seen("RPTK", s)'
            /\ granted'[s] >= 3 => Seen("RPTC", s)'
            /\ HasAck(s)' => granted'[s] >= 1
            /\ "RPTK" \in OnWire'[s] => granted'[s] >= 1
            /\ "RPTC" \in OnWire'[s] => granted'[s] >= 2
            /\ Seen("RPTCL", s)' /\ peer'[s] # "unknown" =>
                 peer'[s] = "login" /\ "RPTK" \notin OnWire'[s]
    BY DEF PeerInv
  <2>1. CASE s # s0
    BY <1>2, <1>5, <1>6, <1>7, <2>1 DEF MasterInv, PeerInv
  <2>2. CASE s = s0
    <3> HIDE DEF s0, k0
    <3> QED
      BY <1>1, <1>2, <1>4, <1>6, <1>7, <2>2 DEF MasterInv, PeerInv, LoginRank
  <2> QED
    BY <2>1, <2>2
<1>10. AgreeInv'
  <2> SUFFICES ASSUME pc[Rx] \in LoggedIn PROVE AgreeInv'
    BY <1>2 DEF AgreeInv
  <2>1. /\ phase # "CP_DISCONNECTED" /\ granted[sockfd] - Rank \in {0, 1}
        /\ "RPTK" \in OnWire[sockfd] => Rank >= 1
        /\ "RPTC" \in OnWire[sockfd] => Rank >= 2
        /\ Rank \in 0 .. 3 /\ Rank' = Rank
    BY <1>2 DEF MasterInv, AgreeInv, Rank, PhaseRank, FullInv, IInv, TypeOK, Phases
  <2>2. CASE sockfd = s0
    BY <1>1, <1>2, <1>4, <1>7, <2>1, <2>2 DEF AgreeInv
  <2>3. CASE sockfd # s0
    <3>1. sockfd \in Sockets
      BY BoundsAssumption
      DEF MasterInv, OpensInv, FullInv, IInv, TypeOK, ThreadInv, ReceiverHasSocket,
          Sockets, LoggedIn
    <3> QED
      BY <1>2, <1>5, <1>7, <2>1, <2>3, <3>1 DEF AgreeInv, MasterInv
  <2> QED
    BY <2>2, <2>3
<1> QED
  BY <1>8, <1>9, <1>10

\* A step of the master that grants nothing: it may forget a peer, and answers
\* with anything but an acknowledgement.
MasterYields ==
  /\ UNCHANGED granted
  /\ handled \subseteq handled' /\ handled' \subseteq {d \in toServer : d.to = Server}
  /\ \E s \in Sockets, kind \in InKinds \ {"RPTACK"} :
       /\ toClient' \subseteq toClient \cup {[kind |-> kind, sock |-> s]}
       /\ toClient \subseteq toClient'
       /\ \/ peer' = peer
          \/ peer' = [peer EXCEPT ![s] = "unknown"]
       /\ \A d \in handled' \ handled :
            d.kind = "RPTCL" => d.sock = s /\ peer' = [peer EXCEPT ![s] = "unknown"]

LEMMA OtherMasterSteps ==
  ASSUME ~Duplication, FullInv, MasterInv, MasterStep
  PROVE  MasterYields \/ \E d \in InFlight : MasterGrants(d)
<1>1. ASSUME NEW d \in InFlight, MasterRefuses(d) PROVE MasterYields
  <2>1. "OTHER" \in InKinds \ {"RPTACK"} /\ d.kind # "RPTCL"
    BY <1>1 DEF InKinds, MasterRefuses, Expected
  <2> QED
    BY <1>1, <2>1, FlightType
    DEF MasterRefuses, Consumed, Answer, MasterYields, MasterInv, MasterTypeOK
<1>2. ASSUME NEW d \in InFlight, MasterPongs(d) PROVE MasterYields
  <2>1. PICK kind \in InKinds \ {"RPTACK"} : Answer(d, kind)
    BY <1>2 DEF InKinds, MasterPongs
  <2> QED
    BY <1>2, <2>1, FlightType
    DEF MasterPongs, Answer, MasterYields, MasterInv, MasterTypeOK
<1>3. ASSUME NEW d \in InFlight, MasterForgets(d) PROVE MasterYields
  <2>1. "OTHER" \in InKinds \ {"RPTACK"}
    BY DEF InKinds
  <2> QED
    BY <1>3, <2>1, FlightType
    DEF MasterForgets, Consumed, MasterYields, MasterInv, MasterTypeOK
<1>4. ASSUME NEW s \in Sockets, MasterSends(s) \/ MasterShutsDown(s) PROVE MasterYields
  <2>1. {"DMRD", "MSTCL"} \subseteq InKinds \ {"RPTACK"}
    BY DEF InKinds
  <2> QED
    BY <1>4, <2>1 DEF MasterSends, MasterShutsDown, MasterYields, MasterInv, MasterTypeOK
<1> QED
  BY <1>1, <1>2, <1>3, <1>4 DEF MasterStep, MasterAnswers, MasterHandles

LEMMA YieldSteps ==
  ASSUME FullInv, MasterInv, UNCHANGED vars, MasterYields
  PROVE  MasterTypeOK' /\ PeerInv' /\ AgreeInv'
<1>1. /\ UNCHANGED <<pc, phase, sockfd, opens, toServer, aborted>> /\ OnWire' = OnWire
  BY NothingSent DEF vars, restVars, wireVars, callVars
<1>2. PICK s0 \in Sockets, kind \in InKinds \ {"RPTACK"} :
        /\ toClient' \subseteq toClient \cup {[kind |-> kind, sock |-> s0]}
        /\ toClient \subseteq toClient'
        /\ \/ peer' = peer
           \/ peer' = [peer EXCEPT ![s0] = "unknown"]
        /\ \A d \in handled' \ handled :
             d.kind = "RPTCL" => d.sock = s0 /\ peer' = [peer EXCEPT ![s0] = "unknown"]
  BY DEF MasterYields
<1>3. peer \in [Sockets -> Peer] /\ granted' = granted
  BY DEF MasterYields, MasterInv, MasterTypeOK
<1>4. \A s : HasAck(s)' <=> HasAck(s)
  BY <1>2 DEF HasAck
<1>5. /\ peer' \in [Sockets -> Peer]
      /\ \A s \in Sockets : peer'[s] \in {peer[s], "unknown"}
      /\ \A s \in Sockets : Seen("RPTCL", s)' => Seen("RPTCL", s) \/ peer'[s] = "unknown"
  BY <1>2, <1>3 DEF Peer, Seen
<1>6. \A k, s : Seen(k, s) => Seen(k, s)'
  BY DEF MasterYields, Seen
<1>7. MasterTypeOK'
  BY <1>1, <1>2, <1>3, <1>5 DEF MasterYields, MasterInv, MasterTypeOK
<1>8. PeerInv'
  BY <1>1, <1>3, <1>4, <1>5, <1>6 DEF MasterInv, PeerInv
<1>9. AgreeInv'
  BY <1>1, <1>3, <1>4 DEF MasterInv, AgreeInv, Rank
<1> QED
  BY <1>7, <1>8, <1>9

-----------------------------------------------------------------------------
(* The invariant of a session.                                             *)

LEMMA MasterInitial == SessionInit => MasterInv
<1> SUFFICES ASSUME SessionInit PROVE MasterInv
  OBVIOUS
<1> USE DEF SessionInit, Init, Threads, Main, Rx
<1>1. MasterTypeOK
  BY DEF MasterTypeOK, Peer
<1>2. OpensInv
  BY BoundsAssumption DEF OpensInv, NoCall
<1>3. PeerInv
  <2>1. ASSUME NEW s \in Sockets PROVE OnWire[s] = {}
    BY BoundsAssumption DEF Sockets, OnWire, SentOn
  <2> QED
    BY <2>1 DEF PeerInv, Seen, HasAck
<1>4. AgreeInv
  BY DEF AgreeInv, LoggedIn, RxActive, RxPcs
<1> QED
  BY <1>1, <1>2, <1>3, <1>4 DEF MasterInv

LEMMA MasterSteps ==
  ASSUME ~Duplication, FullInv, FullInv', KindsInv, MasterInv, [SessionNext]_sessionVars
  PROVE  MasterInv'
<1>1. [Next]_vars
  BY StepIsClientStep
<1>2. OpensInv'
  BY <1>1, OpensStep DEF FullInv, MasterInv
<1>3. WireInv' /\ TypeOK'
  BY DEF FullInv, IInv
<1>4. CASE ClientStep
  <2>1. UNCHANGED <<peer, granted, handled, toClient>>
    BY <1>4 DEF ClientStep, masterVars
  <2>2. toServer \subseteq toServer'
    BY <1>1, StepSends DEF FullInv, SendsOwn
  <2>3. MasterTypeOK'
    BY <2>1, <2>2 DEF MasterInv, MasterTypeOK
  <2>4. AgreeInv'
    BY <1>3, <1>4, AgreeSteps
  <2> QED
    BY <1>1, <1>2, <1>3, <2>1, <2>3, <2>4, PeerSteps DEF MasterInv
<1>5. ASSUME NEW d \in toClient, Receive(d) \/ Ignore(d) PROVE MasterInv'
  <2>1. UNCHANGED <<peer, granted, handled>> /\ toClient' \subseteq toClient
    BY <1>5, TakesOne
  <2>2. toServer \subseteq toServer'
    BY <1>1, StepSends DEF FullInv, SendsOwn
  <2>3. MasterTypeOK'
    BY <2>1, <2>2 DEF MasterInv, MasterTypeOK
  <2>4. AgreeInv'
    BY <1>3, <1>5, AgreeReceives
  <2> QED
    BY <1>1, <1>2, <1>3, <2>1, <2>3, <2>4, PeerSteps DEF MasterInv
<1>6. CASE MasterStep
  BY <1>2, <1>6, OtherMasterSteps, GrantSteps, YieldSteps DEF MasterStep, MasterInv
<1>7. CASE (Terminated /\ UNCHANGED masterVars) \/ UNCHANGED sessionVars
  <2>1. UNCHANGED vars /\ UNCHANGED masterVars
    BY <1>7 DEF Terminated, sessionVars
  <2>2. UNCHANGED <<pc, phase, sockfd, opens, toServer, aborted>> /\ OnWire' = OnWire
    BY <2>1, NothingSent DEF vars, restVars, wireVars, callVars
  <2>3. UNCHANGED <<peer, granted, handled, toClient>>
    BY <2>1 DEF masterVars
  <2>4. MasterTypeOK'
    BY <2>2, <2>3 DEF MasterInv, MasterTypeOK
  <2>5. PeerInv'
    BY <2>2, <2>3 DEF MasterInv, PeerInv, Seen, HasAck
  <2>6. AgreeInv'
    BY <2>2, <2>3 DEF MasterInv, AgreeInv, HasAck, Rank
  <2> QED
    BY <1>2, <2>4, <2>5, <2>6 DEF MasterInv
<1> QED
  BY <1>4, <1>5, <1>6, <1>7 DEF SessionNext, ClientReceives

LEMMA MasterInductive ==
  ASSUME ~Duplication
  PROVE  SessionSpec => []MasterInv
<1>1. FullInv /\ FullInv' /\ KindsInv /\ MasterInv /\ [SessionNext]_sessionVars => MasterInv'
  BY MasterSteps
<1> QED
  BY <1>1, MasterInitial, ClientInvariant, KindsInductive, PTL DEF SessionSpec

-----------------------------------------------------------------------------
(* The theorems.                                                           *)

\* On a network that duplicates nothing the master has granted exactly the steps
\* that the client takes for granted, or one more, whose acknowledgement is on its
\* way: no acknowledgement is taken for the answer to another datagram, in no
\* session, however the datagrams are reordered or lost.  The hypothesis is
\* needed: in MCSessionDuplicate the client gets two steps ahead of the master.
THEOREM HandshakeStaysInStep ==
  ASSUME ~Duplication
  PROVE  SessionSpec => []HandshakeInStep
<1>1. MasterInv => HandshakeInStep
  BY DEF MasterInv, AgreeInv, HandshakeInStep, InLoop, LoggedIn, RxActive, Rank
<1> QED
  BY <1>1, MasterInductive, PTL

\* A master that has taken the logout of a session takes none of its late login
\* datagrams for a connection.
THEOREM ClosedStaysClosed ==
  ASSUME ~Duplication
  PROVE  SessionSpec => []NoGhostConnection
<1>1. FullInv /\ MasterInv => NoGhostConnection
  <2> SUFFICES ASSUME FullInv, MasterInv, NEW d \in handled, d.kind = "RPTCL"
               PROVE  peer[d.sock] # "connected"
    BY DEF NoGhostConnection
  <2>1. d.sock \in 1 .. opens
    BY DEF MasterInv, MasterTypeOK, FullInv, AddressInv
  <2>2. d.sock \in Sockets
    BY <2>1, BoundsAssumption DEF MasterInv, OpensInv, Sockets, FullInv, IInv, TypeOK
  <2>3. Seen("RPTCL", d.sock)
    BY DEF Seen
  <2> QED
    BY <2>2, <2>3 DEF MasterInv, PeerInv
<1> QED
  BY <1>1, MasterInductive, ClientInvariant, PTL

=============================================================================
